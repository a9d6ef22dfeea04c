-------------------------- MODULE RatePoolsProofs --------------------------
(***************************************************************************)
(* Proofs about RatePools, for any sets of sessions, pool rows and ledger  *)
(* versions, either backend and any number of calls: first what holds even *)
(* when sessions work on the same rows with stale copies, then what holds  *)
(* of the revisions of a rate as long as one session at a time works on    *)
(* them.                                                                   *)
(***************************************************************************)
EXTENDS RatePools, FiniteSetTheorems, TLAPS

-----------------------------------------------------------------------------
(* The inductive invariant *)

Sets(changes, p, k) == \E c \in changes : c[1] = p /\ c[2] = k
Consistent(changes) == \A c, d \in changes : c[1] = d[1] /\ c[2] = d[2] => c = d

\* A flush sets a column once; outside of a flush nothing is left to execute,
\* and outside of a transaction nothing is held.
FlushInv ==
    \A s \in Session :
        /\ pc[s] # "dml" => todo[s] = {}
        /\ Consistent(todo[s])
        /\ pc[s] = "idle" => closer # s /\ \A p \in Pool : rowLock[p] # s

\* A row nobody locks has no uncommitted update.
StoreInv == \A p \in Pool : rowLock[p] = NoSession => store[p] = db[p]

\* A rate, once set, stays set: rows in force have one, and a copy in an
\* identity map has one only if the row still does.
RateInv ==
    /\ \A p \in Pool : /\ InForce(db[p]) => db[p].rate # None
                       /\ InForce(store[p]) => store[p].rate # None
                       /\ db[p].rate # None => store[p].rate # None
    /\ \A s \in Session : \A c \in todo[s] :
          /\ c[2] = "rate" => c[3] # None
          /\ c[2] = "status" /\ c[3] \in {"approved", "locked"} => Visible(s, c[1]).rate # None
    /\ \A s \in Session, p \in Pool :
          cache[s][p] # NotLoaded /\ cache[s][p].rate # None
              => Visible(s, p).rate # None \/ Sets(todo[s], p, "rate")

\* Rows are locked by the transaction that closes the year, and by no other.
CloserInv ==
    /\ closer # NoSession => ~yearClosed
    /\ \A p \in Pool : db[p].status = "locked" => yearClosed
    /\ \A s \in Session : \A c \in todo[s] :
          c[2] = "status" /\ c[3] = "locked" => closer = s
    /\ \A s \in Session, p \in Pool :
          rowLock[p] = s /\ store[p].status = "locked" => db[p].status = "locked" \/ closer = s

\* Only an approval of some revision takes a row's lock away, and the trigger
\* guards the rate as long as it is locked.
TriggerInv ==
    \A s \in Session :
        /\ \A c \in todo[s] : c[2] = "status" =>
              c[3] = "locked" \/ approving[s] \intersect Family(Name[c[1]]) # {}
        /\ \A p \in Pool :
              /\ rowLock[p] = s /\ db[p].status = "locked"
              /\ approving[s] \intersect Family(Name[p]) = {}
              => store[p].status = "locked" /\ store[p].rate = db[p].rate

BaseInv == TypeOK /\ FlushInv /\ StoreInv /\ RateInv /\ CloserInv /\ TriggerInv

-----------------------------------------------------------------------------
(* Types, locks, rates that stay set *)

\* A rate that was computed is no missing rate.
LEMMA RateIsSet ==
    ASSUME NEW p \in Pool, NEW rate \in RateOf(Name[p])
    PROVE  rate # None
  BY NameAssumption, NoneAssumption

\* Changes of rows of the right types are of the right types.
LEMMA ChangesOK ==
    ASSUME NEW s, NEW new, NEW always, DOMAIN new \subseteq Pool,
           \A p \in DOMAIN new : RowOK(p, new[p]),
           NEW c \in Changes(s, new, always)
    PROVE  /\ ChangeOK(c) /\ c[1] \in DOMAIN new /\ c[3] = new[c[1]][c[2]]
           /\ c[3] # Loaded(s, c[1])[c[2]] \/ c[2] \in always
  BY DEF Changes, ChangeOK, RowOK

\* A row a session sees or has loaded is well formed, and in force only with
\* a rate.
LEMMA LoadedOK ==
    ASSUME TypeOK, NEW s \in Session, NEW p \in Pool
    PROVE  RowOK(p, Visible(s, p)) /\ RowOK(p, Loaded(s, p))
  BY DEF TypeOK, Visible, Loaded

\* A rate in force that a session sees is set.
LEMMA VisibleRate ==
    ASSUME RateInv, NEW s \in Session, NEW p \in Pool
    PROVE  InForce(Visible(s, p)) => Visible(s, p).rate # None
  BY DEF RateInv, Visible

\* The invariant holds at the start.
LEMMA BaseInit == Init => BaseInv
<1> SUFFICES ASSUME Init PROVE BaseInv
  OBVIOUS
<1>1. ASSUME NEW p \in Pool PROVE RowOK(p, db[p]) /\ db[p].status = "pending"
  <2>1. CASE db[p] = Pending
    BY <2>1 DEF Pending, RowOK, Column, ColumnOf, Status
  <2>2. CASE db[p] # Pending
    <3>1. PICK v \in Version : db[p] = Calculated(v)
      BY <2>2 DEF Init
    <3>2. Name[p] = "fringe"
      BY <2>2 DEF Init
    <3>3. [n \in {} |-> None] \in [{} -> {None}]
      OBVIOUS
    <3> DEFINE base == [labor |-> v, rates |-> [n \in {} |-> None]]
    <3>4. base \in BaseOf("fringe")
      BY <3>3 DEF BaseOf, UpstreamRates
    <3>5. Rate(v, base) \in RateOf("fringe")
      BY <3>4 DEF BaseOf, RateOf, RateOver, Rate
    <3> HIDE DEF base
    <3>6. db[p] = [Pending EXCEPT !.base = base, !.rate = Rate(v, base), !.run = Rate(v, base)]
      BY <3>1 DEF Calculated, base
    <3> QED
      BY <3>2, <3>4, <3>5, <3>6 DEF Pending, RowOK, Column, ColumnOf, Status
  <2> QED
    BY <2>1, <2>2
<1>2. TypeOK
  BY <1>1 DEF Init, TypeOK
<1>3. FlushInv /\ StoreInv /\ CloserInv /\ TriggerInv
  BY <1>1, SessionAssumption DEF Init, FlushInv, Consistent, StoreInv, CloserInv, TriggerInv
<1>4. RateInv
  BY <1>1 DEF Init, RateInv, InForce
<1> QED
  BY <1>2, <1>3, <1>4 DEF BaseInv

\* What the four service calls have in common: the session's objects get new
\* values, and the difference is flushed.
Call(s, new, always) ==
    /\ Ready(s)
    /\ DOMAIN new \subseteq Pool
    /\ \A p \in DOMAIN new : RowOK(p, new[p])
    /\ todo' = [todo EXCEPT ![s] = Changes(s, new, always)]
    /\ cache' = [cache EXCEPT ![s] = [p \in Pool |-> IF p \in DOMAIN new THEN new[p]
                                                                     ELSE cache[s][p]]]
    /\ \E place \in {pc[s], "open", "dml"} :
          /\ pc' = [pc EXCEPT ![s] = place]
          /\ place # "dml" => Changes(s, new, always) = {}
    /\ \/ closer' = closer
       \/ closer = NoSession /\ ~yearClosed /\ closer' = s /\ pc'[s] # "idle"
    /\ chainLock' \in {chainLock, s}
    /\ approving' \in [Session -> SUBSET Pool]
    /\ \A t \in Session : approving[t] \subseteq approving'[t]
    /\ UNCHANGED <<backend, ledger, db, store, rowLock, yearClosed>>

\* A service call keeps the invariant if the statuses it sets are grounded: a rate in
\* force is there, and what it locks or supersedes belongs to a close or an approval.
LEMMA CallBase ==
    ASSUME BaseInv, NEW s \in Session, NEW new, NEW always, "status" \notin always,
           Call(s, new, always),
           \A p \in DOMAIN new :
              /\ new[p].rate = Loaded(s, p).rate \/ new[p].rate # None
              /\ new[p].status # Loaded(s, p).status =>
                    /\ InForce(new[p]) => Visible(s, p).rate # None
                    /\ new[p].status = "locked" => closer' = s
                    /\ new[p].status = "locked" \/ approving'[s] \intersect Family(Name[p]) # {},
           "rate" \notin always
    PROVE  BaseInv'
<1>0. TypeOK /\ FlushInv /\ StoreInv /\ RateInv /\ CloserInv /\ TriggerInv
  BY DEF BaseInv
<1>1. /\ Ready(s) /\ UNCHANGED <<backend, ledger, db, store, rowLock, yearClosed>>
      /\ \A t \in Session : \A p \in Pool : Visible(t, p)' = Visible(t, p)
      /\ todo[s] = {}
  BY <1>0 DEF Call, Visible, FlushInv, Ready
<1>2. /\ DOMAIN todo' = Session /\ todo'[s] = Changes(s, new, always)
      /\ \A t \in Session \ {s} : todo'[t] = todo[t] /\ cache'[t] = cache[t] /\ pc'[t] = pc[t]
      /\ DOMAIN cache' = Session /\ DOMAIN cache'[s] = Pool
      /\ \A p \in Pool : cache'[s][p] = IF p \in DOMAIN new THEN new[p] ELSE cache[s][p]
      /\ pc'[s] \in {pc[s], "open", "dml"}
      /\ pc'[s] # "dml" => todo'[s] = {}
  BY <1>0 DEF Call, TypeOK
<1>3. \A c \in todo'[s] : /\ ChangeOK(c) /\ c[1] \in DOMAIN new /\ c[3] = new[c[1]][c[2]]
                          /\ c[3] # Loaded(s, c[1])[c[2]] \/ c[2] \in always
  BY <1>2, ChangesOK DEF Call
<1>4. TypeOK'
  <2>1. \A p \in Pool : RowOK(p, db[p])' /\ RowOK(p, store[p])'
    BY <1>0, <1>1 DEF TypeOK, RowOK, ColumnOf
  <2>2. \A t \in Session : /\ DOMAIN cache'[t] = Pool
                           /\ \A p \in Pool : cache'[t][p] # NotLoaded => RowOK(p, cache'[t][p])
    BY <1>0, <1>2 DEF TypeOK, Call
  <2>3. \A t \in Session : \A c \in todo'[t] : ChangeOK(c)
    BY <1>0, <1>2, <1>3 DEF TypeOK
  <2>4. pc' \in [Session -> {"idle", "open", "dml", "chain"}]
    BY <1>0 DEF Call, TypeOK
  <2>5. /\ chainLock' \in Session \union {NoSession} /\ closer' \in Session \union {NoSession}
        /\ approving' \in [Session -> SUBSET Pool]
    BY <1>0 DEF Call, TypeOK
  <2> QED
    BY <1>0, <1>1, <1>2, <2>1, <2>2, <2>3, <2>4, <2>5 DEF TypeOK, RowOK, ColumnOf, ChangeOK
<1>5. FlushInv'
  <2>1. Consistent(todo'[s])
    BY <1>3 DEF Consistent, ChangeOK
  <2>2. \A t \in Session : t # s /\ pc[t] = "idle" => closer' # t
    BY <1>0 DEF Call, FlushInv
  <2>3. pc'[s] = "idle" => pc[s] = "idle" /\ closer' # s /\ \A p \in Pool : rowLock[p] # s
    BY <1>0, <1>2 DEF Call, FlushInv
  <2> QED
    BY <1>0, <1>1, <1>2, <2>1, <2>2, <2>3 DEF FlushInv
<1>6. StoreInv'
  BY <1>0, <1>1 DEF StoreInv
<1>7. RateInv'
  <2>1. ASSUME NEW c \in todo'[s]
        PROVE  /\ c[2] = "rate" => c[3] # None
               /\ c[2] = "status" /\ c[3] \in {"approved", "locked"}
                     => Visible(s, c[1]).rate # None
    BY <2>1, <1>3 DEF InForce
  <2>2. ASSUME NEW p \in Pool, cache'[s][p] # NotLoaded, cache'[s][p].rate # None
        PROVE  Visible(s, p).rate # None \/ Sets(todo'[s], p, "rate")
    <3>1. ~Sets(todo[s], p, "rate")
      BY <1>1 DEF Sets
    <3>2. Loaded(s, p).rate # None => Visible(s, p).rate # None
      BY <1>0, <3>1 DEF Loaded, RateInv
    <3>3. CASE p \notin DOMAIN new
      BY <2>2, <3>3, <1>0, <1>2, <3>1 DEF RateInv
    <3>4. CASE p \in DOMAIN new /\ new[p].rate = Loaded(s, p).rate
      BY <2>2, <3>2, <3>4, <1>2
    <3>5. CASE p \in DOMAIN new /\ new[p].rate # Loaded(s, p).rate
      <4>1. <<p, "rate", new[p].rate>> \in Changes(s, new, always)
        BY <3>5 DEF Changes, Column
      <4> QED
        BY <4>1, <1>2 DEF Sets
    <3> QED
      BY <3>3, <3>4, <3>5
  <2>3. \A t \in Session : \A c \in todo'[t] :
          /\ c[2] = "rate" => c[3] # None
          /\ c[2] = "status" /\ c[3] \in {"approved", "locked"} => Visible(t, c[1]).rate # None
    BY <1>0, <1>2, <2>1 DEF RateInv
  <2>4. \A t \in Session, p \in Pool :
          cache'[t][p] # NotLoaded /\ cache'[t][p].rate # None
              => Visible(t, p).rate # None \/ Sets(todo'[t], p, "rate")
    BY <1>0, <1>2, <2>2 DEF RateInv
  <2>5. \A t \in Session : \A c \in todo'[t] : Visible(t, c[1])' = Visible(t, c[1])
    BY <1>1 DEF Visible
  <2> QED
    BY <1>0, <1>1, <2>3, <2>4, <2>5 DEF RateInv
<1>8. CloserInv'
  <2>1. \A c \in todo'[s] : c[2] = "status" /\ c[3] = "locked" => closer' = s
    BY <1>3
  <2>2. \A t \in Session : closer = t => closer' = t
    BY <1>0, SessionAssumption DEF Call
  <2>3. closer' # NoSession => ~yearClosed
    BY <1>0 DEF Call, CloserInv
  <2> QED
    BY <1>0, <1>1, <1>2, <2>1, <2>2, <2>3 DEF CloserInv
<1>9. TriggerInv'
  <2>1. \A t \in Session : \A n : approving'[t] \intersect Family(n) = {}
                              => approving[t] \intersect Family(n) = {}
    BY DEF Call
  <2>2. \A c \in todo'[s] : c[2] = "status" =>
              c[3] = "locked" \/ approving'[s] \intersect Family(Name[c[1]]) # {}
    BY <1>3
  <2> QED
    BY <1>0, <1>1, <1>2, <2>1, <2>2 DEF TriggerInv
<1> QED
  BY <1>4, <1>5, <1>6, <1>7, <1>8, <1>9 DEF BaseInv

\* derive_pool_base: upstream rates in force are rates of the upstream pools.
LEMMA DeriveCall ==
    ASSUME BaseInv, NEW s \in Session, NEW p \in Pool, DerivePoolBase(s, p)
    PROVE  \E new :
              /\ Call(s, new, {}) /\ DOMAIN new = {p}
              /\ \A k \in Column \ {"base"} : new[p][k] = Loaded(s, p)[k]
              /\ \A n \in Upstream(Name[p]) : new[p].base.rates[n] \in RatesInForce(s, n)
              /\ closer' = closer /\ approving' = approving
<1>0. TypeOK /\ RateInv
  BY DEF BaseInv
<1>1. PICK rates \in [Upstream(Name[p]) ->
                        UNION {RatesInForce(s, n) : n \in Upstream(Name[p])}] :
        /\ \A n \in Upstream(Name[p]) : rates[n] \in RatesInForce(s, n)
        /\ Flush(s, [q \in {p} |-> [Loaded(s, p) EXCEPT
                        !.base = [labor |-> ledger, rates |-> rates]]], {})
  BY DEF DerivePoolBase
<1> DEFINE base == [labor |-> ledger, rates |-> rates]
           new == [q \in {p} |-> [Loaded(s, p) EXCEPT !.base = base]]
<1>2. ASSUME NEW n, NEW rate \in RatesInForce(s, n) PROVE rate \in RateOf(n)
  <2>1. PICK q \in Family(n) : Visible(s, q).rate = rate /\ InForce(Visible(s, q))
    BY <1>2 DEF RatesInForce, InForce
  <2>2. q \in Pool /\ Name[q] = n
    BY <2>1 DEF Family
  <2>3. rate # None /\ RowOK(q, Visible(s, q))
    BY <1>0, <2>1, <2>2, VisibleRate, LoadedOK
  <2> QED
    BY <2>1, <2>2, <2>3 DEF RowOK, Column, ColumnOf
<1>3. rates \in UpstreamRates(Name[p])
  <2>1. RateOf("fringe") = FringeRate /\ RateOf("overhead") = OverheadRate
    BY DEF RateOf, UpstreamRates, FringeRate, OverheadRate
  <2>2. CASE Name[p] = "fringe"
    BY <2>2, <1>1 DEF Upstream, UpstreamRates
  <2>3. CASE Name[p] = "overhead"
    BY <2>1, <2>3, <1>1, <1>2 DEF Upstream, UpstreamRates
  <2>4. CASE Name[p] = "ga"
    BY <2>1, <2>4, <1>1, <1>2 DEF Upstream, UpstreamRates
  <2> QED
    BY <2>2, <2>3, <2>4, NameAssumption
<1>4. base \in BaseOf(Name[p])
  BY <1>0, <1>3 DEF BaseOf, TypeOK
<1> HIDE DEF base
<1>5. RowOK(p, Loaded(s, p))
  BY <1>0, LoadedOK
<1>6. /\ new[p].base = base /\ \A k \in Column \ {"base"} : new[p][k] = Loaded(s, p)[k]
      /\ DOMAIN new[p] = Column
  BY <1>5 DEF RowOK, Column
<1>7. RowOK(p, new[p])
  BY <1>4, <1>5, <1>6 DEF RowOK, Column, ColumnOf
<1>8. Flush(s, new, {})
  BY <1>1 DEF base
<1>9. base.rates = rates
  BY DEF base
<1>10. DOMAIN new = {p}
  OBVIOUS
<1> HIDE DEF new
<1>11. Call(s, new, {})
  BY <1>0, <1>7, <1>8, <1>10 DEF Call, Flush, DerivePoolBase, TypeOK
<1> QED
  BY <1>1, <1>6, <1>9, <1>10, <1>11 DEF DerivePoolBase

\* calculate_pool_rate: the row is not one the session takes for locked.
LEMMA CalculateCall ==
    ASSUME BaseInv, NEW s \in Session, NEW p \in Pool, CalculatePoolRate(s, p)
    PROVE  \E new :
              /\ Call(s, new, {"run"}) /\ DOMAIN new = {p}
              /\ \A k \in Column \ {"rate", "run"} : new[p][k] = Loaded(s, p)[k]
              /\ new[p].rate # None /\ new[p].run = new[p].rate
              /\ Loaded(s, p).status # "locked"
              /\ closer' = closer /\ approving' = approving
<1>0. TypeOK
  BY DEF BaseInv
<1> DEFINE row == Loaded(s, p)
           rate == Rate(ledger, row.base)
           new == [q \in {p} |-> CalculatedRow(row)]
<1>1. row.status # "locked" /\ row.base # None /\ Flush(s, new, {"run"})
  BY DEF CalculatePoolRate
<1>2. RowOK(p, row)
  BY <1>0, LoadedOK
<1>3. row.base \in BaseOf(Name[p])
  BY <1>1, <1>2 DEF RowOK, Column, ColumnOf
<1> HIDE DEF row
<1>4. rate \in RateOf(Name[p])
  BY <1>0, <1>3 DEF TypeOK, RateOf, RateOver, BaseOf, Rate
<1>5. rate # None
  BY <1>4, RateIsSet
<1>6. new[p] = [row EXCEPT !.rate = rate, !.run = rate]
  BY DEF CalculatedRow
<1> HIDE DEF rate
<1>7. /\ new[p].rate = rate /\ new[p].run = rate /\ DOMAIN new[p] = Column
      /\ \A k \in Column \ {"rate", "run"} : new[p][k] = row[k]
  BY <1>2, <1>6 DEF RowOK, Column
<1>8. RowOK(p, new[p])
  BY <1>2, <1>4, <1>7 DEF RowOK, Column, ColumnOf
<1>9. DOMAIN new = {p}
  OBVIOUS
<1> HIDE DEF new
<1>10. Call(s, new, {"run"})
  BY <1>0, <1>1, <1>8, <1>9 DEF Call, Flush, CalculatePoolRate, TypeOK
<1> QED
  BY <1>1, <1>5, <1>7, <1>9, <1>10 DEF CalculatePoolRate, row

\* approve_rate: the row and the approved revisions it supersedes.
LEMMA ApproveCall ==
    ASSUME BaseInv, NEW s \in Session, NEW p \in Pool, ApproveRate(s, p)
    PROVE  \E new :
              /\ Call(s, new, {}) /\ DOMAIN new = Prior(s, p) \union {p}
              /\ \A q \in DOMAIN new :
                    /\ \A k \in Column \ {"status", "superseded_by"} : new[q][k] = Loaded(s, q)[k]
                    /\ new[q].status = IF q = p THEN "approved" ELSE "superseded"
              /\ Loaded(s, p).rate # None
              /\ closer' = closer
              /\ approving' = [approving EXCEPT ![s] = @ \union {p}]
<1>0. TypeOK
  BY DEF BaseInv
<1> DEFINE new == Approval(s, p)
<1>1. Loaded(s, p).rate # None /\ Flush(s, new, {})
  BY DEF ApproveRate, HasRate
<1>2. DOMAIN new = Prior(s, p) \union {p} /\ DOMAIN new \subseteq Pool
  BY DEF Approval, Prior, Family
<1>3. ASSUME NEW q \in DOMAIN new
      PROVE  /\ RowOK(q, new[q])
             /\ \A k \in Column \ {"status", "superseded_by"} : new[q][k] = Loaded(s, q)[k]
             /\ new[q].status = IF q = p THEN "approved" ELSE "superseded"
  <2>1. RowOK(q, Loaded(s, q)) /\ q \in Pool
    BY <1>0, <1>2, <1>3, LoadedOK
  <2>2. CASE q = p
    <3>1. new[q] = [Loaded(s, p) EXCEPT !.status = "approved"]
      BY <2>2, <1>2 DEF Approval
    <3> HIDE DEF new
    <3>2. /\ DOMAIN new[q] = Column /\ new[q].status = "approved"
          /\ \A k \in Column \ {"status"} : new[q][k] = Loaded(s, q)[k]
      BY <2>1, <2>2, <3>1 DEF RowOK, Column
    <3> QED
      BY <2>1, <2>2, <3>2 DEF RowOK, Column, ColumnOf, Status
  <2>3. CASE q # p
    <3>1. new[q] = [Loaded(s, q) EXCEPT !.status = "superseded", !.superseded_by = p]
      BY <2>3, <1>2, <1>3 DEF Approval
    <3> HIDE DEF new
    <3>2. /\ DOMAIN new[q] = Column /\ new[q].status = "superseded"
          /\ new[q].superseded_by = p
          /\ \A k \in Column \ {"status", "superseded_by"} : new[q][k] = Loaded(s, q)[k]
      BY <2>1, <3>1 DEF RowOK, Column
    <3> QED
      BY <2>1, <2>3, <3>2 DEF RowOK, Column, ColumnOf, Status
  <2> QED
    BY <2>2, <2>3
<1> HIDE DEF new
<1>4. approving' = [approving EXCEPT ![s] = @ \union {p}] /\ closer' = closer
  BY DEF ApproveRate
<1>5. Call(s, new, {})
  BY ZenonT(60), <1>0, <1>1, <1>2, <1>3, <1>4 DEF Call, Flush, ApproveRate, TypeOK
<1> QED
  BY <1>1, <1>2, <1>3, <1>4, <1>5

\* _lock_fiscal_year_rates: the rows that are approved when it looks.
LEMMA LockCall ==
    ASSUME BaseInv, NEW s \in Session, LockFiscalYearRates(s)
    PROVE  \E new :
              /\ Call(s, new, {})
              /\ DOMAIN new = {p \in Pool : Visible(s, p).status = "approved"}
              /\ \A p \in DOMAIN new :
                    /\ \A k \in Column \ {"status"} : new[p][k] = Loaded(s, p)[k]
                    /\ new[p].status = "locked"
              /\ ~yearClosed /\ closer = NoSession /\ closer' = s /\ approving' = approving
<1>0. TypeOK
  BY DEF BaseInv
<1> DEFINE approved == {p \in Pool : Visible(s, p).status = "approved"}
           new == [p \in approved |-> [Loaded(s, p) EXCEPT !.status = "locked"]]
<1>1. ASSUME NEW p \in approved
      PROVE  /\ RowOK(p, new[p]) /\ new[p].status = "locked"
             /\ \A k \in Column \ {"status"} : new[p][k] = Loaded(s, p)[k]
  <2>1. RowOK(p, Loaded(s, p))
    BY <1>0, <1>1, LoadedOK
  <2>2. new[p] = [Loaded(s, p) EXCEPT !.status = "locked"]
    BY <1>1
  <2> HIDE DEF new
  <2>3. /\ DOMAIN new[p] = Column /\ new[p].status = "locked"
        /\ \A k \in Column \ {"status"} : new[p][k] = Loaded(s, p)[k]
    BY <2>1, <2>2 DEF RowOK, Column
  <2> QED
    BY <2>1, <2>3 DEF RowOK, Column, ColumnOf, Status
<1>2. /\ todo' = [todo EXCEPT ![s] = Changes(s, new, {})]
      /\ pc' = [pc EXCEPT ![s] = IF Changes(s, new, {}) = {} THEN "open" ELSE "dml"]
      /\ cache' = [cache EXCEPT ![s] = [p \in Pool |-> IF p \in approved THEN new[p]
                                                       ELSE cache[s][p]]]
  BY DEF LockFiscalYearRates
<1>3. DOMAIN new = approved
  OBVIOUS
<1> HIDE DEF new
<1>4. Call(s, new, {})
  <2>1. pc'[s] # "idle" /\ \E place \in {pc[s], "open", "dml"} :
          /\ pc' = [pc EXCEPT ![s] = place]
          /\ place # "dml" => Changes(s, new, {}) = {}
    BY <1>0, <1>2 DEF TypeOK
  <2> QED
    BY ZenonT(60), <1>0, <1>1, <1>2, <1>3, <2>1 DEF Call, LockFiscalYearRates, TypeOK
<1> QED
  BY <1>1, <1>3, <1>4 DEF LockFiscalYearRates

\* One UPDATE: what the trigger lets through.
LEMMA StatementFacts ==
    ASSUME TypeOK, NEW s \in Session, Statement(s)
    PROVE  \E p \in Pool : \E mine \in SUBSET todo[s] : \E new :
              /\ mine = {c \in todo[s] : c[1] = p} /\ mine # {} /\ DOMAIN new = Column
              /\ \A k \in Column : new[k] = IF \E c \in mine : c[2] = k
                                            THEN (CHOOSE c \in mine : c[2] = k)[3]
                                            ELSE store[p][k]
              /\ rowLock[p] \in {NoSession, s} /\ LockedFrozen(store[p], new)
              /\ rowLock' = [rowLock EXCEPT ![p] = s]
              /\ store' = [store EXCEPT ![p] = new]
              /\ todo' = [todo EXCEPT ![s] = @ \ mine]
              /\ pc' = [pc EXCEPT ![s] = IF todo[s] = mine THEN "chain" ELSE "dml"]
<1>1. PICK p \in {c[1] : c \in todo[s]} :
        LET mine == {c \in todo[s] : c[1] = p}
            new == [k \in Column |-> IF \E c \in mine : c[2] = k
                                     THEN (CHOOSE c \in mine : c[2] = k)[3]
                                     ELSE store[p][k]]
        IN  /\ rowLock[p] \in {NoSession, s} /\ LockedFrozen(store[p], new)
            /\ rowLock' = [rowLock EXCEPT ![p] = s]
            /\ store' = [store EXCEPT ![p] = new]
            /\ todo' = [todo EXCEPT ![s] = @ \ mine]
            /\ pc' = [pc EXCEPT ![s] = IF todo[s] = mine THEN "chain" ELSE "dml"]
  BY DEF Statement
<1> DEFINE mine == {c \in todo[s] : c[1] = p}
           new == [k \in Column |-> IF \E c \in mine : c[2] = k
                                    THEN (CHOOSE c \in mine : c[2] = k)[3]
                                    ELSE store[p][k]]
<1>2. p \in Pool
  BY <1>1 DEF TypeOK, ChangeOK
<1>3. /\ mine \in SUBSET todo[s] /\ mine # {} /\ DOMAIN new = Column
      /\ \A k \in Column : new[k] = IF \E c \in mine : c[2] = k
                                    THEN (CHOOSE c \in mine : c[2] = k)[3]
                                    ELSE store[p][k]
      /\ mine = {c \in todo[s] : c[1] = p}
  BY <1>1
<1>4. /\ rowLock[p] \in {NoSession, s} /\ LockedFrozen(store[p], new)
      /\ rowLock' = [rowLock EXCEPT ![p] = s]
      /\ store' = [store EXCEPT ![p] = new]
      /\ todo' = [todo EXCEPT ![s] = @ \ mine]
      /\ pc' = [pc EXCEPT ![s] = IF todo[s] = mine THEN "chain" ELSE "dml"]
  BY <1>1
<1> HIDE DEF mine, new
<1>5. \E each \in SUBSET todo[s] : \E row :
        /\ each = {c \in todo[s] : c[1] = p} /\ each # {} /\ DOMAIN row = Column
        /\ \A k \in Column : row[k] = IF \E c \in each : c[2] = k
                                      THEN (CHOOSE c \in each : c[2] = k)[3]
                                      ELSE store[p][k]
        /\ rowLock[p] \in {NoSession, s} /\ LockedFrozen(store[p], row)
        /\ rowLock' = [rowLock EXCEPT ![p] = s]
        /\ store' = [store EXCEPT ![p] = row]
        /\ todo' = [todo EXCEPT ![s] = @ \ each]
        /\ pc' = [pc EXCEPT ![s] = IF todo[s] = each THEN "chain" ELSE "dml"]
  <2> WITNESS mine \in SUBSET todo[s]
  <2> WITNESS new
  <2> QED
    BY <1>3, <1>4
<1> QED
  BY <1>2, <1>5

\* A statement of a flush keeps the invariant.
LEMMA StatementBase ==
    ASSUME BaseInv, NEW s \in Session, Statement(s)
    PROVE  BaseInv'
<1>0. TypeOK /\ FlushInv /\ StoreInv /\ RateInv /\ CloserInv /\ TriggerInv
  BY DEF BaseInv
<1>a. PICK p \in Pool, mine \in SUBSET todo[s] : \E new :
        /\ mine = {c \in todo[s] : c[1] = p} /\ mine # {} /\ DOMAIN new = Column
        /\ \A k \in Column : new[k] = IF \E c \in mine : c[2] = k
                                      THEN (CHOOSE c \in mine : c[2] = k)[3]
                                      ELSE store[p][k]
        /\ rowLock[p] \in {NoSession, s} /\ LockedFrozen(store[p], new)
        /\ rowLock' = [rowLock EXCEPT ![p] = s]
        /\ store' = [store EXCEPT ![p] = new]
        /\ todo' = [todo EXCEPT ![s] = @ \ mine]
        /\ pc' = [pc EXCEPT ![s] = IF todo[s] = mine THEN "chain" ELSE "dml"]
  BY <1>0, StatementFacts
<1>1. PICK new :
        /\ mine = {c \in todo[s] : c[1] = p} /\ mine # {} /\ DOMAIN new = Column
        /\ \A k \in Column : new[k] = IF \E c \in mine : c[2] = k
                                      THEN (CHOOSE c \in mine : c[2] = k)[3]
                                      ELSE store[p][k]
        /\ rowLock[p] \in {NoSession, s} /\ LockedFrozen(store[p], new)
        /\ rowLock' = [rowLock EXCEPT ![p] = s]
        /\ store' = [store EXCEPT ![p] = new]
        /\ todo' = [todo EXCEPT ![s] = @ \ mine]
        /\ pc' = [pc EXCEPT ![s] = IF todo[s] = mine THEN "chain" ELSE "dml"]
  BY <1>a
<1>2. /\ pc[s] = "dml" /\ UNCHANGED <<backend, ledger, db, cache, approving, closer, yearClosed>>
      /\ chainLock' \in {chainLock, s}
  BY DEF Statement
<1>3. /\ rowLock'[p] = s /\ store'[p] = new /\ todo'[s] = todo[s] \ mine
      /\ pc'[s] = IF todo[s] = mine THEN "chain" ELSE "dml"
      /\ \A q \in Pool \ {p} : rowLock'[q] = rowLock[q] /\ store'[q] = store[q]
      /\ \A t \in Session \ {s} : todo'[t] = todo[t] /\ pc'[t] = pc[t]
      /\ DOMAIN store' = Pool /\ DOMAIN todo' = Session
  BY <1>0, <1>1 DEF TypeOK
<1>4. ASSUME NEW k \in Column
      PROVE  \/ new[k] = store[p][k] /\ ~Sets(todo[s], p, k)
             \/ \E c \in todo[s] : c[1] = p /\ c[2] = k /\ new[k] = c[3]
  BY <1>1 DEF Sets
<1>5. Visible(s, p) = store[p] /\ Visible(s, p)' = new
  BY <1>0, <1>1, <1>3 DEF Visible, StoreInv
<1>6. \A t \in Session, q \in Pool : t # s \/ q # p => Visible(t, q)' = Visible(t, q)
  BY <1>1, <1>2, <1>3, SessionAssumption DEF Visible
<1>7. TypeOK'
  <2>1. RowOK(p, new)
    BY <1>0, <1>1, <1>4 DEF TypeOK, RowOK, ChangeOK
  <2>2. \A q \in Pool : RowOK(q, store'[q])
    BY <1>0, <1>3, <2>1 DEF TypeOK
  <2>3. \A t \in Session : \A c \in todo'[t] : ChangeOK(c)
    BY <1>0, <1>3 DEF TypeOK
  <2>4. rowLock' \in [Pool -> Session \union {NoSession}]
        /\ pc' \in [Session -> {"idle", "open", "dml", "chain"}]
        /\ chainLock' \in Session \union {NoSession}
    BY <1>0, <1>1, <1>2 DEF TypeOK
  <2> QED
    BY <1>0, <1>2, <1>3, <2>2, <2>3, <2>4 DEF TypeOK, RowOK, ChangeOK, ColumnOf
<1>8. FlushInv'
  <2>1. Consistent(todo'[s])
    BY <1>0, <1>3 DEF FlushInv, Consistent
  <2>2. pc'[s] # "idle" /\ (pc'[s] # "dml" => todo'[s] = {})
    BY <1>3
  <2>3. \A t \in Session \ {s} : pc[t] = "idle" =>
          closer' # t /\ \A q \in Pool : rowLock'[q] # t
    BY <1>0, <1>2, <1>3 DEF FlushInv
  <2> QED
    BY SMTT(30), <1>0, <1>3, <2>1, <2>2, <2>3 DEF FlushInv
<1>9. StoreInv'
  BY <1>0, <1>2, <1>3, SessionAssumption DEF StoreInv
<1>10. RateInv'
  <2>1. new.rate # None \/ new.rate = store[p].rate
    BY <1>0, <1>4 DEF RateInv, Column
  <2>2. InForce(new) => new.rate # None
    <3> SUFFICES ASSUME InForce(new) PROVE new.rate # None
      OBVIOUS
    <3>1. CASE new.status = store[p].status
      BY <2>1, <3>1, <1>0 DEF RateInv, InForce
    <3>2. CASE new.status # store[p].status
      <4>1. PICK c \in todo[s] : c[1] = p /\ c[2] = "status" /\ new.status = c[3]
        BY <3>2, <1>4 DEF Column
      <4>2. Visible(s, p).rate # None
        BY <4>1, <1>0 DEF RateInv, InForce
      <4> QED
        BY <4>2, <2>1, <1>5
    <3> QED
      BY <3>1, <3>2
  <2>3. store[p].rate # None => new.rate # None
    BY <2>1
  <2>4. \A q \in Pool : /\ InForce(store'[q]) => store'[q].rate # None
                        /\ db[q].rate # None => store'[q].rate # None
    BY <1>0, <1>3, <2>2, <2>3 DEF RateInv
  <2>5. \A t \in Session, q \in Pool : Visible(t, q).rate # None => Visible(t, q)'.rate # None
    BY <1>5, <1>6, <2>3
  <2>6. \A t \in Session : \A c \in todo'[t] :
          /\ c \in todo[t] /\ c[1] \in Pool
          /\ c[2] = "rate" => c[3] # None
          /\ c[2] = "status" /\ c[3] \in {"approved", "locked"} => Visible(t, c[1])'.rate # None
    BY <1>0, <1>3, <2>5 DEF RateInv, TypeOK, ChangeOK
  <2>7. ASSUME NEW t \in Session, NEW q \in Pool, cache[t][q] # NotLoaded, cache[t][q].rate # None
        PROVE  Visible(t, q)'.rate # None \/ Sets(todo'[t], q, "rate")
    <3>1. CASE Visible(t, q).rate # None
      BY <3>1, <2>5
    <3>2. CASE Sets(todo[t], q, "rate") /\ (t # s \/ q # p)
      BY <3>2, <1>1, <1>3 DEF Sets
    <3>3. CASE Sets(todo[s], p, "rate") /\ t = s /\ q = p
      BY <3>3, <1>0, <1>4, <1>5 DEF RateInv, Column
    <3> QED
      BY <2>7, <3>1, <3>2, <3>3, <1>0 DEF RateInv
  <2> QED
    BY <1>0, <1>2, <2>4, <2>6, <2>7 DEF RateInv
<1>11. CloserInv'
  <2>1. new.status = "locked" => db[p].status = "locked" \/ closer = s
    <3>1. CASE new.status = store[p].status
      BY <3>1, <1>0, <1>1 DEF CloserInv, StoreInv
    <3>2. CASE new.status # store[p].status
      BY <3>2, <1>0, <1>4 DEF CloserInv, Column
    <3> QED
      BY <3>1, <3>2
  <2>2. \A t \in Session, q \in Pool :
          rowLock'[q] = t /\ store'[q].status = "locked" => db[q].status = "locked" \/ closer = t
    BY <1>0, <1>3, <2>1 DEF CloserInv
  <2>3. \A t \in Session : \A c \in todo'[t] : c \in todo[t]
    BY <1>3
  <2> QED
    BY <1>0, <1>2, <2>2, <2>3 DEF CloserInv
<1>12. TriggerInv'
  <2>1. ASSUME db[p].status = "locked", approving[s] \intersect Family(Name[p]) = {}
        PROVE  new.status = "locked" /\ new.rate = db[p].rate
    <3>1. store[p].status = "locked" /\ store[p].rate = db[p].rate
      BY <2>1, <1>0, <1>1 DEF TriggerInv, StoreInv
    <3>2. new.status = "locked"
      BY <3>1, <2>1, <1>0, <1>4 DEF TriggerInv, Column
    <3> QED
      BY <3>1, <3>2, <1>1 DEF LockedFrozen
  <2>2. \A t \in Session, q \in Pool :
          /\ rowLock'[q] = t /\ db[q].status = "locked"
          /\ approving[t] \intersect Family(Name[q]) = {}
          => store'[q].status = "locked" /\ store'[q].rate = db[q].rate
    BY <1>0, <1>3, <2>1 DEF TriggerInv
  <2>3. \A t \in Session : \A c \in todo'[t] : c \in todo[t]
    BY <1>3
  <2> QED
    BY <1>0, <1>2, <2>2, <2>3 DEF TriggerInv
<1> QED
  BY <1>7, <1>8, <1>9, <1>10, <1>11, <1>12 DEF BaseInv

\* The end of a transaction, by commit or rollback.
LEMMA ReleaseFacts ==
    ASSUME TypeOK, NEW s \in Session, Release(s)
    PROVE  /\ \A p \in Pool : rowLock'[p] = IF rowLock[p] = s THEN NoSession ELSE rowLock[p]
           /\ rowLock' \in [Pool -> Session \union {NoSession}]
           /\ chainLock' \in Session \union {NoSession}
           /\ closer' = IF closer = s THEN NoSession ELSE closer
           /\ pc' \in [Session -> {"idle", "open", "dml", "chain"}]
           /\ DOMAIN todo' = Session /\ approving' \in [Session -> SUBSET Pool]
           /\ pc'[s] = "idle" /\ todo'[s] = {} /\ approving'[s] = {}
           /\ \A t \in Session \ {s} : /\ pc'[t] = pc[t] /\ todo'[t] = todo[t]
                                       /\ approving'[t] = approving[t]
  BY DEF TypeOK, Release

\* The end of a transaction leaves the flushes of the others.
LEMMA ReleaseFlush ==
    ASSUME TypeOK, FlushInv, NEW s \in Session, Release(s)
    PROVE  FlushInv'
  BY ReleaseFacts, SessionAssumption DEF FlushInv, Consistent

\* A commit keeps the invariant.
LEMMA CommitBase ==
    ASSUME BaseInv, NEW s \in Session, Commit(s)
    PROVE  BaseInv'
<1>0. TypeOK /\ FlushInv /\ StoreInv /\ RateInv /\ CloserInv /\ TriggerInv
  BY DEF BaseInv
<1>1. /\ \A p \in Pool : db'[p] = Visible(s, p)
      /\ DOMAIN db' = Pool /\ yearClosed' = (yearClosed \/ s = closer)
      /\ Release(s) /\ UNCHANGED <<backend, ledger, store, cache>>
  BY DEF Commit
<1>2. /\ \A p \in Pool : rowLock'[p] = IF rowLock[p] = s THEN NoSession ELSE rowLock[p]
      /\ rowLock' \in [Pool -> Session \union {NoSession}]
      /\ chainLock' \in Session \union {NoSession}
      /\ closer' = IF closer = s THEN NoSession ELSE closer
      /\ pc' \in [Session -> {"idle", "open", "dml", "chain"}]
      /\ DOMAIN todo' = Session /\ approving' \in [Session -> SUBSET Pool]
      /\ pc'[s] = "idle" /\ todo'[s] = {} /\ approving'[s] = {}
      /\ \A t \in Session \ {s} : /\ pc'[t] = pc[t] /\ todo'[t] = todo[t]
                                  /\ approving'[t] = approving[t]
  BY <1>0, <1>1, ReleaseFacts
<1>3. \A p \in Pool : /\ rowLock[p] = s => db'[p] = store[p]
                      /\ rowLock[p] # s => db'[p] = db[p]
  BY <1>1 DEF Visible
<1>4. TypeOK'
  <2>1. \A p \in Pool : RowOK(p, db'[p]) /\ RowOK(p, store[p])
    BY <1>0, <1>1, LoadedOK DEF TypeOK
  <2>2. \A t \in Session : \A c \in todo'[t] : ChangeOK(c)
    BY <1>0, <1>2 DEF TypeOK
  <2> QED
    BY <1>0, <1>1, <1>2, <2>1, <2>2 DEF TypeOK, RowOK, ChangeOK, ColumnOf
<1>5. FlushInv'
  BY <1>0, <1>1, ReleaseFlush
<1>6. StoreInv'
  BY <1>0, <1>1, <1>2, <1>3 DEF StoreInv
<1>7. RateInv'
  <2>1. \A p \in Pool : /\ InForce(db'[p]) => db'[p].rate # None
                        /\ InForce(store[p]) => store[p].rate # None
                        /\ db'[p].rate # None => store[p].rate # None
    BY <1>0, <1>3 DEF RateInv
  <2>2. \A t \in Session, p \in Pool : Visible(t, p).rate # None => Visible(t, p)'.rate # None
    <3> SUFFICES ASSUME NEW t \in Session, NEW p \in Pool, Visible(t, p).rate # None
                 PROVE  Visible(t, p)'.rate # None
      OBVIOUS
    <3>1. CASE t = s
      BY <3>1, <1>1, <1>2, SessionAssumption DEF Visible
    <3>2. CASE t # s /\ rowLock[p] = t
      BY <3>2, <1>1, <1>2 DEF Visible
    <3>3. CASE t # s /\ rowLock[p] # t
      <4>1. db[p].rate # None /\ rowLock'[p] # t
        BY <3>3, <1>2, SessionAssumption DEF Visible
      <4> QED
        BY <4>1, <1>0, <1>3 DEF Visible, RateInv
    <3> QED
      BY <3>1, <3>2, <3>3
  <2>3. \A t \in Session : \A c \in todo'[t] :
          /\ c[2] = "rate" => c[3] # None
          /\ c[2] = "status" /\ c[3] \in {"approved", "locked"} => Visible(t, c[1])'.rate # None
    BY <1>0, <1>2, <2>2 DEF RateInv, TypeOK, ChangeOK
  <2>4. \A t \in Session, p \in Pool :
          cache[t][p] # NotLoaded /\ cache[t][p].rate # None
              => Visible(t, p)'.rate # None \/ Sets(todo'[t], p, "rate")
    <3>1. \A p \in Pool : ~Sets(todo[s], p, "rate")
      BY <1>0 DEF FlushInv, Commit, Sets
    <3> QED
      BY <1>0, <1>2, <2>2, <3>1 DEF RateInv
  <2> QED
    BY <1>1, <2>1, <2>3, <2>4 DEF RateInv
<1>8. CloserInv'
  <2>1. \A p \in Pool : db'[p].status = "locked" => yearClosed'
    BY <1>0, <1>1, <1>3 DEF CloserInv
  <2>2. closer' # NoSession => ~yearClosed'
    BY <1>0, <1>1, <1>2 DEF CloserInv
  <2>3. \A t \in Session : \A c \in todo'[t] : c[2] = "status" /\ c[3] = "locked" => closer' = t
    BY <1>0, <1>2 DEF CloserInv
  <2>4. \A t \in Session, p \in Pool :
          rowLock'[p] = t /\ store[p].status = "locked" => db'[p].status = "locked" \/ closer' = t
    BY <1>0, <1>2, <1>3, SessionAssumption DEF CloserInv
  <2> QED
    BY <1>1, <2>1, <2>2, <2>3, <2>4 DEF CloserInv
<1>9. TriggerInv'
  <2>1. \A t \in Session, p \in Pool : rowLock'[p] = t => t # s /\ rowLock[p] = t /\ db'[p] = db[p]
    BY <1>2, <1>3, SessionAssumption
  <2> QED
    BY <1>0, <1>1, <1>2, <2>1 DEF TriggerInv
<1> QED
  BY <1>4, <1>5, <1>6, <1>7, <1>8, <1>9 DEF BaseInv

\* A rollback keeps the invariant.
LEMMA RollbackBase ==
    ASSUME BaseInv, NEW s \in Session, Rollback(s)
    PROVE  BaseInv'
<1>0. TypeOK /\ FlushInv /\ StoreInv /\ RateInv /\ CloserInv /\ TriggerInv
  BY DEF BaseInv
<1>1. /\ \A p \in Pool : store'[p] = IF rowLock[p] = s THEN db[p] ELSE store[p]
      /\ DOMAIN store' = Pool
      /\ cache' = [cache EXCEPT ![s] = [p \in Pool |-> NotLoaded]]
      /\ Release(s) /\ UNCHANGED <<backend, ledger, db, yearClosed>>
  BY DEF Rollback
<1>2. /\ \A p \in Pool : rowLock'[p] = IF rowLock[p] = s THEN NoSession ELSE rowLock[p]
      /\ rowLock' \in [Pool -> Session \union {NoSession}]
      /\ chainLock' \in Session \union {NoSession}
      /\ closer' = IF closer = s THEN NoSession ELSE closer
      /\ pc' \in [Session -> {"idle", "open", "dml", "chain"}]
      /\ DOMAIN todo' = Session /\ approving' \in [Session -> SUBSET Pool]
      /\ pc'[s] = "idle" /\ todo'[s] = {} /\ approving'[s] = {}
      /\ \A t \in Session \ {s} : /\ pc'[t] = pc[t] /\ todo'[t] = todo[t]
                                  /\ approving'[t] = approving[t]
  BY <1>0, <1>1, ReleaseFacts
<1>3. /\ DOMAIN cache' = Session /\ \A p \in Pool : cache'[s][p] = NotLoaded
      /\ DOMAIN cache'[s] = Pool /\ \A t \in Session \ {s} : cache'[t] = cache[t]
  BY <1>0, <1>1 DEF TypeOK
<1>4. \A t \in Session, p \in Pool : t # s => Visible(t, p)' = Visible(t, p)
  BY <1>1, <1>2, SessionAssumption DEF Visible
<1>5. TypeOK'
  <2>1. \A p \in Pool : RowOK(p, db[p]) /\ RowOK(p, store'[p])
    BY <1>0, <1>1 DEF TypeOK
  <2>2. \A t \in Session : \A c \in todo'[t] : ChangeOK(c)
    BY <1>0, <1>2 DEF TypeOK
  <2>3. \A t \in Session : /\ DOMAIN cache'[t] = Pool
                           /\ \A p \in Pool : cache'[t][p] # NotLoaded => RowOK(p, cache'[t][p])
    BY <1>0, <1>3 DEF TypeOK
  <2> QED
    BY <1>0, <1>1, <1>2, <1>3, <2>1, <2>2, <2>3 DEF TypeOK, RowOK, ChangeOK, ColumnOf
<1>6. FlushInv'
  BY <1>0, <1>1, ReleaseFlush
<1>7. StoreInv'
  BY <1>0, <1>1, <1>2 DEF StoreInv
<1>8. RateInv'
  <2>1. \A p \in Pool : /\ InForce(store'[p]) => store'[p].rate # None
                        /\ db[p].rate # None => store'[p].rate # None
    BY <1>0, <1>1 DEF RateInv
  <2>2. \A t \in Session : \A c \in todo'[t] : t # s /\ c \in todo[t] /\ c[1] \in Pool
    BY <1>0, <1>2 DEF TypeOK, ChangeOK
  <2>3. \A t \in Session : \A c \in todo'[t] :
          /\ c[2] = "rate" => c[3] # None
          /\ c[2] = "status" /\ c[3] \in {"approved", "locked"} => Visible(t, c[1])'.rate # None
    BY <1>0, <1>4, <2>2 DEF RateInv
  <2>4. \A t \in Session, p \in Pool :
          cache'[t][p] # NotLoaded /\ cache'[t][p].rate # None
              => Visible(t, p)'.rate # None \/ Sets(todo'[t], p, "rate")
    BY <1>0, <1>2, <1>3, <1>4 DEF RateInv
  <2> QED
    BY <1>0, <1>1, <2>1, <2>3, <2>4 DEF RateInv
<1>9. CloserInv'
  <2>1. \A t \in Session : \A c \in todo'[t] : c[2] = "status" /\ c[3] = "locked" => closer' = t
    BY <1>0, <1>2 DEF CloserInv
  <2>2. \A t \in Session, p \in Pool :
          rowLock'[p] = t /\ store'[p].status = "locked" => db[p].status = "locked" \/ closer' = t
    BY <1>0, <1>1, <1>2, SessionAssumption DEF CloserInv
  <2> QED
    BY <1>0, <1>1, <1>2, <2>1, <2>2 DEF CloserInv
<1>10. TriggerInv'
  <2>1. \A t \in Session, p \in Pool :
          rowLock'[p] = t => t # s /\ rowLock[p] = t /\ store'[p] = store[p]
    BY <1>1, <1>2, SessionAssumption
  <2> QED
    BY <1>0, <1>1, <1>2, <2>1 DEF TriggerInv
<1> QED
  BY <1>5, <1>6, <1>7, <1>8, <1>9, <1>10 DEF BaseInv

\* A step that changes neither rows nor changes to come.
LEMMA QuietBase ==
    ASSUME BaseInv,
           UNCHANGED <<backend, db, store, rowLock, todo, approving, closer, yearClosed>>,
           ledger' \in Version, chainLock' \in Session \union {NoSession},
           pc' \in [Session -> {"idle", "open", "dml", "chain"}],
           \A s \in Session : pc'[s] # "dml" <=> pc[s] # "dml",
           \A s \in Session : pc'[s] = "idle" => pc[s] = "idle",
           DOMAIN cache' = Session,
           \A s \in Session : /\ DOMAIN cache'[s] = Pool
                              /\ \A p \in Pool : cache'[s][p] \in {NotLoaded, cache[s][p], Visible(s, p)}
    PROVE  BaseInv'
<1>0. TypeOK /\ FlushInv /\ StoreInv /\ RateInv /\ CloserInv /\ TriggerInv
  BY DEF BaseInv
<1>1. \A s \in Session, p \in Pool : Visible(s, p)' = Visible(s, p)
  BY DEF Visible
<1>2. \A s \in Session, p \in Pool : cache'[s][p] # NotLoaded =>
        /\ RowOK(p, cache'[s][p])
        /\ cache'[s][p].rate # None => Visible(s, p).rate # None \/ Sets(todo[s], p, "rate")
  BY <1>0, LoadedOK DEF TypeOK, RateInv
<1>3. TypeOK'
  BY <1>0, <1>2 DEF TypeOK, RowOK, ChangeOK, ColumnOf
<1>4. RateInv'
  <2>1. \A s \in Session : \A c \in todo[s] : Visible(s, c[1])' = Visible(s, c[1])
    BY DEF Visible
  <2> QED
    BY <1>0, <1>1, <1>2, <2>1 DEF RateInv
<1>5. FlushInv' /\ StoreInv' /\ CloserInv' /\ TriggerInv'
  BY <1>0 DEF FlushInv, StoreInv, CloserInv, TriggerInv
<1> QED
  BY <1>3, <1>4, <1>5 DEF BaseInv

\* Every step keeps the invariant.
LEMMA BaseStep == BaseInv /\ [Next]_vars => BaseInv'
<1> SUFFICES ASSUME BaseInv, [Next]_vars PROVE BaseInv'
  OBVIOUS
<1>0. TypeOK /\ RateInv
  BY DEF BaseInv
<1>1. CASE PostCost
  <2>1. ledger' \in Version
    BY <1>1 DEF PostCost
  <2> QED
    BY <1>0, <1>1, <2>1, QuietBase DEF PostCost, TypeOK
<1>2. ASSUME NEW s \in Session, NEW p \in Pool, Load(s, p) PROVE BaseInv'
  BY <1>0, <1>2, QuietBase DEF Load, TypeOK
<1>3. ASSUME NEW s \in Session, EndSession(s) PROVE BaseInv'
  BY <1>0, <1>3, QuietBase DEF EndSession, TypeOK
<1>4. ASSUME NEW s \in Session, NEW p \in Pool, DerivePoolBase(s, p) PROVE BaseInv'
  <2>1. PICK new : /\ Call(s, new, {}) /\ DOMAIN new = {p} /\ closer' = closer
                   /\ \A k \in Column \ {"base"} : new[p][k] = Loaded(s, p)[k]
    BY <1>4, DeriveCall
  <2> QED
    BY <2>1, CallBase DEF Column
<1>5. ASSUME NEW s \in Session, NEW p \in Pool, CalculatePoolRate(s, p) PROVE BaseInv'
  <2>1. PICK new : /\ Call(s, new, {"run"}) /\ DOMAIN new = {p} /\ closer' = closer
                   /\ \A k \in Column \ {"rate", "run"} : new[p][k] = Loaded(s, p)[k]
                   /\ new[p].rate # None
    BY <1>5, CalculateCall
  <2> QED
    BY <2>1, CallBase DEF Column
<1>6. ASSUME NEW s \in Session, NEW p \in Pool, ApproveRate(s, p) PROVE BaseInv'
  <2>1. PICK new :
              /\ Call(s, new, {}) /\ DOMAIN new = Prior(s, p) \union {p}
              /\ \A q \in DOMAIN new :
                    /\ \A k \in Column \ {"status", "superseded_by"} : new[q][k] = Loaded(s, q)[k]
                    /\ new[q].status = IF q = p THEN "approved" ELSE "superseded"
              /\ Loaded(s, p).rate # None
              /\ closer' = closer
              /\ approving' = [approving EXCEPT ![s] = @ \union {p}]
    BY <1>6, ApproveCall
  <2>2. Visible(s, p).rate # None
    <3>1. todo[s] = {}
      BY <1>6 DEF BaseInv, FlushInv, ApproveRate, Ready
    <3> QED
      BY <2>1, <3>1, <1>0 DEF Loaded, RateInv, Sets
  <2>3. p \in approving'[s]
    BY <2>1, <1>0 DEF TypeOK
  <2>4. \A q \in DOMAIN new : p \in Family(Name[q])
    BY <2>1 DEF Prior, Family
  <2>5. \A q \in DOMAIN new :
              /\ new[q].rate = Loaded(s, q).rate \/ new[q].rate # None
              /\ new[q].status # Loaded(s, q).status =>
                    /\ InForce(new[q]) => Visible(s, q).rate # None
                    /\ new[q].status = "locked" => closer' = s
                    /\ new[q].status = "locked" \/ approving'[s] \intersect Family(Name[q]) # {}
    BY <2>1, <2>2, <2>3, <2>4 DEF Column, InForce
  <2> QED
    BY <2>1, <2>5, CallBase
<1>7. ASSUME NEW s \in Session, LockFiscalYearRates(s) PROVE BaseInv'
  <2>1. PICK new :
              /\ Call(s, new, {})
              /\ DOMAIN new = {p \in Pool : Visible(s, p).status = "approved"}
              /\ \A p \in DOMAIN new :
                    /\ \A k \in Column \ {"status"} : new[p][k] = Loaded(s, p)[k]
                    /\ new[p].status = "locked"
              /\ closer' = s
    BY <1>7, LockCall
  <2>2. \A p \in DOMAIN new : Visible(s, p).rate # None
    BY <2>1, <1>0, VisibleRate DEF InForce
  <2>3. \A p \in DOMAIN new :
              /\ new[p].rate = Loaded(s, p).rate \/ new[p].rate # None
              /\ new[p].status # Loaded(s, p).status =>
                    /\ InForce(new[p]) => Visible(s, p).rate # None
                    /\ new[p].status = "locked" => closer' = s
                    /\ new[p].status = "locked" \/ approving'[s] \intersect Family(Name[p]) # {}
    BY <2>1, <2>2 DEF Column
  <2> QED
    BY <2>1, <2>3, CallBase
<1>8. ASSUME NEW s \in Session, Statement(s) PROVE BaseInv'
  BY <1>8, StatementBase
<1>9. ASSUME NEW s \in Session, TakeChain(s) PROVE BaseInv'
  BY <1>0, <1>9, QuietBase DEF TakeChain, TypeOK
<1>10. ASSUME NEW s \in Session, Commit(s) PROVE BaseInv'
  BY <1>10, CommitBase
<1>11. ASSUME NEW s \in Session, Rollback(s) PROVE BaseInv'
  BY <1>11, RollbackBase
<1>12. CASE UNCHANGED vars
  BY <1>0, <1>12, QuietBase DEF vars, TypeOK
<1> QED
  BY <1>1, <1>2, <1>3, <1>4, <1>5, <1>6, <1>7, <1>8, <1>9, <1>10, <1>11, <1>12 DEF Next

-----------------------------------------------------------------------------
(* Theorems *)

\* The invariant holds of every reachable state: what sessions hold, see and
\* are about to write fits together, whatever stale copies they work with.
THEOREM RatesInductive == Spec => []BaseInv
  BY BaseInit, BaseStep, PTL DEF Spec

\* A base is never derived from a revision that has no rate, or from another
\* pool's rate: the rates in force that derive_pool_base finds are rates.
THEOREM RateTypes == Spec => []TypeOK
<1>1. BaseInv => TypeOK
  BY DEF BaseInv
<1> QED
  BY <1>1, RatesInductive, PTL

\* A locked row's rate is changed only by a transaction that first approved a
\* revision of the pool: the trigger catches every other, however stale the
\* copies it works with.
THEOREM LockedRatesStay == Spec => LockedRateStays
<1> DEFINE Kept == \A p \in Pool : db[p].status = "locked" /\ db'[p].rate # db[p].rate
                      => \E s \in Session : approving[s] \intersect Family(Name[p]) # {}
<1>1. BaseInv /\ [Next]_vars => [Kept]_vars
  <2> SUFFICES ASSUME BaseInv, Next, NEW p \in Pool,
                      db[p].status = "locked", db'[p].rate # db[p].rate
               PROVE  \E s \in Session : approving[s] \intersect Family(Name[p]) # {}
    OBVIOUS
  <2>1. PICK s \in Session : Commit(s)
    BY DEF Next, PostCost, Load, EndSession, DerivePoolBase, CalculatePoolRate, ApproveRate,
           LockFiscalYearRates, Statement, TakeChain, Rollback
  <2>2. db'[p] = Visible(s, p)
    BY <2>1 DEF Commit
  <2>3. rowLock[p] = s /\ store[p].rate # db[p].rate
    BY <2>2 DEF Visible
  <2> QED
    BY <2>3 DEF BaseInv, TriggerInv
<1> QED
  BY <1>1, RatesInductive, PTL DEF Spec, LockedRateStays

-----------------------------------------------------------------------------
(* One session at a time.  The argument looks at what a session plans: the row
   as its transaction will leave it, that is the row it sees with the changes of
   the running flush on top.  A statement of a flush then changes nothing, a call
   changes the rows it names, and a commit makes the plan the data. *)

Overlay(changes, p, row) ==
    [k \in Column |-> IF Sets(changes, p, k)
                      THEN (CHOOSE c \in changes : c[1] = p /\ c[2] = k)[3]
                      ELSE row[k]]
Planned(s, p) == Overlay(todo[s], p, Visible(s, p))

\* The session's transaction has changed the row, or is about to.
Active(s, p) == rowLock[p] = s \/ \E c \in todo[s] : c[1] = p

\* Of a name that was not raced, one session at a time changes rows.
AloneInv ==
    \A s, t \in Session, p, q \in Pool :
        Name[p] = Name[q] /\ Name[p] \notin raced /\ Active(s, p) /\ Active(t, q) => s = t

\* The revisions of a name that was not raced, and the plans for them: the
\* stamped run explains the rate, at most one revision is approved and one
\* locked, some revision stays in force, and a locked rate is kept.
RunInv ==
    \A p \in Pool : Name[p] \notin raced =>
        /\ db[p].rate = db[p].run
        /\ \A s \in Session : Planned(s, p).rate = Planned(s, p).run
SingleInv ==
    \A p, q \in Pool : Name[p] = Name[q] /\ Name[p] \notin raced /\ p # q =>
        /\ InForce(db[p]) => db[p].status # db[q].status
        /\ \A s \in Session :
              InForce(Planned(s, p)) => Planned(s, p).status # Planned(s, q).status
ForceInv ==
    \A s \in Session, p \in Pool : Name[p] \notin raced /\ InForce(db[p]) =>
        \E q \in Family(Name[p]) : InForce(Planned(s, q))
KeptInv ==
    \A s \in Session, p \in Pool : Name[p] \notin raced /\ db[p].status = "locked" =>
        /\ Planned(s, p).status = "locked" => Planned(s, p).rate = db[p].rate
        /\ p \notin approving[s] => Planned(s, p).status = "locked"

\* A base about to be committed was derived from the rates that are locked by
\* now, and nobody is about to lock another one.
SettledInv ==
    \A s \in Session, p \in Pool :
        Planned(s, p).base # db[p].base /\ ({Name[p]} \union Upstream(Name[p])) \intersect raced = {}
        => \A q \in Pool : Name[q] \in Upstream(Name[p]) =>
              /\ db[q].status = "locked" /\ q \notin approving[s]
                    => Planned(s, p).base.rates[Name[q]] = db[q].rate
              /\ \A t \in Session \ {s} : closer = t => Planned(t, q).status # "locked"

PlanInv == AloneInv /\ RunInv /\ SingleInv /\ ForceInv /\ KeptInv /\ SettledInv

-----------------------------------------------------------------------------
(* Rows with changes on top *)

\* Changes of other rows leave a row.
LEMMA OverlayNone ==
    ASSUME NEW changes, NEW p, NEW row, \A c \in changes : c[1] # p
    PROVE  \A k \in Column : Overlay(changes, p, row)[k] = row[k]
  BY DEF Overlay, Sets

\* A change that is planned shows in the row it is planned for.
LEMMA OverlaySet ==
    ASSUME NEW changes, Consistent(changes), NEW c \in changes, c[2] \in Column, NEW row
    PROVE  Overlay(changes, c[1], row)[c[2]] = c[3]
<1>1. PICK d : d = CHOOSE e \in changes : e[1] = c[1] /\ e[2] = c[2]
  OBVIOUS
<1>2. d \in changes /\ d[1] = c[1] /\ d[2] = c[2]
  BY <1>1
<1>3. d = c
  BY <1>2 DEF Consistent
<1> QED
  BY <1>1, <1>3 DEF Overlay, Sets

\* A column nobody plans to change stays.
LEMMA OverlayUnset ==
    ASSUME NEW changes, NEW p, NEW k \in Column, NEW row, ~Sets(changes, p, k)
    PROVE  Overlay(changes, p, row)[k] = row[k]
  BY DEF Overlay

\* One UPDATE moves changes from the plan into the row, and leaves the plans
\* for other rows.
LEMMA OverlayStatement ==
    ASSUME NEW changes, Consistent(changes), NEW p, NEW row, NEW new,
           NEW rest, \A c \in rest : c[1] # p,
           \A k \in Column : \/ new[k] = row[k] /\ ~Sets(changes, p, k)
                             \/ \E c \in changes : c[1] = p /\ c[2] = k /\ new[k] = c[3]
    PROVE  \A k \in Column : Overlay(rest, p, new)[k] = Overlay(changes, p, row)[k]
<1>1. \A k \in Column : Overlay(rest, p, new)[k] = new[k]
  BY OverlayNone
<1>2. ASSUME NEW k \in Column PROVE Overlay(changes, p, row)[k] = new[k]
  <2>1. CASE \E c \in changes : c[1] = p /\ c[2] = k /\ new[k] = c[3]
    <3>1. PICK c \in changes : c[1] = p /\ c[2] = k /\ new[k] = c[3]
      BY <2>1
    <3>2. Overlay(changes, c[1], row)[c[2]] = c[3]
      BY <3>1, OverlaySet
    <3> QED
      BY <3>1, <3>2
  <2> QED
    BY <2>1, OverlayUnset
<1> QED
  BY <1>1, <1>2

\* Only the changes of a row matter to it.
LEMMA OverlayOther ==
    ASSUME NEW changes, Consistent(changes), NEW rest, \A c \in rest : c \in changes,
           NEW q, \A c \in changes : c[1] = q => c \in rest, NEW row
    PROVE  \A k \in Column : Overlay(rest, q, row)[k] = Overlay(changes, q, row)[k]
<1> SUFFICES ASSUME NEW k \in Column
             PROVE  Overlay(rest, q, row)[k] = Overlay(changes, q, row)[k]
  OBVIOUS
<1>1. CASE Sets(changes, q, k)
  <2>1. PICK c \in changes : c[1] = q /\ c[2] = k
    BY <1>1 DEF Sets
  <2>2. c \in rest /\ Consistent(rest)
    BY <2>1 DEF Consistent
  <2>3. /\ Overlay(rest, c[1], row)[c[2]] = c[3]
        /\ Overlay(changes, c[1], row)[c[2]] = c[3]
    BY <2>1, <2>2, OverlaySet
  <2> QED
    BY <2>1, <2>3
<1>2. CASE ~Sets(changes, q, k)
  BY <1>2 DEF Overlay, Sets
<1> QED
  BY <1>1, <1>2

\* A flush plans what the session assigned, where its copy of the row is what
\* it sees.
LEMMA OverlayChanges ==
    ASSUME NEW s, NEW new, NEW always, NEW p \in DOMAIN new, Loaded(s, p) = Visible(s, p)
    PROVE  \A k \in Column : Overlay(Changes(s, new, always), p, Visible(s, p))[k] = new[p][k]
<1> DEFINE changes == Changes(s, new, always)
<1>1. \A c \in changes : c[1] \in DOMAIN new /\ c[2] \in Column /\ c[3] = new[c[1]][c[2]]
                         /\ c = <<c[1], c[2], c[3]>>
  BY DEF Changes
<1>2. Consistent(changes)
  BY <1>1 DEF Consistent
<1> SUFFICES ASSUME NEW k \in Column PROVE Overlay(changes, p, Visible(s, p))[k] = new[p][k]
  OBVIOUS
<1>3. CASE <<p, k, new[p][k]>> \in changes
  <2>1. PICK c \in changes : c = <<p, k, new[p][k]>>
    BY <1>3
  <2> HIDE DEF changes
  <2> QED
    BY <1>2, <2>1, OverlaySet
<1>4. CASE <<p, k, new[p][k]>> \notin changes
  <2>1. ~Sets(changes, p, k)
    BY <1>1, <1>4 DEF Sets
  <2>2. new[p][k] = Visible(s, p)[k]
    BY <1>4 DEF Changes
  <2> QED
    BY <2>1, <2>2, OverlayUnset
<1> QED
  BY <1>3, <1>4

-----------------------------------------------------------------------------
(* The steps of a session *)

\* A row the session is not at is planned as it is.
LEMMA PlannedAsIs ==
    ASSUME NEW s, NEW p, ~Active(s, p)
    PROVE  \A k \in Column : Planned(s, p)[k] = db[p][k]
  BY OverlayNone DEF Active, Planned, Visible

\* Nothing is planned at the start.
LEMMA PlanInit == Init => PlanInv
<1> SUFFICES ASSUME Init PROVE PlanInv
  OBVIOUS
<1>1. \A s \in Session, p \in Pool : ~Active(s, p)
  BY SessionAssumption DEF Init, Active
<1>2. \A s \in Session, p \in Pool, k \in Column : Planned(s, p)[k] = db[p][k]
  BY <1>1, PlannedAsIs
<1>3. ASSUME NEW p \in Pool PROVE db[p].status = "pending" /\ db[p].rate = db[p].run
  <2>1. CASE db[p] = Pending
    BY <2>1 DEF Pending
  <2>2. CASE db[p] # Pending
    <3>1. PICK v \in Version : db[p] = Calculated(v)
      BY <2>2 DEF Init
    <3> QED
      BY <3>1 DEF Calculated, Pending
  <2> QED
    BY <2>1, <2>2
<1>4. \A s \in Session, p \in Pool :
        /\ Planned(s, p).status = "pending" /\ Planned(s, p).base = db[p].base
        /\ Planned(s, p).rate = db[p].rate /\ Planned(s, p).run = db[p].run
  BY <1>2, <1>3 DEF Column
<1>5. AloneInv
  BY <1>1 DEF AloneInv
<1>6. RunInv /\ SingleInv /\ ForceInv /\ KeptInv /\ SettledInv
  BY <1>3, <1>4 DEF RunInv, SingleInv, ForceInv, KeptInv, SettledInv, InForce
<1> QED
  BY <1>5, <1>6 DEF PlanInv

\* A step that changes no plan.
LEMMA PlanSame ==
    ASSUME PlanInv, UNCHANGED <<db, raced, closer, approving>>,
           \A s \in Session, p \in Pool :
              /\ Active(s, p)' => Active(s, p)
              /\ \A k \in Column : Planned(s, p)'[k] = Planned(s, p)[k]
    PROVE  PlanInv'
<1>1. \A s \in Session, p \in Pool :
        /\ Planned(s, p)'.status = Planned(s, p).status
        /\ Planned(s, p)'.base = Planned(s, p).base
        /\ Planned(s, p)'.rate = Planned(s, p).rate
        /\ Planned(s, p)'.run = Planned(s, p).run
  BY DEF Column
<1>2. AloneInv' /\ RunInv'
  BY <1>1 DEF PlanInv, AloneInv, RunInv
<1>3. SingleInv' /\ KeptInv'
  BY <1>1 DEF PlanInv, SingleInv, KeptInv, InForce
<1>4. ForceInv'
  BY <1>1 DEF PlanInv, ForceInv, Family, InForce
<1>5. SettledInv'
  BY <1>1 DEF PlanInv, SettledInv
<1> QED
  BY <1>2, <1>3, <1>4, <1>5 DEF PlanInv

\* A statement of a flush carries out what was planned.
LEMMA StatementPlan ==
    ASSUME BaseInv, PlanInv, NEW s \in Session, Statement(s)
    PROVE  PlanInv'
<1>0. TypeOK /\ FlushInv /\ StoreInv
  BY DEF BaseInv
<1>a. PICK p \in Pool, mine \in SUBSET todo[s] : \E new :
        /\ mine = {c \in todo[s] : c[1] = p} /\ mine # {} /\ DOMAIN new = Column
        /\ \A k \in Column : new[k] = IF \E c \in mine : c[2] = k
                                      THEN (CHOOSE c \in mine : c[2] = k)[3]
                                      ELSE store[p][k]
        /\ rowLock[p] \in {NoSession, s} /\ LockedFrozen(store[p], new)
        /\ rowLock' = [rowLock EXCEPT ![p] = s]
        /\ store' = [store EXCEPT ![p] = new]
        /\ todo' = [todo EXCEPT ![s] = @ \ mine]
        /\ pc' = [pc EXCEPT ![s] = IF todo[s] = mine THEN "chain" ELSE "dml"]
  BY <1>0, StatementFacts
<1>1. PICK new :
        /\ mine = {c \in todo[s] : c[1] = p} /\ mine # {} /\ DOMAIN new = Column
        /\ \A k \in Column : new[k] = IF \E c \in mine : c[2] = k
                                      THEN (CHOOSE c \in mine : c[2] = k)[3]
                                      ELSE store[p][k]
        /\ rowLock[p] \in {NoSession, s} /\ LockedFrozen(store[p], new)
        /\ rowLock' = [rowLock EXCEPT ![p] = s]
        /\ store' = [store EXCEPT ![p] = new]
        /\ todo' = [todo EXCEPT ![s] = @ \ mine]
        /\ pc' = [pc EXCEPT ![s] = IF todo[s] = mine THEN "chain" ELSE "dml"]
  BY <1>a
<1>2. UNCHANGED <<db, raced, closer, approving>>
  BY DEF Statement
<1>3. /\ rowLock'[p] = s /\ store'[p] = new /\ todo'[s] = todo[s] \ mine
      /\ \A q \in Pool \ {p} : rowLock'[q] = rowLock[q] /\ store'[q] = store[q]
      /\ \A t \in Session \ {s} : todo'[t] = todo[t]
  BY <1>0, <1>1 DEF TypeOK
<1>4. Visible(s, p) = store[p] /\ Visible(s, p)' = new
  BY <1>0, <1>1, <1>3 DEF Visible, StoreInv
<1>5. \A t \in Session, q \in Pool : t # s \/ q # p => Visible(t, q)' = Visible(t, q)
  BY <1>1, <1>2, <1>3, SessionAssumption DEF Visible
<1>6. \A t \in Session, q \in Pool : Active(t, q)' => Active(t, q)
  BY <1>1, <1>3 DEF Active
<1>7. Consistent(todo[s])
  BY <1>0 DEF FlushInv
<1> DEFINE changes == todo[s]
           rest == todo'[s]
           row == store[p]
<1>8. ASSUME NEW k \in Column
      PROVE  \/ new[k] = row[k] /\ ~Sets(changes, p, k)
             \/ \E c \in changes : c[1] = p /\ c[2] = k /\ new[k] = c[3]
  BY <1>1 DEF Sets
<1>9. /\ \A c \in rest : c[1] # p /\ c \in changes
      /\ \A q : q # p => \A c \in changes : c[1] = q => c \in rest
  BY <1>1, <1>3
<1>10. Consistent(changes)
  BY <1>7
<1> HIDE DEF changes, rest, row
<1>11. \A k \in Column : Overlay(rest, p, new)[k] = Overlay(changes, p, row)[k]
  BY <1>8, <1>9, <1>10, OverlayStatement
<1>12. ASSUME NEW q, q # p, NEW seen
       PROVE  \A k \in Column : Overlay(rest, q, seen)[k] = Overlay(changes, q, seen)[k]
  BY <1>9, <1>10, <1>12, OverlayOther
<1>13. \A t \in Session, q \in Pool, k \in Column : Planned(t, q)'[k] = Planned(t, q)[k]
  <2> SUFFICES ASSUME NEW t \in Session, NEW q \in Pool, NEW k \in Column
               PROVE  Planned(t, q)'[k] = Planned(t, q)[k]
    OBVIOUS
  <2>1. CASE t = s /\ q = p
    BY <2>1, <1>3, <1>4, <1>11 DEF Planned, changes, rest, row
  <2>2. CASE t = s /\ q # p
    BY <2>2, <1>5, <1>12 DEF Planned, changes, rest
  <2>3. CASE t # s
    BY <2>3, <1>3, <1>5 DEF Planned
  <2> QED
    BY <2>1, <2>2, <2>3
<1> QED
  BY <1>2, <1>6, <1>13, PlanSame

\* What a call does to the plans.  names are the pool names whose revisions it
\* reads and writes: of those that nobody else is at, the session has a fresh
\* copy, and it plans what it assigned.
CallPlans(s, new, names) ==
    /\ db' = db /\ raced \subseteq raced' /\ DOMAIN new \subseteq Pool
    /\ \A p \in Pool, k \in Column : Planned(s, p)[k] = Visible(s, p)[k]
    /\ \A p \in Pool : Name[p] \in names /\ Name[p] \notin raced' =>
          Loaded(s, p) = Visible(s, p) /\ \A t \in Session \ {s} : ~Active(t, p)
    /\ \A p \in DOMAIN new, k \in Column :
          Name[p] \notin raced' => Planned(s, p)'[k] = new[p][k]
    /\ \A t \in Session, p \in Pool, k \in Column :
          /\ Name[p] \notin raced'
          /\ t = s /\ p \in DOMAIN new => new[p][k] = Loaded(s, p)[k]
          => Planned(t, p)'[k] = Planned(t, p)[k]
    /\ AloneInv'

\* What a call plans for the rows of pools nobody races on.
LEMMA CallFacts ==
    ASSUME BaseInv, AloneInv, NEW s \in Session, NEW new, NEW always, Call(s, new, always),
           NEW names, \A p \in DOMAIN new : Name[p] \in names,
           raced \subseteq raced', \A n \in names : Overlaps(s, n) => n \in raced'
    PROVE  CallPlans(s, new, names)
<1>0. TypeOK /\ FlushInv
  BY DEF BaseInv
<1>1. /\ db' = db /\ rowLock' = rowLock
      /\ DOMAIN new \subseteq Pool /\ todo[s] = {}
      /\ todo'[s] = Changes(s, new, always)
      /\ \A t \in Session \ {s} : todo'[t] = todo[t]
  BY <1>0 DEF Call, TypeOK, FlushInv, Ready
<1>2. \A t \in Session, p \in Pool : Visible(t, p)' = Visible(t, p)
  BY DEF Call, Visible
<1>3. \A p \in Pool, k \in Column : Planned(s, p)[k] = Visible(s, p)[k]
  BY <1>1, OverlayNone DEF Planned
<1>4. ASSUME NEW p \in Pool, Name[p] \in names, Name[p] \notin raced'
      PROVE  Loaded(s, p) = Visible(s, p) /\ \A t \in Session \ {s} : ~Active(t, p)
  <2>1. ~Overlaps(s, Name[p]) /\ p \in Family(Name[p])
    BY <1>4 DEF Family
  <2> QED
    BY <2>1 DEF Overlaps, Loaded, Active
<1>5. ASSUME NEW p \in DOMAIN new, Name[p] \notin raced', NEW k \in Column
      PROVE  Planned(s, p)'[k] = new[p][k]
  <2>1. p \in Pool /\ Loaded(s, p) = Visible(s, p)
    BY <1>1, <1>4, <1>5
  <2>2. Overlay(Changes(s, new, always), p, Visible(s, p))[k] = new[p][k]
    BY <2>1, OverlayChanges
  <2>3. Planned(s, p)' = Overlay(Changes(s, new, always), p, Visible(s, p))
    <3>1. Planned(s, p)' = Overlay(todo'[s], p, Visible(s, p)')
      BY DEF Planned
    <3>2. todo'[s] = Changes(s, new, always) /\ Visible(s, p)' = Visible(s, p)
      BY <1>1, <1>2, <2>1
    <3> QED
      BY <3>1, <3>2
  <2> QED
    BY <2>2, <2>3
<1>6. ASSUME NEW c \in todo'[s] PROVE c[1] \in DOMAIN new
  BY <1>1, <1>6 DEF Changes
<1>7. ASSUME NEW t \in Session, NEW p \in Pool, NEW k \in Column, Name[p] \notin raced',
             t = s /\ p \in DOMAIN new => new[p][k] = Loaded(s, p)[k]
      PROVE  Planned(t, p)'[k] = Planned(t, p)[k]
  <2>1. CASE t # s
    BY <2>1, <1>1, <1>2 DEF Planned
  <2>2. CASE t = s /\ p \in DOMAIN new
    BY <2>2, <1>3, <1>4, <1>5, <1>7
  <2>3. CASE t = s /\ p \notin DOMAIN new
    <3>1. \A c \in todo'[s] : c[1] # p
      BY <2>3, <1>6
    <3>2. Planned(s, p)' = Overlay(todo'[s], p, Visible(s, p))
      BY <1>2 DEF Planned
    <3> DEFINE changes == todo'[s]
    <3> HIDE DEF changes
    <3>3. Overlay(changes, p, Visible(s, p))[k] = Visible(s, p)[k]
      BY <3>1, OverlayNone DEF changes
    <3> QED
      BY <2>3, <1>3, <3>2, <3>3 DEF changes
  <2> QED
    BY <2>1, <2>2, <2>3
<1>8. AloneInv'
  <2>1. \A t \in Session, p \in Pool :
          Active(t, p)' => Active(t, p) \/ (t = s /\ p \in DOMAIN new)
    BY <1>1, <1>6 DEF Active
  <2> SUFFICES ASSUME NEW t \in Session, NEW u \in Session, NEW p \in Pool, NEW q \in Pool,
                      Name[p] = Name[q], Name[p] \notin raced', Active(t, p)', Active(u, q)'
               PROVE  t = u
    BY DEF AloneInv
  <2>2. CASE Active(t, p) /\ Active(u, q)
    BY <2>2, <1>1 DEF AloneInv
  <2>3. CASE t = s /\ p \in DOMAIN new
    BY <2>1, <2>3, <1>4
  <2>4. CASE u = s /\ q \in DOMAIN new
    BY <2>1, <2>4, <1>4
  <2> QED
    BY <2>1, <2>2, <2>3, <2>4
<1> QED
  BY <1>1, <1>3, <1>4, <1>5, <1>7, <1>8 DEF CallPlans

\* derive_pool_base: only one locked revision is in force, and the session sees
\* the rate it was locked with.
LEMMA DerivePlan ==
    ASSUME BaseInv, PlanInv, NEW s \in Session, NEW p \in Pool, DerivePoolBase(s, p)
    PROVE  PlanInv'
<1>0. AloneInv /\ RunInv /\ SingleInv /\ ForceInv /\ KeptInv /\ SettledInv /\ CloserInv
  BY DEF BaseInv, PlanInv
<1> DEFINE names == {Name[p]} \union Upstream(Name[p])
<1>1. PICK new : /\ Call(s, new, {}) /\ DOMAIN new = {p}
                 /\ \A k \in Column \ {"base"} : new[p][k] = Loaded(s, p)[k]
                 /\ \A n \in Upstream(Name[p]) : new[p].base.rates[n] \in RatesInForce(s, n)
                 /\ closer' = closer /\ approving' = approving
  BY DeriveCall
<1>2. raced \subseteq raced' /\ \A n \in names : Overlaps(s, n) => n \in raced'
  BY DEF DerivePoolBase
<1>3. /\ \A q \in DOMAIN new : Name[q] \in names
      /\ \A n \in Upstream(Name[p]) : n \in names
  BY <1>1
<1> HIDE DEF names
<1>4. CallPlans(s, new, names)
  BY <1>0, <1>1, <1>2, <1>3, CallFacts
<1>5. \A t \in Session, q \in Pool : Name[q] \notin raced' =>
        /\ Planned(t, q)'.status = Planned(t, q).status
        /\ Planned(t, q)'.rate = Planned(t, q).rate
        /\ Planned(t, q)'.run = Planned(t, q).run
        /\ t # s \/ q # p => Planned(t, q)'.base = Planned(t, q).base
  BY <1>1, <1>4 DEF CallPlans, Column
<1>6. RunInv' /\ SingleInv' /\ KeptInv'
  BY <1>0, <1>1, <1>2, <1>4, <1>5 DEF CallPlans, RunInv, SingleInv, KeptInv, InForce
<1>7. ForceInv'
  BY <1>0, <1>4, <1>5 DEF CallPlans, ForceInv, Family, InForce
<1>8. SettledInv'
  <2> SUFFICES ASSUME NEW t \in Session, NEW r \in Pool, NEW q \in Pool,
                      Planned(t, r)'.base # db[r].base,
                      ({Name[r]} \union Upstream(Name[r])) \intersect raced' = {},
                      Name[q] \in Upstream(Name[r])
               PROVE  /\ db[q].status = "locked" /\ q \notin approving[t]
                            => Planned(t, r)'.base.rates[Name[q]] = db[q].rate
                      /\ \A u \in Session \ {t} : closer = u => Planned(u, q)'.status # "locked"
    BY <1>1, <1>4 DEF CallPlans, SettledInv
  <2>1. Name[q] \notin raced' /\ Name[r] \notin raced'
    OBVIOUS
  <2>2. CASE t # s \/ r # p
    BY <2>1, <2>2, <1>0, <1>4, <1>5 DEF CallPlans, SettledInv
  <2>3. CASE t = s /\ r = p
    <3>1. Name[q] \in names
      BY <2>3, <1>3
    <3>2. \A u \in Session \ {s} : ~Active(u, q)
      BY <3>1, <2>1, <1>4 DEF CallPlans
    <3>3. ASSUME NEW u \in Session \ {s}, closer = u PROVE Planned(u, q)'.status # "locked"
      <4>1. Planned(u, q).status = db[q].status
        BY <3>2, PlannedAsIs DEF Column
      <4>2. db[q].status # "locked"
        BY <3>3, <1>0, SessionAssumption DEF CloserInv
      <4> QED
        BY <4>1, <4>2, <2>1, <1>5
    <3>4. ASSUME db[q].status = "locked", q \notin approving[s]
          PROVE  new[p].base.rates[Name[q]] = db[q].rate
      <4>1. Planned(s, q).status = "locked" /\ Planned(s, q).rate = db[q].rate
        BY <3>4, <2>1, <1>0, <1>4 DEF CallPlans, KeptInv
      <4>2. Visible(s, q).status = "locked" /\ Visible(s, q).rate = db[q].rate
        BY <4>1, <1>4 DEF CallPlans, Column
      <4>3. ASSUME NEW o \in Family(Name[q]), Visible(s, o).status = "locked"
            PROVE  o = q
        <5>1. o \in Pool /\ Name[o] = Name[q]
          BY DEF Family
        <5>2. Planned(s, o).status = "locked"
          BY <4>3, <5>1, <1>4 DEF CallPlans, Column
        <5> QED
          BY <4>1, <5>1, <5>2, <2>1, <1>0, <1>4 DEF CallPlans, SingleInv, InForce
      <4>4. q \in Family(Name[q])
        BY DEF Family
      <4>5. RatesInForce(s, Name[q]) = {db[q].rate}
        BY <4>2, <4>3, <4>4 DEF RatesInForce
      <4> QED
        BY <4>5, <2>3, <1>1
    <3>5. Planned(s, p)'.base = new[p].base
      BY <2>1, <2>3, <1>1, <1>4 DEF CallPlans, Column
    <3> QED
      BY <2>3, <3>3, <3>4, <3>5
  <2> QED
    BY <2>2, <2>3
<1> QED
  BY <1>4, <1>6, <1>7, <1>8 DEF CallPlans, PlanInv

\* calculate_pool_rate: not of a locked revision, and with the run it stamps.
LEMMA CalculatePlan ==
    ASSUME BaseInv, PlanInv, NEW s \in Session, NEW p \in Pool, CalculatePoolRate(s, p)
    PROVE  PlanInv'
<1>0. AloneInv /\ RunInv /\ SingleInv /\ ForceInv /\ KeptInv /\ SettledInv
  BY DEF PlanInv
<1>1. PICK new : /\ Call(s, new, {"run"}) /\ DOMAIN new = {p}
                 /\ \A k \in Column \ {"rate", "run"} : new[p][k] = Loaded(s, p)[k]
                 /\ new[p].rate # None /\ new[p].run = new[p].rate
                 /\ Loaded(s, p).status # "locked"
                 /\ closer' = closer /\ approving' = approving
  BY CalculateCall
<1> DEFINE names == {Name[p]}
<1>2. raced \subseteq raced' /\ \A n \in names : Overlaps(s, n) => n \in raced'
  BY DEF CalculatePoolRate
<1>3. \A q \in DOMAIN new : Name[q] \in names
  BY <1>1
<1> HIDE DEF names
<1>4. CallPlans(s, new, names)
  BY <1>0, <1>1, <1>2, <1>3, CallFacts
<1>5. \A t \in Session, q \in Pool : Name[q] \notin raced' =>
        /\ Planned(t, q)'.status = Planned(t, q).status
        /\ Planned(t, q)'.base = Planned(t, q).base
        /\ t # s \/ q # p => /\ Planned(t, q)'.rate = Planned(t, q).rate
                             /\ Planned(t, q)'.run = Planned(t, q).run
  BY <1>1, <1>4 DEF CallPlans, Column
<1>6. Name[p] \notin raced' => /\ Planned(s, p)'.run = Planned(s, p)'.rate
                               /\ Planned(s, p)'.status # "locked"
  BY <1>1, <1>4 DEF CallPlans, Column
<1>7. RunInv' /\ SingleInv' /\ KeptInv'
  BY <1>0, <1>1, <1>4, <1>5, <1>6 DEF CallPlans, RunInv, SingleInv, KeptInv, InForce
<1>8. ForceInv'
  BY <1>0, <1>4, <1>5 DEF CallPlans, ForceInv, Family, InForce
<1>9. SettledInv'
  BY <1>0, <1>1, <1>4, <1>5 DEF CallPlans, SettledInv
<1> QED
  BY <1>4, <1>7, <1>8, <1>9 DEF CallPlans, PlanInv

\* approve_rate: the approved revisions there were are superseded.
LEMMA ApprovePlan ==
    ASSUME BaseInv, PlanInv, NEW s \in Session, NEW p \in Pool, ApproveRate(s, p)
    PROVE  PlanInv'
<1>0. AloneInv /\ RunInv /\ SingleInv /\ ForceInv /\ KeptInv /\ SettledInv
  BY DEF PlanInv
<1>1. PICK new :
            /\ Call(s, new, {}) /\ DOMAIN new = Prior(s, p) \union {p}
            /\ \A q \in DOMAIN new :
                  /\ \A k \in Column \ {"status", "superseded_by"} : new[q][k] = Loaded(s, q)[k]
                  /\ new[q].status = IF q = p THEN "approved" ELSE "superseded"
            /\ Loaded(s, p).rate # None
            /\ closer' = closer
            /\ approving' = [approving EXCEPT ![s] = @ \union {p}]
  BY ApproveCall
<1> DEFINE names == {Name[p]}
<1>2. raced \subseteq raced' /\ \A n \in names : Overlaps(s, n) => n \in raced'
  BY DEF ApproveRate
<1>3. \A q \in DOMAIN new : Name[q] \in names
  BY <1>1 DEF Prior, Family
<1>4. \A q \in DOMAIN new : q \in Pool /\ Name[q] = Name[p]
  BY <1>1 DEF Prior, Family
<1> HIDE DEF names
<1>5. CallPlans(s, new, names)
  BY <1>0, <1>1, <1>2, <1>3, CallFacts
<1>6. \A t \in Session, q \in Pool : Name[q] \notin raced' =>
        /\ Planned(t, q)'.base = Planned(t, q).base
        /\ Planned(t, q)'.rate = Planned(t, q).rate
        /\ Planned(t, q)'.run = Planned(t, q).run
        /\ t # s \/ q \notin DOMAIN new => Planned(t, q)'.status = Planned(t, q).status
  BY <1>1, <1>5 DEF CallPlans, Column
<1>7. \A q \in DOMAIN new : Name[p] \notin raced' =>
        Planned(s, q)'.status = IF q = p THEN "approved" ELSE "superseded"
  BY <1>1, <1>4, <1>5 DEF CallPlans, Column
<1>8. \A q \in Pool : Name[q] = Name[p] /\ q \notin DOMAIN new => Planned(s, q).status # "approved"
  BY <1>1, <1>5 DEF CallPlans, Column, Prior, Family
<1>9. \A q \in DOMAIN new : q # p => Planned(s, q).status = "approved"
  BY <1>1, <1>4, <1>5 DEF CallPlans, Column, Prior, Family
<1>10. /\ \A t \in Session \ {s} : approving'[t] = approving[t]
       /\ approving'[s] = approving[s] \union {p} /\ p \in DOMAIN new
  BY <1>1 DEF BaseInv, TypeOK
<1>11. RunInv'
  BY <1>0, <1>5, <1>6 DEF CallPlans, RunInv
<1>12. SingleInv'
  <2> SUFFICES ASSUME NEW q \in Pool, NEW r \in Pool,
                      Name[q] = Name[r], Name[q] \notin raced', q # r
               PROVE  /\ InForce(db[q]) => db[q].status # db[r].status
                      /\ \A t \in Session :
                            InForce(Planned(t, q))' => Planned(t, q)'.status # Planned(t, r)'.status
    BY <1>5 DEF CallPlans, SingleInv, InForce
  <2>1. InForce(db[q]) => db[q].status # db[r].status
    BY <1>0, <1>5 DEF CallPlans, SingleInv
  <2>2. ASSUME NEW t \in Session, t # s \/ Name[q] # Name[p], InForce(Planned(t, q))'
        PROVE  Planned(t, q)'.status # Planned(t, r)'.status
    BY <2>2, <1>0, <1>4, <1>5, <1>6 DEF CallPlans, SingleInv, InForce
  <2>3. ASSUME Name[q] = Name[p], InForce(Planned(s, q))'
        PROVE  Planned(s, q)'.status # Planned(s, r)'.status
    <3>1. /\ Planned(s, q)'.status \in {"approved", "locked"} /\ Name[p] \notin raced'
          /\ Name[q] \notin raced /\ Name[r] = Name[p]
      BY <2>3, <1>5 DEF CallPlans, InForce
    <3>2. CASE q \in DOMAIN new
      <4>1. Planned(s, q)'.status = "approved" /\ q = p
        BY <3>1, <3>2, <1>7
      <4>2. CASE r \in DOMAIN new
        BY <4>1, <4>2, <3>1, <1>7
      <4>3. CASE r \notin DOMAIN new
        BY <4>1, <4>3, <3>1, <1>6, <1>8
      <4> QED
        BY <4>2, <4>3
    <3>3. CASE q \notin DOMAIN new
      <4>1. Planned(s, q)'.status = "locked" /\ Planned(s, q).status = "locked"
        BY <2>3, <3>1, <3>3, <1>6, <1>8
      <4>2. CASE r \in DOMAIN new
        BY <4>1, <4>2, <3>1, <1>7
      <4>3. CASE r \notin DOMAIN new
        BY <4>1, <4>3, <3>1, <1>0, <1>6 DEF SingleInv, InForce
      <4> QED
        BY <4>2, <4>3
    <3> QED
      BY <3>2, <3>3
  <2> QED
    BY <2>1, <2>2, <2>3
<1>13. ForceInv'
  <2> SUFFICES ASSUME NEW t \in Session, NEW q \in Pool, Name[q] \notin raced', InForce(db[q])
               PROVE  \E r \in Family(Name[q]) : InForce(Planned(t, r))'
    BY <1>5 DEF CallPlans, ForceInv, Family, InForce
  <2>1. CASE t = s /\ Name[q] = Name[p]
    BY <2>1, <1>7, <1>10 DEF Family, InForce
  <2>2. CASE t # s \/ Name[q] # Name[p]
    BY <2>2, <1>0, <1>4, <1>5, <1>6 DEF CallPlans, ForceInv, Family, InForce
  <2> QED
    BY <2>1, <2>2
<1>14. KeptInv'
  BY <1>0, <1>4, <1>5, <1>6, <1>7, <1>9, <1>10 DEF CallPlans, KeptInv
<1>15. SettledInv'
  BY <1>0, <1>1, <1>4, <1>5, <1>6, <1>7, <1>10 DEF CallPlans, SettledInv
<1> QED
  BY <1>5, <1>11, <1>12, <1>13, <1>14, <1>15 DEF CallPlans, PlanInv

\* _lock_fiscal_year_rates: nothing is locked before, and the one approved
\* revision of a pool gets locked.
LEMMA LockPlan ==
    ASSUME BaseInv, PlanInv, NEW s \in Session, LockFiscalYearRates(s)
    PROVE  PlanInv'
<1>0. /\ AloneInv /\ RunInv /\ SingleInv /\ ForceInv /\ KeptInv /\ SettledInv
      /\ CloserInv /\ StoreInv
  BY DEF BaseInv, PlanInv
<1>1. PICK new :
            /\ Call(s, new, {})
            /\ DOMAIN new = {p \in Pool : Visible(s, p).status = "approved"}
            /\ \A p \in DOMAIN new :
                  /\ \A k \in Column \ {"status"} : new[p][k] = Loaded(s, p)[k]
                  /\ new[p].status = "locked"
            /\ ~yearClosed /\ closer = NoSession /\ closer' = s /\ approving' = approving
  BY LockCall
<1> DEFINE names == {Name[p] : p \in Pool}
<1>2. raced \subseteq raced' /\ \A n \in names : Overlaps(s, n) => n \in raced'
  BY DEF LockFiscalYearRates
<1>3. /\ \A p \in DOMAIN new : p \in Pool /\ Name[p] \in names
      /\ \A p \in Pool : Name[p] \in names
  BY <1>1
<1> HIDE DEF names
<1>4. CallPlans(s, new, names)
  BY <1>0, <1>1, <1>2, <1>3, CallFacts
<1>5. /\ \A p \in Pool : db[p].status # "locked"
      /\ \A p \in Pool : Planned(s, p).status # "locked"
  <2>1. \A p \in Pool : db[p].status # "locked"
    BY <1>0, <1>1 DEF CloserInv
  <2>2. \A p \in Pool : Visible(s, p).status # "locked"
    BY <2>1, <1>0, <1>1, SessionAssumption DEF CloserInv, Visible
  <2> QED
    BY <2>1, <2>2, <1>4 DEF CallPlans, Column
<1>6. \A t \in Session, q \in Pool : Name[q] \notin raced' =>
        /\ Planned(t, q)'.base = Planned(t, q).base
        /\ Planned(t, q)'.rate = Planned(t, q).rate
        /\ Planned(t, q)'.run = Planned(t, q).run
        /\ t # s \/ q \notin DOMAIN new => Planned(t, q)'.status = Planned(t, q).status
  BY <1>1, <1>4 DEF CallPlans, Column
<1>7. \A q \in DOMAIN new : Name[q] \notin raced' => Planned(s, q)'.status = "locked"
  BY <1>1, <1>4 DEF CallPlans, Column
<1>8. \A q \in Pool : q \in DOMAIN new <=> Planned(s, q).status = "approved"
  BY <1>1, <1>4 DEF CallPlans, Column
<1>9. RunInv'
  BY <1>0, <1>4, <1>6 DEF CallPlans, RunInv
<1>10. SingleInv'
  <2> SUFFICES ASSUME NEW q \in Pool, NEW r \in Pool,
                      Name[q] = Name[r], Name[q] \notin raced', q # r
               PROVE  /\ InForce(db[q]) => db[q].status # db[r].status
                      /\ \A t \in Session :
                            InForce(Planned(t, q))' => Planned(t, q)'.status # Planned(t, r)'.status
    BY <1>4 DEF CallPlans, SingleInv, InForce
  <2>1. InForce(db[q]) => db[q].status # db[r].status
    BY <1>0, <1>4 DEF CallPlans, SingleInv
  <2>2. ASSUME NEW t \in Session, t # s, InForce(Planned(t, q))'
        PROVE  Planned(t, q)'.status # Planned(t, r)'.status
    BY <2>2, <1>0, <1>4, <1>6 DEF CallPlans, SingleInv, InForce
  <2>3. ASSUME InForce(Planned(s, q))'
        PROVE  Planned(s, q)'.status # Planned(s, r)'.status
    <3>1. Planned(s, q)'.status = "locked" /\ Planned(s, q).status = "approved"
      BY <2>3, <1>5, <1>6, <1>7, <1>8 DEF InForce
    <3>2. Planned(s, r).status # "approved"
      BY <3>1, <1>0, <1>4 DEF CallPlans, SingleInv, InForce
    <3>3. Planned(s, r)'.status = Planned(s, r).status
      BY <3>2, <1>6, <1>8
    <3> QED
      BY <3>1, <3>3, <1>5
  <2> QED
    BY <2>1, <2>2, <2>3
<1>11. ForceInv'
  <2> SUFFICES ASSUME NEW t \in Session, NEW q \in Pool, Name[q] \notin raced', InForce(db[q])
               PROVE  \E r \in Family(Name[q]) : InForce(Planned(t, r))'
    BY <1>4 DEF CallPlans, ForceInv, Family, InForce
  <2>1. PICK r \in Family(Name[q]) : InForce(Planned(t, r))
    BY <1>0, <1>4 DEF CallPlans, ForceInv
  <2>2. r \in Pool /\ Name[r] = Name[q]
    BY DEF Family
  <2>3. InForce(Planned(t, r))'
    BY <2>1, <2>2, <1>6, <1>7 DEF InForce
  <2> QED
    BY <2>3
<1>12. KeptInv'
  BY <1>4, <1>5 DEF CallPlans, KeptInv
<1>13. SettledInv'
  <2> SUFFICES ASSUME NEW t \in Session, NEW r \in Pool, NEW q \in Pool,
                      Planned(t, r)'.base # db[r].base, Name[r] \notin raced',
                      NEW u \in Session \ {t}, closer' = u
               PROVE  FALSE
    BY <1>4, <1>5 DEF CallPlans, SettledInv
  <2>1. u = s /\ t # s
    BY <1>1
  <2>2. ~Active(t, r)
    BY <2>1, <1>3, <1>4 DEF CallPlans
  <2>3. Planned(t, r).base = db[r].base
    BY <2>2, PlannedAsIs DEF Column
  <2> QED
    BY <2>1, <2>3, <1>6
<1> QED
  BY <1>4, <1>9, <1>10, <1>11, <1>12, <1>13 DEF CallPlans, PlanInv

\* A transaction ends: whoever else changes a row goes on as planned.
LEMMA ReleasePlans ==
    ASSUME BaseInv, NEW s \in Session, Release(s),
           \A t \in Session \ {s}, p \in Pool : rowLock[p] = t => store'[p] = store[p]
    PROVE  /\ \A p \in Pool : ~Active(s, p)'
           /\ \A p \in Pool, k \in Column : Planned(s, p)'[k] = db'[p][k]
           /\ \A t \in Session \ {s}, p \in Pool :
                 /\ Active(t, p)' <=> Active(t, p)
                 /\ \A k \in Column :
                       /\ ~Active(t, p) => Planned(t, p)'[k] = db'[p][k]
                       /\ db'[p] = db[p] => Planned(t, p)'[k] = Planned(t, p)[k]
<1>1. /\ \A p \in Pool : rowLock'[p] = IF rowLock[p] = s THEN NoSession ELSE rowLock[p]
      /\ todo'[s] = {} /\ \A t \in Session \ {s} : todo'[t] = todo[t]
  BY ReleaseFacts DEF BaseInv
<1>2. \A p \in Pool : ~Active(s, p)'
  BY <1>1, SessionAssumption DEF Active
<1>3. \A t \in Session \ {s}, p \in Pool : Active(t, p)' <=> Active(t, p)
  BY <1>1, SessionAssumption DEF Active
<1>4. ASSUME NEW t \in Session, NEW p \in Pool, ~Active(t, p)', NEW k \in Column
      PROVE  Planned(t, p)'[k] = db'[p][k]
  <2>1. Visible(t, p)' = db'[p] /\ \A c \in todo'[t] : c[1] # p
    BY <1>4 DEF Active, Visible
  <2>2. Planned(t, p)' = Overlay(todo'[t], p, Visible(t, p)')
    BY DEF Planned
  <2> DEFINE changes == todo'[t]
  <2> HIDE DEF changes
  <2>3. Overlay(changes, p, db'[p])[k] = db'[p][k]
    BY <2>1, OverlayNone DEF changes
  <2> QED
    BY <2>1, <2>2, <2>3 DEF changes
<1>5. ASSUME NEW t \in Session \ {s}, NEW p \in Pool, db'[p] = db[p], NEW k \in Column
      PROVE  Planned(t, p)'[k] = Planned(t, p)[k]
  <2>1. Visible(t, p)' = Visible(t, p)
    BY <1>1, <1>5, SessionAssumption DEF Visible
  <2>2. Planned(t, p)' = Overlay(todo'[t], p, Visible(t, p)')
    BY DEF Planned
  <2>3. Planned(t, p)' = Planned(t, p)
    BY <1>1, <2>1, <2>2 DEF Planned
  <2> QED
    BY <2>3
<1> QED
  BY <1>2, <1>3, <1>4, <1>5

\* A rollback leaves the plans of the others.
LEMMA RollbackPlan ==
    ASSUME BaseInv, PlanInv, NEW s \in Session, Rollback(s)
    PROVE  PlanInv'
<1>0. AloneInv /\ RunInv /\ SingleInv /\ ForceInv /\ KeptInv /\ SettledInv
  BY DEF PlanInv
<1>1. /\ db' = db /\ raced' = raced /\ Release(s)
      /\ \A t \in Session \ {s}, p \in Pool : rowLock[p] = t => store'[p] = store[p]
  BY DEF Rollback, BaseInv, TypeOK
<1>2. /\ \A p \in Pool : ~Active(s, p)'
      /\ \A p \in Pool, k \in Column : Planned(s, p)'[k] = db'[p][k]
      /\ \A t \in Session \ {s}, p \in Pool :
            /\ Active(t, p)' <=> Active(t, p)
            /\ \A k \in Column :
                  /\ ~Active(t, p) => Planned(t, p)'[k] = db'[p][k]
                  /\ db'[p] = db[p] => Planned(t, p)'[k] = Planned(t, p)[k]
  BY <1>1, ReleasePlans
<1>3. \A p \in Pool :
        /\ Planned(s, p)'.status = db[p].status /\ Planned(s, p)'.base = db[p].base
        /\ Planned(s, p)'.rate = db[p].rate /\ Planned(s, p)'.run = db[p].run
  BY <1>1, <1>2 DEF Column
<1>4. \A t \in Session \ {s}, p \in Pool :
        /\ Planned(t, p)'.status = Planned(t, p).status
        /\ Planned(t, p)'.base = Planned(t, p).base
        /\ Planned(t, p)'.rate = Planned(t, p).rate
        /\ Planned(t, p)'.run = Planned(t, p).run
  BY <1>1, <1>2 DEF Column
<1>5. /\ closer' = IF closer = s THEN NoSession ELSE closer
      /\ \A t \in Session \ {s} : approving'[t] = approving[t]
  BY <1>1, ReleaseFacts DEF BaseInv
<1>6. AloneInv'
  BY <1>0, <1>1, <1>2 DEF AloneInv
<1>7. RunInv' /\ KeptInv'
  BY <1>0, <1>1, <1>3, <1>4, <1>5 DEF RunInv, KeptInv
<1>8. SingleInv' /\ ForceInv'
  BY <1>0, <1>1, <1>3, <1>4 DEF SingleInv, ForceInv, InForce, Family
<1>9. SettledInv'
  BY <1>0, <1>1, <1>3, <1>4, <1>5, SessionAssumption DEF SettledInv
<1> QED
  BY <1>6, <1>7, <1>8, <1>9 DEF PlanInv

\* A commit makes the session's plan the data.  Any other session is at the
\* revisions of a name, and nothing is committed to them, or plans none.
CommitPlans(s) ==
    /\ \A p \in Pool, k \in Column : db'[p][k] = Planned(s, p)[k]
    /\ \A t \in Session, n \in Names \ raced :
          \/ /\ t # s
             /\ \A p \in Family(n) : /\ db'[p] = db[p]
                                     /\ \A k \in Column : Planned(t, p)'[k] = Planned(t, p)[k]
          \/ \A p \in Family(n), k \in Column : Planned(t, p)'[k] = db'[p][k]
    /\ AloneInv'

\* What a commit makes of the plans.
LEMMA CommitFacts ==
    ASSUME BaseInv, AloneInv, NEW s \in Session, Commit(s)
    PROVE  CommitPlans(s)
<1>1. /\ raced' = raced /\ Release(s) /\ todo[s] = {}
      /\ \A p \in Pool : db'[p] = Visible(s, p)
      /\ \A t \in Session \ {s}, p \in Pool : rowLock[p] = t => store'[p] = store[p]
  BY DEF Commit, BaseInv, FlushInv
<1>2. /\ \A p \in Pool : ~Active(s, p)'
      /\ \A p \in Pool, k \in Column : Planned(s, p)'[k] = db'[p][k]
      /\ \A t \in Session \ {s}, p \in Pool :
            /\ Active(t, p)' <=> Active(t, p)
            /\ \A k \in Column :
                  /\ ~Active(t, p) => Planned(t, p)'[k] = db'[p][k]
                  /\ db'[p] = db[p] => Planned(t, p)'[k] = Planned(t, p)[k]
  BY <1>1, ReleasePlans
<1>3. \A p \in Pool, k \in Column : db'[p][k] = Planned(s, p)[k]
  BY <1>1, OverlayNone DEF Planned
<1>4. ASSUME NEW t \in Session \ {s}, NEW n \in Names \ raced, NEW p \in Family(n), Active(t, p)
      PROVE  \A q \in Family(n) : db'[q] = db[q]
  <2>1. \A q \in Family(n) : ~Active(s, q)
    BY <1>4 DEF AloneInv, Family
  <2> QED
    BY <1>1, <2>1 DEF Active, Visible, Family
<1>5. ASSUME NEW t \in Session, NEW n \in Names \ raced
      PROVE  \/ /\ t # s
                /\ \A p \in Family(n) :
                      /\ db'[p] = db[p]
                      /\ \A k \in Column : Planned(t, p)'[k] = Planned(t, p)[k]
             \/ \A p \in Family(n), k \in Column : Planned(t, p)'[k] = db'[p][k]
  <2>1. \A p \in Family(n) : p \in Pool
    BY DEF Family
  <2>2. CASE t = s
    BY <2>1, <2>2, <1>2
  <2>3. CASE t # s /\ \E p \in Family(n) : Active(t, p)
    <3>1. \A q \in Family(n) : db'[q] = db[q]
      BY <2>3, <1>4
    <3> QED
      BY <2>1, <2>3, <3>1, <1>2
  <2>4. CASE t # s /\ \A p \in Family(n) : ~Active(t, p)
    BY <2>1, <2>4, <1>2
  <2> QED
    BY <2>2, <2>3, <2>4
<1>6. AloneInv'
  BY <1>1, <1>2 DEF AloneInv
<1> QED
  BY <1>3, <1>5, <1>6 DEF CommitPlans

\* A commit keeps the invariant of the plans.
LEMMA CommitPlan ==
    ASSUME BaseInv, BaseInv', PlanInv, NEW s \in Session, Commit(s)
    PROVE  PlanInv'
<1>0. /\ AloneInv /\ RunInv /\ SingleInv /\ ForceInv /\ KeptInv /\ SettledInv
      /\ CloserInv /\ CloserInv'
  BY DEF BaseInv, PlanInv
<1>1. CommitPlans(s) /\ raced' = raced
  BY <1>0, CommitFacts DEF Commit
<1>2. \A p \in Pool : /\ db'[p].status = Planned(s, p).status
                      /\ db'[p].base = Planned(s, p).base
                      /\ db'[p].rate = Planned(s, p).rate
                      /\ db'[p].run = Planned(s, p).run
  BY <1>1 DEF CommitPlans, Column
<1>3. ASSUME NEW t \in Session, NEW n \in Names \ raced
      PROVE  \/ /\ t # s
                /\ \A p \in Family(n) : /\ db'[p] = db[p]
                                        /\ Planned(t, p)'.status = Planned(t, p).status
                                        /\ Planned(t, p)'.base = Planned(t, p).base
                                        /\ Planned(t, p)'.rate = Planned(t, p).rate
                                        /\ Planned(t, p)'.run = Planned(t, p).run
             \/ \A p \in Family(n) : /\ Planned(t, p)'.status = db'[p].status
                                     /\ Planned(t, p)'.base = db'[p].base
                                     /\ Planned(t, p)'.rate = db'[p].rate
                                     /\ Planned(t, p)'.run = db'[p].run
  BY <1>1, <1>3 DEF CommitPlans, Column
<1>4. \A p \in Pool : Name[p] \in Names /\ p \in Family(Name[p])
  BY DEF Names, Family
<1>5. /\ closer' = IF closer = s THEN NoSession ELSE closer
      /\ \A t \in Session \ {s} : approving'[t] = approving[t]
  BY ReleaseFacts DEF BaseInv, Commit
<1>6. RunInv'
  BY <1>0, <1>1, <1>2, <1>3, <1>4 DEF RunInv
<1>7. SingleInv'
  <2> SUFFICES ASSUME NEW p \in Pool, NEW q \in Pool,
                      Name[p] = Name[q], Name[p] \notin raced, p # q
               PROVE  /\ InForce(db[p])' => db'[p].status # db'[q].status
                      /\ \A t \in Session :
                            InForce(Planned(t, p))' => Planned(t, p)'.status # Planned(t, q)'.status
    BY <1>1 DEF SingleInv, InForce
  <2>1. InForce(db[p])' => db'[p].status # db'[q].status
    BY <1>0, <1>2 DEF SingleInv, InForce
  <2>2. ASSUME NEW t \in Session, InForce(Planned(t, p))'
        PROVE  Planned(t, p)'.status # Planned(t, q)'.status
    <3>1. \/ /\ Planned(t, p)'.status = Planned(t, p).status
             /\ Planned(t, q)'.status = Planned(t, q).status
          \/ /\ Planned(t, p)'.status = db'[p].status
             /\ Planned(t, q)'.status = db'[q].status
      BY <1>3, <1>4
    <3> QED
      BY <2>1, <2>2, <3>1, <1>0 DEF SingleInv, InForce
  <2> QED
    BY <2>1, <2>2
<1>8. ForceInv'
  <2> SUFFICES ASSUME NEW t \in Session, NEW p \in Pool, Name[p] \notin raced, InForce(db[p])'
               PROVE  \E q \in Family(Name[p]) : InForce(Planned(t, q))'
    BY <1>1 DEF ForceInv, Family, InForce
  <2>1. CASE \A q \in Family(Name[p]) : db'[q] = db[q]
                                       /\ Planned(t, q)'.status = Planned(t, q).status
    BY <2>1, <1>0, <1>4 DEF ForceInv, InForce
  <2>2. CASE Planned(t, p)'.status = db'[p].status
    BY <2>2, <1>4 DEF InForce
  <2> QED
    BY <2>1, <2>2, <1>3, <1>4
<1>9. KeptInv'
  <2> SUFFICES ASSUME NEW t \in Session, NEW p \in Pool, Name[p] \notin raced,
                      db'[p].status = "locked"
               PROVE  /\ Planned(t, p)'.status = "locked" => Planned(t, p)'.rate = db'[p].rate
                      /\ p \notin approving'[t] => Planned(t, p)'.status = "locked"
    BY <1>1 DEF KeptInv
  <2>1. \/ /\ t # s /\ db'[p] = db[p]
           /\ Planned(t, p)'.status = Planned(t, p).status
           /\ Planned(t, p)'.rate = Planned(t, p).rate
        \/ Planned(t, p)'.status = db'[p].status /\ Planned(t, p)'.rate = db'[p].rate
    BY <1>3, <1>4
  <2> QED
    BY <2>1, <1>0, <1>5 DEF KeptInv
<1>10. SettledInv'
  <2> SUFFICES ASSUME NEW t \in Session, NEW p \in Pool, NEW q \in Pool,
                      Planned(t, p)'.base # db'[p].base,
                      ({Name[p]} \union Upstream(Name[p])) \intersect raced = {},
                      Name[q] \in Upstream(Name[p])
               PROVE  /\ db'[q].status = "locked" /\ q \notin approving'[t]
                            => Planned(t, p)'.base.rates[Name[q]] = db'[q].rate
                      /\ \A u \in Session \ {t} : closer' = u => Planned(u, q)'.status # "locked"
    BY <1>1 DEF SettledInv
  <2>1. Name[q] \notin raced /\ Name[p] \notin raced
    OBVIOUS
  <2>2. t # s /\ db'[p] = db[p] /\ Planned(t, p)'.base = Planned(t, p).base
    BY <2>1, <1>3, <1>4
  <2>3. /\ db[q].status = "locked" /\ q \notin approving[t]
              => Planned(t, p).base.rates[Name[q]] = db[q].rate
        /\ \A u \in Session \ {t} : closer = u => Planned(u, q).status # "locked"
    BY <2>2, <1>0 DEF SettledInv
  <2>4. ASSUME db'[q].status = "locked", q \notin approving'[t]
        PROVE  Planned(t, p)'.base.rates[Name[q]] = db'[q].rate
    <3>1. Planned(s, q).status = "locked" /\ Planned(s, q).rate = db'[q].rate
      BY <2>4, <1>2
    <3>2. CASE db[q].status = "locked"
      BY <2>1, <2>2, <2>3, <2>4, <3>1, <3>2, <1>0, <1>5 DEF KeptInv
    <3>3. CASE db[q].status # "locked"
      <4>1. closer = s
        BY <2>4, <3>3, <1>0 DEF Commit, Visible, CloserInv
      <4> QED
        BY <2>2, <2>3, <3>1, <4>1
    <3> QED
      BY <3>2, <3>3
  <2>5. ASSUME NEW u \in Session \ {t}, closer' = u
        PROVE  Planned(u, q)'.status # "locked"
    <3>1. closer = u /\ closer' # NoSession
      BY <2>5, <1>5, SessionAssumption
    <3>2. db'[q].status # "locked"
      BY <3>1, <1>0 DEF CloserInv
    <3>3. Planned(u, q)'.status \in {db'[q].status, Planned(u, q).status}
      BY <2>1, <1>3, <1>4
    <3> QED
      BY <2>3, <3>1, <3>2, <3>3
  <2> QED
    BY <2>4, <2>5
<1> QED
  BY <1>1, <1>6, <1>7, <1>8, <1>9, <1>10 DEF CommitPlans, PlanInv

\* A step that changes no row and no changes to come.
LEMMA QuietPlan ==
    ASSUME PlanInv, UNCHANGED <<db, store, rowLock, todo, raced, closer, approving>>
    PROVE  PlanInv'
<1>1. \A s \in Session, p \in Pool : Active(s, p)' => Active(s, p)
  BY DEF Active
<1>2. \A s \in Session, p \in Pool : Planned(s, p)' = Planned(s, p)
  BY DEF Planned, Visible
<1> QED
  BY <1>1, <1>2, PlanSame

\* Every step keeps the invariant of the plans.
LEMMA PlanStep == BaseInv /\ PlanInv /\ [Next]_vars => PlanInv'
<1> SUFFICES ASSUME BaseInv, PlanInv, [Next]_vars PROVE PlanInv'
  OBVIOUS
<1>1. CASE PostCost
  BY <1>1, QuietPlan DEF PostCost
<1>2. ASSUME NEW s \in Session, NEW p \in Pool, Load(s, p) PROVE PlanInv'
  BY <1>2, QuietPlan DEF Load
<1>3. ASSUME NEW s \in Session, EndSession(s) PROVE PlanInv'
  BY <1>3, QuietPlan DEF EndSession
<1>4. ASSUME NEW s \in Session, NEW p \in Pool, DerivePoolBase(s, p) PROVE PlanInv'
  BY <1>4, DerivePlan
<1>5. ASSUME NEW s \in Session, NEW p \in Pool, CalculatePoolRate(s, p) PROVE PlanInv'
  BY <1>5, CalculatePlan
<1>6. ASSUME NEW s \in Session, NEW p \in Pool, ApproveRate(s, p) PROVE PlanInv'
  BY <1>6, ApprovePlan
<1>7. ASSUME NEW s \in Session, LockFiscalYearRates(s) PROVE PlanInv'
  BY <1>7, LockPlan
<1>8. ASSUME NEW s \in Session, Statement(s) PROVE PlanInv'
  BY <1>8, StatementPlan
<1>9. ASSUME NEW s \in Session, TakeChain(s) PROVE PlanInv'
  BY <1>9, QuietPlan DEF TakeChain
<1>10. ASSUME NEW s \in Session, Commit(s) PROVE PlanInv'
  BY <1>10, CommitBase, CommitPlan
<1>11. ASSUME NEW s \in Session, Rollback(s) PROVE PlanInv'
  BY <1>11, RollbackPlan
<1>12. CASE UNCHANGED vars
  BY <1>12, QuietPlan DEF vars
<1> QED
  BY <1>1, <1>2, <1>3, <1>4, <1>5, <1>6, <1>7, <1>8, <1>9, <1>10, <1>11, <1>12 DEF Next

-----------------------------------------------------------------------------
(* Theorems *)

\* The revisions of a rate, and what sessions plan for them, fit together in
\* every reachable state.
THEOREM PlansInductive == Spec => [](BaseInv /\ PlanInv)
<1>1. Init => BaseInv /\ PlanInv
  BY BaseInit, PlanInit
<1>2. BaseInv /\ PlanInv /\ [Next]_vars => (BaseInv /\ PlanInv)'
  BY BaseStep, PlanStep
<1> QED
  BY <1>1, <1>2, PTL DEF Spec

\* approve_rate and close_period keep at most one revision approved and at most
\* one locked, each with a rate, when sessions do not race on a pool.
THEOREM OneRateInForce == Spec => []OneInForce
<1>1. BaseInv /\ PlanInv => OneInForce
  <2> SUFFICES ASSUME BaseInv, PlanInv PROVE OneInForce
    OBVIOUS
  <2>1. \A p \in Pool : InForce(db[p]) => db[p].rate # None
    BY DEF BaseInv, RateInv
  <2>2. ASSUME NEW n \in Names \ raced, NEW status \in {"approved", "locked"}
        PROVE  Cardinality(With(n, status)) <= 1
    <3>1. \A p, q \in With(n, status) : p = q
      BY DEF PlanInv, SingleInv, With, Family, InForce
    <3>2. CASE With(n, status) = {}
      BY <3>2, FS_EmptySet
    <3>3. CASE With(n, status) # {}
      <4>1. PICK p \in With(n, status) : TRUE
        BY <3>3
      <4>2. With(n, status) = {p}
        BY <3>1, <4>1
      <4>3. Cardinality({p}) = 1
        BY FS_Singleton
      <4> QED
        BY <4>2, <4>3
    <3> QED
      BY <3>2, <3>3
  <2> QED
    BY <2>1, <2>2 DEF OneInForce
<1> QED
  BY <1>1, PlansInductive, PTL

\* The run stamped last reproduces the rate its pool shows, when sessions do not
\* race on the pool: calculate_pool_rate writes the two together.
THEOREM RunsExplainRates == Spec => []RunExplainsRate
<1>1. PlanInv => RunExplainsRate
  BY DEF PlanInv, RunInv, RunExplainsRate
<1> QED
  BY <1>1, PlansInductive, PTL

\* What a step that changes rows is.
LEMMA OnlyCommits ==
    ASSUME Next, db' # db
    PROVE  \E s \in Session : Commit(s)
  BY DEF Next, PostCost, Load, EndSession, DerivePoolBase, CalculatePoolRate, ApproveRate,
         LockFiscalYearRates, Statement, TakeChain, Rollback

\* approve_rate and close_period never leave a pool that has a rate in force
\* without one.
THEOREM InForceAlwaysStays == Spec => InForceStays
<1> DEFINE Stays == \A n \in Names \ raced' :
          (\E p \in Family(n) : InForce(db[p])) => \E p \in Family(n) : InForce(db'[p])
<1>1. BaseInv /\ PlanInv /\ [Next]_vars => [Stays]_vars
  <2> SUFFICES ASSUME BaseInv, PlanInv, Next, db' # db, NEW n \in Names \ raced',
                      NEW p \in Family(n), InForce(db[p])
               PROVE  \E q \in Family(n) : InForce(db'[q])
    OBVIOUS
  <2>1. PICK s \in Session : Commit(s)
    BY OnlyCommits
  <2>2. CommitPlans(s) /\ raced' = raced
    BY <2>1, CommitFacts DEF PlanInv, Commit
  <2>3. PICK q \in Family(n) : InForce(Planned(s, q))
    BY <2>2 DEF PlanInv, ForceInv, Family
  <2>4. db'[q].status = Planned(s, q).status
    BY <2>2 DEF CommitPlans, Column, Family
  <2> QED
    BY <2>3, <2>4 DEF InForce
<1> QED
  BY <1>1, PlansInductive, PTL DEF Spec, InForceStays

\* A base that derive_pool_base commits after the close is made of the rates
\* the close locked.
THEOREM SettledRatesUsed == Spec => SettledRateUsed
<1> DEFINE Used ==
      \A p \in Pool : db'[p].base # db[p].base /\ ({Name[p]} \union Upstream(Name[p])) \intersect raced' = {} =>
          \A n \in Upstream(Name[p]), q \in Pool :
              q \in With(n, "locked") /\ (\A s \in Session : q \notin approving[s])
                => db'[p].base.rates[n] = db[q].rate
<1>1. BaseInv /\ PlanInv /\ [Next]_vars => [Used]_vars
  <2> SUFFICES ASSUME BaseInv, PlanInv, Next, NEW p \in Pool, db'[p].base # db[p].base,
                      ({Name[p]} \union Upstream(Name[p])) \intersect raced' = {},
                      NEW n \in Upstream(Name[p]), NEW q \in With(n, "locked"),
                      \A s \in Session : q \notin approving[s]
               PROVE  db'[p].base.rates[n] = db[q].rate
    OBVIOUS
  <2>1. PICK s \in Session : Commit(s)
    BY OnlyCommits
  <2>2. CommitPlans(s) /\ raced' = raced
    BY <2>1, CommitFacts DEF PlanInv, Commit
  <2>3. db'[p].base = Planned(s, p).base
    BY <2>2 DEF CommitPlans, Column
  <2>4. q \in Pool /\ Name[q] = n /\ db[q].status = "locked"
    BY DEF With, Family
  <2> QED
    BY <2>2, <2>3, <2>4 DEF PlanInv, SettledInv
<1> QED
  BY <1>1, PlansInductive, PTL DEF Spec, SettledRateUsed

=============================================================================
