-------------------------- MODULE PeriodCloseProofs --------------------------
(***************************************************************************)
(* Proofs about PeriodClose, for any sets of sessions, periods, contracts, *)
(* pools and amounts, either backend and any number of entries.            *)
(***************************************************************************)
EXTENDS PeriodClose, TLAPS

-----------------------------------------------------------------------------
(* The inductive invariant *)

Totals == [Book -> [Period -> [Contract -> Int]]]
PeriodRow == [status : {"open", "closed"}, recon : {"pending", "passed", "failed"},
              closed_by : Session \union {NoSession}]
RowOf(x) == IF x \in Pool THEN {"pending", "approved", "locked"} ELSE PeriodRow
Job == [period : Period \union {NotLoaded}, seen : [Book -> [Contract -> Int]],
        then : {"open", "count"}, rates : SUBSET Pool, closing : SUBSET Period,
        approving : SUBSET Pool]
Reading == {"gl", "jcl", "billed", "verdict"}

TypeInv ==
    /\ backend \in {"sqlite", "postgresql"}
    /\ ledger \in Totals
    /\ posted \in [Session -> Totals]
    /\ DOMAIN db = Row /\ DOMAIN store = Row
    /\ \A x \in Row : db[x] \in RowOf(x) /\ store[x] \in RowOf(x)
    /\ rowLock \in [Row -> Session \union {NoSession}]
    /\ DOMAIN cache = Session
    /\ \A s \in Session : /\ DOMAIN cache[s] = Row
                          /\ \A x \in Row : cache[s][x] # NotLoaded => cache[s][x] \in RowOf(x)
    /\ chainLock \in Session \union {NoSession}
    /\ pc \in [Session -> {"idle", "open", "chain", "count", "rates"} \union Reading]
    /\ job \in [Session -> Job]
    /\ raced \subseteq Period

\* Outside of a transaction nothing is held.
IdleInv ==
    \A s \in Session : pc[s] = "idle" =>
        /\ chainLock # s /\ posted[s] = NoPostings /\ job[s].closing = {}
        /\ \A x \in Row : rowLock[x] # s

\* A row nobody locks has no uncommitted update; a period is not reopened and a
\* rate does not become pending again.
StoreInv ==
    /\ \A x \in Row : rowLock[x] = NoSession => store[x] = db[x]
    /\ \A p \in Period : Closed(p) => store[p].status = "closed"
    /\ \A f \in Pool : db[f] # "pending" => store[f] # "pending"

\* Whoever updated a row has the chain's lock or waits for it; on SQLite whoever
\* updated or posted anything has it.
ChainInv ==
    \A s \in Session :
        /\ pc[s] \in {"count", "rates"} => chainLock = s
        /\ \A x \in Row : rowLock[x] = s => chainLock = s \/ (pc[s] = "chain" /\ backend = "postgresql")
        /\ \A b \in Book, p \in Period :
              posted[s][b][p] # Zero /\ backend = "sqlite" => chainLock = s

\* A session that closed a period knows that it did, and counts the open periods
\* as soon as it has the chain's lock.
ClosingInv ==
    \A s \in Session, p \in Period :
        rowLock[p] = s /\ store[p].status = "closed" /\ ~Closed(p) =>
            /\ p \in job[s].closing
            /\ cache[s][p] # NotLoaded => cache[s][p].status = "closed"
            /\ chainLock = s \/ (pc[s] = "chain" /\ job[s].then = "count")

\* A session reconciles a period that its copy says is open.
ReadingInv ==
    \A s \in Session : pc[s] \in Reading =>
        /\ job[s].period \in Period /\ job[s].period \in job[s].closing
        /\ cache[s][job[s].period] \in PeriodRow
        /\ cache[s][job[s].period].status = "open"

\* Postings to a closed period were in flight on PostgreSQL when it closed.
GateInv ==
    \A s \in Session, b \in {"gl", "jcl"}, p \in Period :
        posted[s][b][p] # Zero /\ Closed(p) => backend = "postgresql" /\ p \in raced

\* As long as no posting overlapped the close, what the session read is what it
\* still sees, and the books of a period that is closed or about to be tie.
TieInv ==
    \A p \in Period \ raced :
        /\ Closed(p) => Ties(p)
        /\ \A s \in Session :
              /\ pc[s] \in {"jcl", "billed", "verdict"} /\ job[s].period = p
                    => job[s].seen["gl"] = VisibleTotals(s, "gl", p)
              /\ pc[s] \in {"billed", "verdict"} /\ job[s].period = p
                    => job[s].seen["jcl"] = VisibleTotals(s, "jcl", p)
              /\ rowLock[p] = s /\ store[p].status = "closed"
                    => VisibleTotals(s, "gl", p) = VisibleTotals(s, "jcl", p)

\* Before the year is closed no rate is locked, and a rate is only taken for
\* locked by whoever locks it.  Whoever closes the last period locks what is
\* approved, except what it approves itself.
AllClosed(s) == \A p \in Period : Visible(s, p).status = "closed"
LockingInv ==
    /\ \A f \in Pool : db[f] = "locked" => \A p \in Period : Closed(p)
    /\ \A s \in Session :
          /\ pc[s] = "rates" => AllClosed(s)
          /\ \A f \in Pool :
                /\ rowLock[f] = s /\ store[f] = "locked" => AllClosed(s)
                /\ (\E p \in Period : ~Closed(p)) /\ cache[s][f] = "locked"
                      => rowLock[f] = s /\ store[f] = "locked"
                /\ pc[s] = "rates" /\ f \in job[s].rates => Visible(s, f) = "approved"
                /\ /\ \E p \in Period : ~Closed(p)
                   /\ AllClosed(s) /\ Visible(s, f) = "approved"
                   => \/ f \in job[s].approving
                      \/ pc[s] = "rates" /\ f \in job[s].rates
                      \/ pc[s] = "count"
                      \/ pc[s] = "chain" /\ job[s].then = "count"

CloseInv == TypeInv /\ IdleInv /\ StoreInv /\ ChainInv /\ ClosingInv /\ ReadingInv
              /\ GateInv /\ TieInv /\ LockingInv

-----------------------------------------------------------------------------
(* Types *)

\* Periods and pools are different rows, each with values of its own.
LEMMA Rows ==
    /\ \A f \in Pool : f \in Row /\ f \notin Period /\ RowOf(f) = {"pending", "approved", "locked"}
    /\ \A p \in Period : p \in Row /\ p \notin Pool /\ RowOf(p) = PeriodRow
  BY PeriodAssumption DEF Row, RowOf

\* No postings are totals.
LEMMA NoPostingsType == NoPostings \in Totals
  BY DEF NoPostings, Totals, Zero

\* What a session sees has its type.
LEMMA VisibleType ==
    ASSUME TypeInv, NEW s \in Session
    PROVE  /\ \A x \in Row : Visible(s, x) \in RowOf(x) /\ Loaded(s, x) \in RowOf(x)
           /\ \A b \in Book, p \in Period : VisibleTotals(s, b, p) \in [Contract -> Int]
<1>1. \A x \in Row : Visible(s, x) \in RowOf(x) /\ Loaded(s, x) \in RowOf(x)
  BY DEF TypeInv, Visible, Loaded
<1>2. ASSUME NEW b \in Book, NEW p \in Period PROVE VisibleTotals(s, b, p) \in [Contract -> Int]
  <2>1. ledger[b][p] \in [Contract -> Int] /\ posted[s][b][p] \in [Contract -> Int]
    BY DEF TypeInv, Totals
  <2> QED
    BY <2>1 DEF VisibleTotals
<1> QED
  BY <1>1, <1>2

\* A loaded row in the identity map, or a job, of the right type.
LEMMA CacheType ==
    ASSUME TypeInv, NEW s \in Session, NEW x \in Row, NEW row \in RowOf(x),
           cache' = [cache EXCEPT ![s][x] = row]
    PROVE  /\ DOMAIN cache' = Session
           /\ \A t \in Session :
                /\ DOMAIN cache'[t] = Row
                /\ \A y \in Row : cache'[t][y] # NotLoaded => cache'[t][y] \in RowOf(y)
  BY DEF TypeInv

\* An update of a row leaves the types.
LEMMA UpdateType ==
    ASSUME TypeInv, NEW s \in Session, NEW x \in Row, NEW row \in RowOf(x), Update(s, x, row)
    PROVE  /\ DOMAIN store' = Row
           /\ \A y \in Row : store'[y] \in RowOf(y)
           /\ rowLock' \in [Row -> Session \union {NoSession}]
  BY DEF TypeInv, Update

\* The updates of a job.
LEMMA JobType ==
    ASSUME NEW j \in Job
    PROVE  /\ \A n \in {"open", "count"} : [j EXCEPT !.then = n] \in Job
           /\ \A q \in [Book -> [Contract -> Int]] : [j EXCEPT !.seen = q] \in Job
           /\ \A R \in SUBSET Pool : [j EXCEPT !.rates = R] \in Job
           /\ \A A \in SUBSET Pool : [j EXCEPT !.approving = A] \in Job
           /\ \A C \in SUBSET Period : [j EXCEPT !.closing = C] \in Job
<1>1. ASSUME NEW n \in {"open", "count"} PROVE [j EXCEPT !.then = n] \in Job
  <2>1. [j EXCEPT !.then = n] = [period |-> j.period, seen |-> j.seen, then |-> n,
                                   rates |-> j.rates, closing |-> j.closing, approving |-> j.approving]
    BY DEF Job
  <2> QED
    BY <2>1 DEF Job
<1>2. ASSUME NEW q \in [Book -> [Contract -> Int]] PROVE [j EXCEPT !.seen = q] \in Job
  <2>1. [j EXCEPT !.seen = q] = [period |-> j.period, seen |-> q, then |-> j.then,
                                   rates |-> j.rates, closing |-> j.closing, approving |-> j.approving]
    BY DEF Job
  <2> QED
    BY <2>1 DEF Job
<1>3. ASSUME NEW R \in SUBSET Pool PROVE [j EXCEPT !.rates = R] \in Job
  <2>1. [j EXCEPT !.rates = R] = [period |-> j.period, seen |-> j.seen, then |-> j.then,
                                   rates |-> R, closing |-> j.closing, approving |-> j.approving]
    BY DEF Job
  <2> QED
    BY <2>1 DEF Job
<1>4. ASSUME NEW A \in SUBSET Pool PROVE [j EXCEPT !.approving = A] \in Job
  <2>1. [j EXCEPT !.approving = A] = [period |-> j.period, seen |-> j.seen, then |-> j.then,
                                   rates |-> j.rates, closing |-> j.closing, approving |-> A]
    BY DEF Job
  <2> QED
    BY <2>1 DEF Job
<1>5. ASSUME NEW C \in SUBSET Period PROVE [j EXCEPT !.closing = C] \in Job
  <2>1. [j EXCEPT !.closing = C] = [period |-> j.period, seen |-> j.seen, then |-> j.then,
                                   rates |-> j.rates, closing |-> C, approving |-> j.approving]
    BY DEF Job
  <2> QED
    BY <2>1 DEF Job
<1> QED
  BY <1>1, <1>2, <1>3, <1>4, <1>5

\* A job that is done is a job.
LEMMA DoneType ==
    ASSUME NEW j \in Job
    PROVE  /\ Done(j) \in Job /\ Done(j).then = "open"
           /\ Done(j).closing = j.closing /\ Done(j).approving = j.approving
<1>1. j.closing \in SUBSET Period /\ j.approving \in SUBSET Pool
  BY DEF Job
<1>2. Done(j) = [period |-> NotLoaded, seen |-> [b \in Book |-> Zero], then |-> "open",
                 rates |-> {}, closing |-> j.closing, approving |-> j.approving]
  <2>1. PICK i : i = [period |-> NotLoaded, seen |-> [b \in Book |-> Zero], then |-> "open",
                      rates |-> {}, closing |-> j.closing, approving |-> {}]
    OBVIOUS
  <2>2. [Idle EXCEPT !.closing = j.closing] = i
    BY <2>1 DEF Idle
  <2>3. Done(j) = [i EXCEPT !.approving = j.approving]
    BY <2>2 DEF Done
  <2> QED
    BY <2>1, <2>3
<1>3. [b \in Book |-> Zero] \in [Book -> [Contract -> Int]]
  BY DEF Zero
<1> QED
  BY <1>1, <1>2, <1>3 DEF Job

\* All state starts with its type.
LEMMA TypeInit == Init => TypeInv
<1> SUFFICES ASSUME Init PROVE TypeInv
  OBVIOUS
<1>1. ledger \in Totals /\ posted \in [Session -> Totals]
  BY NoPostingsType DEF Init
<1>2. ASSUME NEW x \in Row PROVE db[x] \in RowOf(x)
  BY DEF Init, Row, RowOf, PeriodRow
<1>3. Idle \in Job
  BY DEF Idle, Job, Zero
<1>4. job \in [Session -> Job]
  BY <1>3 DEF Init
<1> QED
  BY <1>1, <1>2, <1>4 DEF Init, TypeInv

-----------------------------------------------------------------------------
(* Steps that leave the rows and the books alone *)

\* What such a step leaves as it is.
Still == UNCHANGED <<backend, ledger, posted, db, store, rowLock, raced>>

\* Sessions see the same while neither rows nor postings nor locks change.
LEMMA StillFacts ==
    ASSUME Still
    PROVE  /\ \A s \in Session, x \in Row : Visible(s, x)' = Visible(s, x)
           /\ \A s \in Session : AllClosed(s)' <=> AllClosed(s)
           /\ \A s \in Session, b \in Book, p \in Period : VisibleTotals(s, b, p)' = VisibleTotals(s, b, p)
           /\ \A p \in Period : (Closed(p)' <=> Closed(p)) /\ (Ties(p)' <=> Ties(p))
  BY DEF Still, Visible, VisibleTotals, Closed, Ties, AllClosed

\* A step of one session's identity map between operations.
LEMMA CacheStep ==
    ASSUME CloseInv, Still, UNCHANGED <<chainLock, pc, job>>, NEW s \in Session, Ready(s),
           DOMAIN cache' = Session, \A t \in Session : DOMAIN cache'[t] = Row,
           \A t \in Session \ {s} : cache'[t] = cache[t],
           \A x \in Row : \/ cache'[s][x] \in {cache[s][x], Visible(s, x)}
                          \/ cache'[s][x] = NotLoaded /\ pc[s] = "idle"
    PROVE  CloseInv'
<1>0. TypeInv /\ IdleInv /\ StoreInv /\ ChainInv /\ ClosingInv /\ ReadingInv /\ GateInv /\ TieInv /\ LockingInv
  BY DEF CloseInv
<1>1. TypeInv'
  <2>1. \A x \in Row : cache'[s][x] # NotLoaded => cache'[s][x] \in RowOf(x)
    BY <1>0, VisibleType DEF TypeInv
  <2>2. \A t \in Session : \A x \in Row : cache'[t][x] # NotLoaded => cache'[t][x] \in RowOf(x)
    BY <1>0, <2>1 DEF TypeInv
  <2> QED
    BY <1>0, <2>2 DEF TypeInv, Still
<1>2. IdleInv' /\ StoreInv' /\ ChainInv' /\ GateInv'
  BY <1>0 DEF IdleInv, StoreInv, ChainInv, GateInv, Closed, Still
<1>3. TieInv'
  BY <1>0, StillFacts DEF TieInv, Still, Book
<1>4. ReadingInv'
  BY <1>0 DEF ReadingInv, Ready, Reading
<1>5. ClosingInv'
  <2>1. ASSUME NEW p \in Period, rowLock[p] = s, store[p].status = "closed", ~Closed(p),
               cache'[s][p] # NotLoaded
        PROVE  cache'[s][p].status = "closed"
    <3>1. Visible(s, p) = store[p] /\ pc[s] # "idle"
      BY <2>1, <1>0, Rows DEF Visible, IdleInv
    <3> QED
      BY <2>1, <3>1, <1>0, Rows DEF ClosingInv
  <2> QED
    BY <1>0, <2>1 DEF ClosingInv, Still, Closed
<1>6. LockingInv'
  <2>1. ASSUME NEW f \in Pool, \E p \in Period : ~Closed(p), cache'[s][f] = "locked"
        PROVE  rowLock[f] = s /\ store[f] = "locked"
    BY <2>1, <1>0, Rows, RowAssumption DEF LockingInv, Visible
  <2>2. \A t \in Session, f \in Pool : (\E p \in Period : ~Closed(p)) /\ cache'[t][f] = "locked"
          => rowLock[f] = t /\ store[f] = "locked"
    BY <1>0, <2>1 DEF LockingInv
  <2> QED
    BY <1>0, <2>2, StillFacts, Rows DEF LockingInv, Still
<1> QED
  BY <1>1, <1>2, <1>3, <1>4, <1>5, <1>6 DEF CloseInv

\* A query keeps the invariant.
LEMMA LoadInv ==
    ASSUME CloseInv, NEW s \in Session, NEW x \in Row, Load(s, x)
    PROVE  CloseInv'
<1>1. /\ DOMAIN cache' = Session /\ \A t \in Session : DOMAIN cache'[t] = Row
      /\ \A t \in Session \ {s} : cache'[t] = cache[t]
      /\ \A y \in Row : cache'[s][y] \in {cache[s][y], Visible(s, y)}
  BY DEF CloseInv, TypeInv, Load
<1> QED
  BY <1>1, CacheStep DEF Load, Still

\* The end of a session keeps the invariant.
LEMMA EndSessionInv ==
    ASSUME CloseInv, NEW s \in Session, EndSession(s)
    PROVE  CloseInv'
<1>1. /\ DOMAIN cache' = Session /\ \A t \in Session : DOMAIN cache'[t] = Row
      /\ \A t \in Session \ {s} : cache'[t] = cache[t]
      /\ \A y \in Row : cache'[s][y] = NotLoaded
  BY DEF CloseInv, TypeInv, EndSession
<1> QED
  BY <1>1, CacheStep DEF EndSession, Still, Ready

\* The start of close_period keeps the invariant.
LEMMA StartCloseInv ==
    ASSUME CloseInv, NEW s \in Session, NEW p \in Period, StartClose(s, p)
    PROVE  CloseInv'
<1>0. TypeInv /\ IdleInv /\ StoreInv /\ ChainInv /\ ClosingInv /\ ReadingInv /\ GateInv /\ TieInv /\ LockingInv
  BY DEF CloseInv
<1>1. Still /\ chainLock' = chainLock /\ Ready(s) /\ Loaded(s, p).status # "closed" /\ p \in Row
  BY Rows DEF StartClose, Still
<1>2. /\ DOMAIN cache' = Session /\ \A t \in Session : DOMAIN cache'[t] = Row
      /\ \A t \in Session \ {s} : cache'[t] = cache[t] /\ pc'[t] = pc[t] /\ job'[t] = job[t]
      /\ \A y \in Row \ {p} : cache'[s][y] = cache[s][y]
      /\ cache'[s][p] = Loaded(s, p) /\ pc'[s] = "gl"
      /\ job'[s].period = p /\ job'[s].closing = job[s].closing \union {p}
      /\ job'[s].approving = job[s].approving
  BY <1>0, <1>1 DEF TypeInv, StartClose, Job
<1>3. Loaded(s, p) \in PeriodRow
  BY <1>0, VisibleType, Rows
<1>4. TypeInv'
  <2>1. job' \in [Session -> Job]
    <3>1. [job[s] EXCEPT !.period = p, !.closing = @ \union {p}] \in Job
      BY ZenonT(60), <1>0 DEF TypeInv, Job
    <3>2. job' = [job EXCEPT ![s] = [job[s] EXCEPT !.period = p, !.closing = @ \union {p}]]
      BY <1>0 DEF TypeInv, StartClose
    <3> QED
      BY <1>0, <3>1, <3>2 DEF TypeInv
  <2>2. pc' \in [Session -> {"idle", "open", "chain", "count", "rates"} \union Reading]
    BY <1>0 DEF StartClose, TypeInv, Reading
  <2>3. cache' = [cache EXCEPT ![s][p] = Loaded(s, p)]
    BY DEF StartClose
  <2>4. \A t \in Session : \A y \in Row : cache'[t][y] # NotLoaded => cache'[t][y] \in RowOf(y)
    <3>1. Loaded(s, p) \in RowOf(p)
      BY <1>3, Rows
    <3> QED
      BY <1>0, <1>1, <3>1, <2>3, CacheType
  <2> QED
    BY <1>0, <1>1, <1>2, <2>1, <2>2, <2>4 DEF TypeInv, Still
<1>5. IdleInv' /\ StoreInv' /\ ChainInv' /\ GateInv'
  BY <1>0, <1>1, <1>2 DEF IdleInv, StoreInv, ChainInv, GateInv, Closed, Still, Ready
<1>6. TieInv'
  BY <1>0, <1>1, <1>2, StillFacts DEF TieInv, Still, Book
<1>7. ReadingInv'
  BY <1>0, <1>1, <1>2, <1>3 DEF ReadingInv, PeriodRow
<1>8. ClosingInv'
  <2>1. ASSUME NEW q \in Period, rowLock[q] = s, store[q].status = "closed", ~Closed(q)
        PROVE  q # p /\ chainLock = s
    BY <2>1, <1>0, <1>1 DEF ClosingInv, Loaded, Visible, Ready
  <2> QED
    BY <1>0, <1>1, <1>2, <2>1, Rows DEF ClosingInv, Still, Closed
<1>9. LockingInv'
  BY <1>0, <1>1, <1>2, StillFacts, Rows DEF LockingInv, Still, Ready
<1> QED
  BY <1>4, <1>5, <1>6, <1>7, <1>8, <1>9 DEF CloseInv

-----------------------------------------------------------------------------
(* The initial state, postings and readings *)

\* The invariant holds at the start.
LEMMA InitInv == Init => CloseInv
<1> SUFFICES ASSUME Init PROVE CloseInv
  OBVIOUS
<1>1. TypeInv
  BY TypeInit
<1>2. /\ \A s \in Session : /\ pc[s] = "idle" /\ job[s] = Idle /\ posted[s] = NoPostings
                            /\ \A x \in Row : cache[s][x] = NotLoaded
      /\ chainLock = NoSession /\ store = db /\ ledger = NoPostings
      /\ \A x \in Row : rowLock[x] = NoSession
      /\ \A p \in Period : ~Closed(p)
      /\ \A f \in Pool : db[f] = "pending"
  BY Rows DEF Init, Closed
<1>3. \A s \in Session : s # NoSession
  BY SessionAssumption
<1>4. \A b \in Book, p \in Period : NoPostings[b][p] = Zero
  BY DEF NoPostings
<1>5. IdleInv /\ StoreInv
  BY <1>2, <1>3, Rows DEF IdleInv, StoreInv, Idle
<1>6. ChainInv /\ GateInv
  BY <1>2, <1>3, <1>4, Rows DEF ChainInv, GateInv, Book
<1>7. ClosingInv /\ ReadingInv
  BY <1>2, <1>3, Rows DEF ClosingInv, ReadingInv, Reading
<1>8. TieInv
  BY <1>2, <1>3, Rows DEF TieInv
<1>9. LockingInv
  <2>1. \A s \in Session, f \in Pool : Visible(s, f) = "pending" /\ cache[s][f] = NotLoaded
    BY <1>2, <1>3, Rows DEF Visible
  <2> QED
    BY <1>2, <1>3, <2>1, Rows, RowAssumption DEF LockingInv
<1> QED
  BY <1>1, <1>5, <1>6, <1>7, <1>8, <1>9 DEF CloseInv

\* A posting the gate let through keeps the invariant.
LEMMA PostInv ==
    ASSUME CloseInv, NEW s \in Session, NEW b \in Book, NEW p \in Period, NEW c \in Contract,
           NEW a \in Int, Post(s, b, p, c, a), b # "billed" => GateOpenPeriod(s, p),
           DOMAIN cache' = Session, \A t \in Session : DOMAIN cache'[t] = Row,
           \A t \in Session \ {s} : cache'[t] = cache[t],
           \A x \in Row : cache'[s][x] \in {cache[s][x], Visible(s, x)}
    PROVE  CloseInv'
<1>0. TypeInv /\ IdleInv /\ StoreInv /\ ChainInv /\ ClosingInv /\ ReadingInv /\ GateInv /\ TieInv /\ LockingInv
  BY DEF CloseInv
<1>1. /\ UNCHANGED <<backend, ledger, db, store, rowLock, job, raced>>
      /\ pc[s] \in {"idle", "open"} /\ pc'[s] = "chain"
      /\ \A t \in Session \ {s} : pc'[t] = pc[t]
      /\ pc' \in [Session -> {"idle", "open", "chain", "count", "rates"} \union Reading]
  BY <1>0 DEF TypeInv, Post, Ready
<1>2. /\ posted' \in [Session -> Totals]
      /\ \A t \in Session, e \in Book, q \in Period :
            <<t, e, q>> # <<s, b, p>> => posted'[t][e][q] = posted[t][e][q]
  <2>1. posted' = [posted EXCEPT ![s][b][p][c] = posted[s][b][p][c] + a]
    BY DEF Post
  <2>2. posted \in [Session -> [Book -> [Period -> [Contract -> Int]]]]
    BY <1>0 DEF TypeInv, Totals
  <2>3. posted[s][b][p][c] + a \in Int
    BY <2>2
  <2> QED
    BY <2>1, <2>2, <2>3 DEF Totals
<1>3. /\ \A t \in Session, x \in Row : Visible(t, x)' = Visible(t, x)
      /\ \A t \in Session : AllClosed(t)' <=> AllClosed(t)
      /\ \A q \in Period : (Closed(q)' <=> Closed(q)) /\ (Ties(q)' <=> Ties(q))
  BY <1>1 DEF Visible, AllClosed, Closed, Ties
<1>4. ASSUME NEW t \in Session, NEW e \in Book, NEW q \in Period, <<t, e, q>> # <<s, b, p>>
      PROVE  VisibleTotals(t, e, q)' = VisibleTotals(t, e, q)
  BY <1>1, <1>2, <1>4 DEF VisibleTotals
<1>5. /\ chainLock' = IF backend = "sqlite" THEN s ELSE chainLock
      /\ backend = "sqlite" => chainLock \in {NoSession, s}
  BY DEF Post, BeginDML
<1>6. b # "billed" => ~Closed(p) /\ ~(rowLock[p] = s /\ store[p].status = "closed")
  BY <1>0 DEF GateOpenPeriod, Visible, Closed, StoreInv
<1>7. TypeInv'
  <2>1. \A x \in Row : cache'[s][x] # NotLoaded => cache'[s][x] \in RowOf(x)
    BY <1>0, VisibleType DEF TypeInv
  <2>2. \A t \in Session : \A x \in Row : cache'[t][x] # NotLoaded => cache'[t][x] \in RowOf(x)
    BY <1>0, <2>1 DEF TypeInv
  <2> QED
    BY <1>0, <1>1, <1>2, <1>5, <2>2 DEF TypeInv
<1>8. IdleInv' /\ StoreInv'
  <2>1. \A t \in Session \ {s} : posted[t] \in Totals /\ posted'[t] = posted[t]
    BY <1>0 DEF Post, TypeInv
  <2> QED
    BY <1>0, <1>1, <1>3, <1>5, <2>1 DEF IdleInv, StoreInv
<1>9. ChainInv'
  BY <1>0, <1>1, <1>2, <1>5, SessionAssumption DEF ChainInv
<1>10. ClosingInv'
  <2>1. ASSUME NEW q \in Period, rowLock[q] = s, store[q].status = "closed", ~Closed(q),
               cache'[s][q] # NotLoaded
        PROVE  cache'[s][q].status = "closed"
    <3>1. Visible(s, q) = store[q]
      BY <2>1 DEF Visible
    <3> QED
      BY <2>1, <3>1, <1>0, Rows DEF ClosingInv
  <2>2. ASSUME NEW t \in Session, NEW q \in Period, rowLock[q] = t, chainLock = t
        PROVE  chainLock' = t
    BY <1>5, <2>2, SessionAssumption
  <2> QED
    BY <1>0, <1>1, <1>3, <2>1, <2>2 DEF ClosingInv
<1>11. ReadingInv'
  BY <1>0, <1>1 DEF ReadingInv, Reading
<1>12. GateInv'
  BY <1>0, <1>1, <1>2, <1>3, <1>6 DEF GateInv, Book
<1>13. TieInv'
  BY <1>0, <1>1, <1>3, <1>4, <1>6 DEF TieInv, Book
<1>14. LockingInv'
  <2>1. ASSUME NEW f \in Pool, \E q \in Period : ~Closed(q), cache'[s][f] = "locked"
        PROVE  rowLock[f] = s /\ store[f] = "locked"
    BY <2>1, <1>0, Rows DEF LockingInv, Visible
  <2>2. \A t \in Session, f \in Pool : (\E q \in Period : ~Closed(q)) /\ cache'[t][f] = "locked"
          => rowLock[f] = t /\ store[f] = "locked"
    BY <1>0, <2>1 DEF LockingInv
  <2> QED
    BY <1>0, <1>1, <2>2, <1>3, Rows DEF LockingInv
<1> QED
  BY <1>7, <1>8, <1>9, <1>10, <1>11, <1>12, <1>13, <1>14 DEF CloseInv

\* A journal entry keeps the invariant.
LEMMA PostEntryInv ==
    ASSUME CloseInv, NEW s \in Session, PostEntry(s)
    PROVE  CloseInv'
<1>1. PICK b \in {"gl", "jcl"} : \E p \in Period, c \in Contract, a \in Amount :
        /\ GateOpenPeriod(s, p) /\ cache' = [cache EXCEPT ![s][p] = Loaded(s, p)]
        /\ Post(s, b, p, c, a)
  BY DEF PostEntry
<1>2. PICK p \in Period, c \in Contract, a \in Amount :
        /\ GateOpenPeriod(s, p) /\ cache' = [cache EXCEPT ![s][p] = Loaded(s, p)]
        /\ Post(s, b, p, c, a)
  BY <1>1
<1>3. b \in Book /\ a \in Int /\ p \in Row
  BY AmountAssumption, Rows DEF Book
<1>4. /\ DOMAIN cache' = Session /\ \A t \in Session : DOMAIN cache'[t] = Row
      /\ \A t \in Session \ {s} : cache'[t] = cache[t]
      /\ \A x \in Row : cache'[s][x] \in {cache[s][x], Visible(s, x)}
  BY <1>2, <1>3 DEF CloseInv, TypeInv, Loaded
<1> QED
  BY <1>2, <1>3, <1>4, PostInv

\* A voucher keeps the invariant.
LEMMA PostVoucherInv ==
    ASSUME CloseInv, NEW s \in Session, PostVoucher(s)
    PROVE  CloseInv'
<1>1. PICK p \in Period, c \in Contract, a \in Amount : Post(s, "billed", p, c, a) /\ UNCHANGED cache
  BY DEF PostVoucher
<1>2. "billed" \in Book /\ a \in Int
  BY AmountAssumption DEF Book
<1>3. /\ DOMAIN cache' = Session /\ \A t \in Session : DOMAIN cache'[t] = Row
      /\ \A t \in Session \ {s} : cache'[t] = cache[t]
      /\ \A x \in Row : cache'[s][x] \in {cache[s][x], Visible(s, x)}
  BY <1>1 DEF CloseInv, TypeInv
<1> QED
  BY <1>1, <1>2, <1>3, PostInv

\* A SELECT of the reconciliation keeps the invariant.
LEMMA ReadTotalsInv ==
    ASSUME CloseInv, NEW s \in Session, NEW b \in Book, ReadTotals(s, b)
    PROVE  CloseInv'
<1>0. TypeInv /\ IdleInv /\ StoreInv /\ ChainInv /\ ClosingInv /\ ReadingInv /\ GateInv /\ TieInv /\ LockingInv
  BY DEF CloseInv
<1>1. Still /\ UNCHANGED <<cache, chainLock>> /\ pc[s] = b
  BY DEF ReadTotals, Still
<1>2. job[s].period \in Period /\ VisibleTotals(s, b, job[s].period) \in [Contract -> Int]
  BY <1>0, <1>1, VisibleType DEF ReadingInv, Reading, Book
<1>3. job' = [job EXCEPT ![s] = [job[s] EXCEPT !.seen = [job[s].seen EXCEPT ![b] = VisibleTotals(s, b, job[s].period)]]]
  BY <1>0 DEF ReadTotals, TypeInv, Job
<1>4. job' \in [Session -> Job]
  <2>1. [job[s].seen EXCEPT ![b] = VisibleTotals(s, b, job[s].period)] \in [Book -> [Contract -> Int]]
    BY <1>0, <1>2 DEF TypeInv, Job
  <2>2. [job[s] EXCEPT !.seen = [job[s].seen EXCEPT ![b] = VisibleTotals(s, b, job[s].period)]] \in Job
    BY <1>0, <2>1, JobType DEF TypeInv
  <2> QED
    BY <1>0, <1>3, <2>2 DEF TypeInv
<1>5. /\ \A t \in Session \ {s} : pc'[t] = pc[t] /\ job'[t] = job[t]
      /\ job'[s].period = job[s].period /\ job'[s].closing = job[s].closing
      /\ job'[s].approving = job[s].approving
      /\ job'[s].seen = [job[s].seen EXCEPT ![b] = VisibleTotals(s, b, job[s].period)]
      /\ pc'[s] = CASE b = "gl" -> "jcl" [] b = "jcl" -> "billed" [] OTHER -> "verdict"
      /\ DOMAIN job[s].seen = Book
  BY <1>0, <1>3 DEF TypeInv, Job, ReadTotals
<1>6. pc[s] \in Reading /\ pc'[s] \in Reading
      /\ pc' \in [Session -> {"idle", "open", "chain", "count", "rates"} \union Reading]
  BY <1>0, <1>1, <1>5 DEF TypeInv, ReadTotals, Reading, Book
<1>7. TypeInv'
  BY <1>0, <1>1, <1>4, <1>6 DEF TypeInv, Still
<1>8. IdleInv' /\ StoreInv' /\ ChainInv' /\ GateInv'
  BY <1>0, <1>1, <1>5, <1>6 DEF IdleInv, StoreInv, ChainInv, GateInv, Closed, Still, Reading
<1>9. TieInv'
  <2> DEFINE q == job[s].period
  <2>1. ASSUME NEW p \in Period \ raced, p = q
        PROVE  /\ pc'[s] \in {"jcl", "billed", "verdict"} => job'[s].seen["gl"] = VisibleTotals(s, "gl", p)
               /\ pc'[s] \in {"billed", "verdict"} => job'[s].seen["jcl"] = VisibleTotals(s, "jcl", p)
    <3>1. CASE b = "gl"
      BY <2>1, <3>1, <1>1, <1>5 DEF Book
    <3>2. CASE b = "jcl"
      BY <2>1, <3>2, <1>0, <1>1, <1>5 DEF TieInv, Book
    <3>3. CASE b = "billed"
      BY <2>1, <3>3, <1>0, <1>1, <1>5 DEF TieInv, Book
    <3> QED
      BY <3>1, <3>2, <3>3 DEF Book
  <2>2. "gl" \in Book /\ "jcl" \in Book
    BY DEF Book
  <2> QED
    BY <1>0, <1>1, <1>5, <2>1, <2>2, StillFacts DEF TieInv, Still
<1>10. ReadingInv'
  BY <1>0, <1>1, <1>5, <1>6 DEF ReadingInv
<1>11. ClosingInv'
  BY <1>0, <1>1, <1>5, <1>6 DEF ClosingInv, Still, Closed, Reading
<1>12. LockingInv'
  BY <1>0, <1>1, <1>5, <1>6, StillFacts, Rows DEF LockingInv, Still, Reading
<1> QED
  BY <1>7, <1>8, <1>9, <1>10, <1>11, <1>12 DEF CloseInv

\* Taking the chain's lock keeps the invariant.
LEMMA TakeChainInv ==
    ASSUME CloseInv, NEW s \in Session, TakeChain(s)
    PROVE  CloseInv'
<1>0. TypeInv /\ IdleInv /\ StoreInv /\ ChainInv /\ ClosingInv /\ ReadingInv /\ GateInv /\ TieInv /\ LockingInv
  BY DEF CloseInv
<1>1. /\ Still /\ cache' = cache /\ pc[s] = "chain" /\ chainLock' = s
      /\ \A t \in Session \ {s} : chainLock # t
  BY SessionAssumption DEF TakeChain, Still
<1>2. job' = [job EXCEPT ![s] = [job[s] EXCEPT !.then = "open"]]
  BY <1>0 DEF TakeChain, TypeInv
<1>3. [job[s] EXCEPT !.then = "open"] \in Job
  BY <1>0, JobType DEF TypeInv
<1>4. job' \in [Session -> Job]
  BY <1>0, <1>2, <1>3 DEF TypeInv
<1>5. /\ \A t \in Session \ {s} : pc'[t] = pc[t] /\ job'[t] = job[t]
      /\ job'[s].closing = job[s].closing /\ job'[s].approving = job[s].approving
      /\ pc'[s] = job[s].then /\ job[s].then \in {"open", "count"}
  BY <1>0, <1>2 DEF TypeInv, Job, TakeChain
<1>6. pc' \in [Session -> {"idle", "open", "chain", "count", "rates"} \union Reading]
  BY <1>0, <1>5 DEF TypeInv, TakeChain
<1>7. TypeInv'
  BY <1>0, <1>1, <1>4, <1>6 DEF TypeInv, Still
<1>8. IdleInv' /\ StoreInv' /\ GateInv'
  BY <1>0, <1>1, <1>5 DEF IdleInv, StoreInv, GateInv, Closed, Still
<1>9. ChainInv'
  BY <1>0, <1>1, <1>5 DEF ChainInv, Still
<1>10. TieInv'
  BY <1>0, <1>1, <1>5, StillFacts DEF TieInv, Still, Book
<1>11. ReadingInv'
  BY <1>0, <1>1, <1>5 DEF ReadingInv, Reading
<1>12. ClosingInv'
  BY <1>0, <1>1, <1>5 DEF ClosingInv, Still, Closed
<1>13. LockingInv'
  BY <1>0, <1>1, <1>5, StillFacts, Rows DEF LockingInv, Still
<1> QED
  BY <1>7, <1>8, <1>9, <1>10, <1>11, <1>12, <1>13 DEF CloseInv

\* Counting the open periods keeps the invariant.
LEMMA CountOpenInv ==
    ASSUME CloseInv, NEW s \in Session, CountOpen(s)
    PROVE  CloseInv'
<1>0. TypeInv /\ IdleInv /\ StoreInv /\ ChainInv /\ ClosingInv /\ ReadingInv /\ GateInv /\ TieInv /\ LockingInv
  BY DEF CloseInv
<1>1. Still /\ UNCHANGED <<cache, chainLock>> /\ pc[s] = "count" /\ chainLock = s
  BY <1>0 DEF CountOpen, Still, ChainInv
<1>r. PICK approved \in SUBSET Pool : approved = {f \in Pool : Visible(s, f) = "approved"}
  OBVIOUS
<1>2. [job[s] EXCEPT !.rates = approved] \in Job
  BY <1>0, JobType DEF TypeInv
<1>3. job' = job \/ job' = [job EXCEPT ![s] = [job[s] EXCEPT !.rates = approved]]
  BY <1>0, <1>r DEF CountOpen, TypeInv
<1>4. job' \in [Session -> Job]
  BY <1>0, <1>2, <1>3 DEF TypeInv
<1>5. /\ \A t \in Session \ {s} : pc'[t] = pc[t] /\ job'[t] = job[t]
      /\ job'[s].closing = job[s].closing /\ job'[s].approving = job[s].approving
      /\ \/ pc'[s] = "rates" /\ job'[s].rates = approved /\ AllClosed(s)
         \/ pc'[s] = "open" /\ ~AllClosed(s)
  <2>1. CASE FiscalYearFullyClosed(s)
    <3>1. job' = [job EXCEPT ![s] = [job[s] EXCEPT !.rates = approved]]
      BY <1>0, <1>r, <2>1 DEF CountOpen, TypeInv
    <3> QED
      BY <1>0, <2>1, <3>1 DEF TypeInv, Job, CountOpen, FiscalYearFullyClosed, AllClosed
  <2>2. CASE ~FiscalYearFullyClosed(s)
    BY <1>0, <2>2 DEF TypeInv, CountOpen, FiscalYearFullyClosed, AllClosed
  <2> QED
    BY <2>1, <2>2
<1>6. pc' \in [Session -> {"idle", "open", "chain", "count", "rates"} \union Reading]
  BY <1>0 DEF TypeInv, CountOpen
<1>7. TypeInv'
  BY <1>0, <1>1, <1>4, <1>6 DEF TypeInv, Still
<1>8. IdleInv' /\ StoreInv' /\ GateInv'
  BY <1>0, <1>1, <1>5 DEF IdleInv, StoreInv, GateInv, Closed, Still
<1>9. ChainInv'
  BY <1>0, <1>1, <1>5 DEF ChainInv, Still
<1>10. TieInv'
  BY <1>0, <1>1, <1>5, StillFacts DEF TieInv, Still, Book
<1>11. ReadingInv'
  BY <1>0, <1>1, <1>5 DEF ReadingInv, Reading
<1>12. ClosingInv'
  BY <1>0, <1>1, <1>5 DEF ClosingInv, Still, Closed
<1>13. LockingInv'
  <2>1. \A f \in Pool : f \in approved <=> Visible(s, f) = "approved"
    BY <1>r
  <2> QED
    BY <1>0, <1>1, <1>5, <2>1, StillFacts, Rows DEF LockingInv, Still
<1> QED
  BY <1>7, <1>8, <1>9, <1>10, <1>11, <1>12, <1>13 DEF CloseInv

-----------------------------------------------------------------------------
(* Updates of a row *)

\* What an update of a row changes.
LEMMA UpdateFacts ==
    ASSUME TypeInv, NEW s \in Session, NEW x \in Row, NEW row, Update(s, x, row),
           UNCHANGED <<ledger, posted, db>>
    PROVE  /\ rowLock[x] \in {NoSession, s} /\ rowLock'[x] = s /\ store'[x] = row
           /\ \A y \in Row \ {x} : rowLock'[y] = rowLock[y] /\ store'[y] = store[y]
           /\ Visible(s, x)' = row
           /\ \A t \in Session, y \in Row : y # x => Visible(t, y)' = Visible(t, y)
           /\ \A t \in Session \ {s}, y \in Row : Visible(t, y)' = Visible(t, y)
           /\ \A t \in Session, b \in Book, p \in Period : VisibleTotals(t, b, p)' = VisibleTotals(t, b, p)
           /\ \A p \in Period : (Closed(p)' <=> Closed(p)) /\ (Ties(p)' <=> Ties(p))
<1>1. /\ rowLock[x] \in {NoSession, s} /\ rowLock'[x] = s /\ store'[x] = row
      /\ \A y \in Row \ {x} : rowLock'[y] = rowLock[y] /\ store'[y] = store[y]
  BY DEF Update, TypeInv
<1>2. \A t \in Session \ {s} : rowLock[x] # t /\ rowLock'[x] # t
  BY <1>1, SessionAssumption
<1>3. \A t \in Session, y \in Row : y # x => Visible(t, y)' = Visible(t, y)
  BY <1>1 DEF Visible
<1>4. \A t \in Session \ {s} : Visible(t, x)' = Visible(t, x)
  BY <1>2 DEF Visible
<1>5. Visible(s, x)' = row
  BY <1>1 DEF Visible
<1> QED
  BY <1>1, <1>3, <1>4, <1>5 DEF VisibleTotals, Closed, Ties

\* What the first DML of a transaction locks.
LEMMA BeginFacts ==
    ASSUME TypeInv, ChainInv, NEW s \in Session, BeginDML(s)
    PROVE  /\ chainLock' \in Session \union {NoSession}
           /\ backend = "sqlite" => chainLock' = s
           /\ backend = "postgresql" => chainLock' = chainLock
           /\ chainLock = s => chainLock' = s
           /\ \A t \in Session \ {s} : chainLock' = t <=> chainLock = t
           /\ \A t \in Session \ {s} : backend = "sqlite" => chainLock # t
  BY SessionAssumption DEF BeginDML, TypeInv

\* The flush of the closed status keeps the invariant.
LEMMA ClosePassedInv ==
    ASSUME CloseInv, NEW s \in Session, ClosePassed(s)
    PROVE  CloseInv'
<1>0. TypeInv /\ IdleInv /\ StoreInv /\ ChainInv /\ ClosingInv /\ ReadingInv /\ GateInv /\ TieInv /\ LockingInv
  BY DEF CloseInv
<1>p. PICK p \in Period : p = job[s].period /\ p \in job[s].closing
  BY <1>0 DEF ReadingInv, Reading, ClosePassed
<1>1. /\ UNCHANGED <<backend, ledger, posted, db, raced>> /\ pc[s] = "verdict"
      /\ Reconciles(job[s].seen) /\ BeginDML(s) /\ Update(s, p, Passed(s, p))
      /\ cache' = [cache EXCEPT ![s][p] = [status |-> "closed", recon |-> "passed", closed_by |-> s]]
      /\ pc' = [pc EXCEPT ![s] = "chain"]
      /\ job' = [job EXCEPT ![s] = [Done(job[s]) EXCEPT !.then = "count"]]
  BY <1>0, <1>p DEF ClosePassed, TypeInv
<1>2. p \in Row /\ p \in job[s].closing /\ store[p] \in PeriodRow
  BY <1>0, <1>p, Rows DEF TypeInv
<1>3. Passed(s, p) \in RowOf(p) /\ Passed(s, p).status = "closed"
  BY <1>2, Rows DEF Passed, PeriodRow
<1>4. [status |-> "closed", recon |-> "passed", closed_by |-> s] \in RowOf(p)
  BY <1>2, Rows DEF PeriodRow
<1>5. /\ [Done(job[s]) EXCEPT !.then = "count"] \in Job
      /\ [Done(job[s]) EXCEPT !.then = "count"].closing = job[s].closing
      /\ [Done(job[s]) EXCEPT !.then = "count"].approving = job[s].approving
      /\ [Done(job[s]) EXCEPT !.then = "count"].then = "count"
  <2>1. job[s] \in Job
    BY <1>0 DEF TypeInv
  <2>2. PICK j \in Job : j = Done(job[s])
    BY <2>1, DoneType
  <2>3. [j EXCEPT !.then = "count"] \in Job
    BY JobType
  <2> QED
    BY <2>1, <2>2, <2>3, DoneType DEF Job
<1>6. /\ \A t \in Session \ {s} : pc'[t] = pc[t] /\ job'[t] = job[t] /\ cache'[t] = cache[t]
      /\ pc'[s] = "chain" /\ job'[s].closing = job[s].closing
      /\ job'[s].approving = job[s].approving /\ job'[s].then = "count"
      /\ cache'[s][p].status = "closed"
      /\ \A y \in Row \ {p} : cache'[s][y] = cache[s][y]
  BY <1>0, <1>1, <1>2, <1>5 DEF TypeInv
<1>7. TypeInv'
  <2>1. job' \in [Session -> Job] /\ pc' \in [Session -> {"idle", "open", "chain", "count", "rates"} \union Reading]
    BY <1>0, <1>1, <1>5 DEF TypeInv
  <2>2. DOMAIN cache' = Session /\ \A t \in Session :
            DOMAIN cache'[t] = Row /\ \A y \in Row : cache'[t][y] # NotLoaded => cache'[t][y] \in RowOf(y)
    BY <1>0, <1>1, <1>2, <1>4, CacheType
  <2>3. DOMAIN store' = Row /\ (\A y \in Row : store'[y] \in RowOf(y))
          /\ rowLock' \in [Row -> Session \union {NoSession}]
    BY <1>0, <1>1, <1>2, <1>3, UpdateType
  <2>4. chainLock' \in Session \union {NoSession}
    BY <1>0, <1>1, BeginFacts
  <2> QED
    BY <1>0, <1>1, <2>1, <2>2, <2>3, <2>4 DEF TypeInv
<1>8. /\ rowLock[p] \in {NoSession, s} /\ rowLock'[p] = s /\ store'[p] = Passed(s, p)
      /\ \A y \in Row \ {p} : rowLock'[y] = rowLock[y] /\ store'[y] = store[y]
      /\ Visible(s, p)' = Passed(s, p)
      /\ \A t \in Session, y \in Row : y # p => Visible(t, y)' = Visible(t, y)
      /\ \A t \in Session \ {s}, y \in Row : Visible(t, y)' = Visible(t, y)
      /\ \A t \in Session, b \in Book, q \in Period : VisibleTotals(t, b, q)' = VisibleTotals(t, b, q)
      /\ \A q \in Period : (Closed(q)' <=> Closed(q)) /\ (Ties(q)' <=> Ties(q))
  <2>1. Update(s, p, Passed(s, p)) /\ UNCHANGED <<ledger, posted, db>>
    BY <1>1
  <2> QED
    BY <1>0, <1>2, <2>1, UpdateFacts
<1>9. /\ backend = "sqlite" => chainLock' = s
      /\ backend = "postgresql" => chainLock' = chainLock
      /\ chainLock = s => chainLock' = s
      /\ \A t \in Session \ {s} : chainLock' = t <=> chainLock = t
      /\ \A t \in Session \ {s} : backend = "sqlite" => chainLock # t
  BY <1>0, <1>1, BeginFacts
<1>10. \A t \in Session : AllClosed(t) => AllClosed(t)'
  BY <1>2, <1>3, <1>8, Rows DEF AllClosed
<1>11. \A t \in Session \ {s} : AllClosed(t)' => AllClosed(t)
  BY <1>8, Rows DEF AllClosed
<1>12. IdleInv'
  BY <1>0, <1>1, <1>2, <1>6, <1>8, <1>9 DEF IdleInv
<1>13. StoreInv'
  BY <1>0, <1>1, <1>2, <1>3, <1>8, Rows, SessionAssumption DEF StoreInv
<1>14. ChainInv'
  <2>1. backend \in {"sqlite", "postgresql"}
    BY <1>0 DEF TypeInv
  <2> QED
    BY <1>0, <1>1, <1>2, <1>6, <1>8, <1>9, <2>1 DEF ChainInv
<1>15. ClosingInv'
  <2>1. ASSUME NEW q \in Period, rowLock'[q] = s, store'[q].status = "closed", ~Closed(q)'
        PROVE  q \in job'[s].closing /\ (cache'[s][q] # NotLoaded => cache'[s][q].status = "closed")
    BY <2>1, <1>0, <1>2, <1>6, <1>8, Rows DEF ClosingInv
  <2>2. ASSUME NEW t \in Session \ {s}, NEW q \in Period,
               rowLock'[q] = t, store'[q].status = "closed", ~Closed(q)'
        PROVE  /\ q \in job'[t].closing
               /\ cache'[t][q] # NotLoaded => cache'[t][q].status = "closed"
               /\ chainLock' = t \/ (pc'[t] = "chain" /\ job'[t].then = "count")
    BY <2>2, <1>0, <1>2, <1>6, <1>8, <1>9, Rows DEF ClosingInv
  <2> QED
    BY <1>6, <2>1, <2>2 DEF ClosingInv
<1>16. ReadingInv'
  BY <1>0, <1>6 DEF ReadingInv, Reading
<1>17. GateInv'
  BY <1>0, <1>1, <1>8 DEF GateInv
<1>18. TieInv'
  <2>0. "gl" \in Book /\ "jcl" \in Book
    BY DEF Book
  <2>1. p \notin raced => VisibleTotals(s, "gl", p) = VisibleTotals(s, "jcl", p)
    <3>1. SUFFICES ASSUME p \notin raced PROVE job[s].seen["gl"] = job[s].seen["jcl"]
      BY <1>0, <1>1, <1>p DEF TieInv
    <3>2. job[s].seen["gl"] \in [Contract -> Int] /\ job[s].seen["jcl"] \in [Contract -> Int]
      BY <1>0, <2>0 DEF TypeInv, Job
    <3> QED
      BY <1>1, <3>2 DEF Reconciles
  <2> QED
    BY <1>0, <1>1, <1>2, <1>6, <1>8, <2>0, <2>1, Rows DEF TieInv
<1>19. LockingInv'
  <2>1. \A f \in Pool : f \in Row \ {p}
    BY <1>2, Rows
  <2>2. \A f \in Pool, t \in Session : /\ rowLock'[f] = rowLock[f] /\ store'[f] = store[f]
            /\ cache'[t][f] = cache[t][f] /\ Visible(t, f)' = Visible(t, f)
    BY <2>1, <1>6, <1>8
  <2> QED
    BY <1>0, <1>1, <1>6, <1>8, <2>2, <1>10, <1>11 DEF LockingInv
<1> QED
  BY <1>7, <1>12, <1>13, <1>14, <1>15, <1>16, <1>17, <1>18, <1>19 DEF CloseInv

\* A session's verdict: the books do not tie, and its row says so already or is
\* updated to say so.
LEMMA CloseFailedInv ==
    ASSUME CloseInv, NEW s \in Session, CloseFailed(s)
    PROVE  CloseInv'
<1>0. TypeInv /\ IdleInv /\ StoreInv /\ ChainInv /\ ClosingInv /\ ReadingInv /\ GateInv /\ TieInv /\ LockingInv
  BY DEF CloseInv
<1>p. PICK p \in Period : p = job[s].period /\ p \in job[s].closing
  BY <1>0 DEF ReadingInv, Reading, CloseFailed
<1>1. /\ UNCHANGED <<backend, ledger, posted, db, raced>> /\ pc[s] = "verdict"
      /\ cache' = [cache EXCEPT ![s][p].recon = "failed"]
      /\ job' = [job EXCEPT ![s] = [Done(job[s]) EXCEPT !.closing = job[s].closing \ {p}]]
      /\ \/ /\ pc' = [pc EXCEPT ![s] = "open"]
            /\ UNCHANGED <<store, rowLock, chainLock>>
         \/ /\ BeginDML(s) /\ Update(s, p, Failed(p))
            /\ pc' = [pc EXCEPT ![s] = "chain"]
  <2>1. job' = [job EXCEPT ![s] = [Done(job[s]) EXCEPT !.closing = job[s].closing \ {p}]]
    BY <1>p DEF CloseFailed
  <2>2. cache' = [cache EXCEPT ![s][p].recon = "failed"]
    BY <1>p DEF CloseFailed
  <2>3. \/ /\ pc' = [pc EXCEPT ![s] = "open"]
           /\ UNCHANGED <<store, rowLock, chainLock>>
        \/ /\ BeginDML(s) /\ Update(s, p, Failed(p))
           /\ pc' = [pc EXCEPT ![s] = "chain"]
    BY <1>p DEF CloseFailed
  <2> QED
    BY <2>1, <2>2, <2>3 DEF CloseFailed
<1>2. p \in Row /\ store[p] \in PeriodRow /\ cache[s][p] \in PeriodRow /\ cache[s][p].status = "open"
  BY <1>0, <1>p, <1>1, Rows DEF TypeInv, ReadingInv, Reading
<1>3. Failed(p) \in RowOf(p) /\ Failed(p).status = store[p].status
  BY <1>2, Rows DEF Failed, PeriodRow
<1>4. PICK row \in RowOf(p) : row = [cache[s][p] EXCEPT !.recon = "failed"] /\ row.status = "open"
  <2>1. PICK c \in PeriodRow : c = cache[s][p] /\ c.status = "open"
    BY <1>2
  <2>2. [c EXCEPT !.recon = "failed"] \in PeriodRow /\ [c EXCEPT !.recon = "failed"].status = "open"
    BY <2>1 DEF PeriodRow
  <2> QED
    BY <2>1, <2>2, Rows
<1>5. cache' = [cache EXCEPT ![s][p] = row]
  BY <1>0, <1>1, <1>2, <1>4 DEF TypeInv
<1>6. PICK j \in Job : /\ j = [Done(job[s]) EXCEPT !.closing = job[s].closing \ {p}]
                       /\ j.closing = job[s].closing \ {p} /\ j.approving = job[s].approving
                       /\ j.then = "open"
  <2>1. job[s] \in Job
    BY <1>0 DEF TypeInv
  <2>2. PICK d \in Job : d = Done(job[s])
    BY <2>1, DoneType
  <2>3. job[s].closing \ {p} \in SUBSET Period
    BY <2>1 DEF Job
  <2>4. [d EXCEPT !.closing = job[s].closing \ {p}] \in Job
    BY <2>3, JobType
  <2> QED
    BY <2>1, <2>2, <2>4, DoneType DEF Job
<1>7. /\ \A t \in Session \ {s} : pc'[t] = pc[t] /\ job'[t] = job[t] /\ cache'[t] = cache[t]
      /\ pc'[s] \in {"open", "chain"} /\ job'[s] = j /\ cache'[s][p] = row
      /\ \A y \in Row \ {p} : cache'[s][y] = cache[s][y]
  BY <1>0, <1>1, <1>2, <1>5, <1>6 DEF TypeInv
\* What happens to the rows and to the chain's lock, in either case.
<1>8. /\ (rowLock'[p] \in {s, rowLock[p]} /\ rowLock[p] \in {NoSession, s}) \/ rowLock' = rowLock
      /\ store'[p].status = store[p].status
      /\ rowLock'[p] = NoSession => rowLock[p] = NoSession /\ store'[p] = store[p]
      /\ \A t \in Session \ {s} : rowLock'[p] = t <=> rowLock[p] = t
      /\ \A y \in Row \ {p} : rowLock'[y] = rowLock[y] /\ store'[y] = store[y]
      /\ \A t \in Session, y \in Row : y # p => Visible(t, y)' = Visible(t, y)
      /\ \A t \in Session : Visible(t, p)'.status = Visible(t, p).status
      /\ \A t \in Session, b \in Book, q \in Period : VisibleTotals(t, b, q)' = VisibleTotals(t, b, q)
      /\ \A q \in Period : (Closed(q)' <=> Closed(q)) /\ (Ties(q)' <=> Ties(q))
  <2>1. CASE UNCHANGED <<store, rowLock, chainLock>>
    BY <1>1, <2>1 DEF Visible, VisibleTotals, Closed, Ties
  <2>2. CASE Update(s, p, Failed(p))
    <3>1. Update(s, p, Failed(p)) /\ UNCHANGED <<ledger, posted, db>>
      BY <1>1, <2>2
    <3>2. /\ rowLock[p] \in {NoSession, s} /\ rowLock'[p] = s /\ store'[p] = Failed(p)
          /\ \A y \in Row \ {p} : rowLock'[y] = rowLock[y] /\ store'[y] = store[y]
          /\ Visible(s, p)' = Failed(p)
          /\ \A t \in Session, y \in Row : y # p => Visible(t, y)' = Visible(t, y)
          /\ \A t \in Session \ {s}, y \in Row : Visible(t, y)' = Visible(t, y)
          /\ \A t \in Session, b \in Book, q \in Period : VisibleTotals(t, b, q)' = VisibleTotals(t, b, q)
          /\ \A q \in Period : (Closed(q)' <=> Closed(q)) /\ (Ties(q)' <=> Ties(q))
      BY <1>0, <1>2, <3>1, UpdateFacts
    <3>3. Visible(s, p).status = store[p].status
      BY <1>0, <1>2, <3>2 DEF Visible, StoreInv
    <3>4. \A t \in Session : Visible(t, p)'.status = Visible(t, p).status
      BY <1>2, <1>3, <3>2, <3>3
    <3> QED
      BY <1>3, <3>2, <3>4, SessionAssumption
  <2> QED
    BY <1>1, <2>1, <2>2
<1>9. /\ chainLock' \in Session \union {NoSession}
      /\ chainLock = s => chainLock' = s
      /\ \A t \in Session \ {s} : chainLock' = t <=> chainLock = t
      /\ pc'[s] = "chain" /\ backend = "sqlite" => chainLock' = s
      /\ pc'[s] = "open" => chainLock' = chainLock /\ rowLock' = rowLock
  <2>1. CASE UNCHANGED <<store, rowLock, chainLock>> /\ pc' = [pc EXCEPT ![s] = "open"]
    BY <1>0, <2>1 DEF TypeInv
  <2>2. CASE BeginDML(s) /\ pc' = [pc EXCEPT ![s] = "chain"]
    BY <1>0, <2>2, BeginFacts DEF TypeInv
  <2> QED
    BY <1>1, <2>1, <2>2
<1>10. TypeInv'
  <2>1. job' \in [Session -> Job] /\ pc' \in [Session -> {"idle", "open", "chain", "count", "rates"} \union Reading]
    BY <1>0, <1>1, <1>6 DEF TypeInv
  <2>2. DOMAIN cache' = Session /\ \A t \in Session :
            DOMAIN cache'[t] = Row /\ \A y \in Row : cache'[t][y] # NotLoaded => cache'[t][y] \in RowOf(y)
    BY <1>0, <1>2, <1>4, <1>5, CacheType
  <2>3. DOMAIN store' = Row /\ (\A y \in Row : store'[y] \in RowOf(y))
          /\ rowLock' \in [Row -> Session \union {NoSession}]
    <3>1. CASE UNCHANGED <<store, rowLock, chainLock>>
      BY <1>0, <3>1 DEF TypeInv
    <3>2. CASE Update(s, p, Failed(p))
      BY <1>0, <1>2, <1>3, <3>2, UpdateType
    <3> QED
      BY <1>1, <3>1, <3>2
  <2> QED
    BY <1>0, <1>1, <1>9, <2>1, <2>2, <2>3 DEF TypeInv
<1>11. \A t \in Session : AllClosed(t)' <=> AllClosed(t)
  <2>1. \A t \in Session : \A q \in Period : Visible(t, q)'.status = Visible(t, q).status
    BY <1>8, Rows
  <2> QED
    BY <2>1 DEF AllClosed
<1>12. IdleInv'
  BY <1>0, <1>1, <1>2, <1>7, <1>8, <1>9 DEF IdleInv
<1>13. StoreInv'
  BY <1>0, <1>1, <1>2, <1>8, Rows DEF StoreInv
<1>14. ChainInv'
  <2>0. backend \in {"sqlite", "postgresql"}
    BY <1>0 DEF TypeInv
  <2>1. ASSUME NEW x \in Row, rowLock'[x] = s
        PROVE  chainLock' = s \/ (pc'[s] = "chain" /\ backend' = "postgresql")
    BY <2>0, <2>1, <1>0, <1>1, <1>7, <1>9 DEF ChainInv
  <2>2. ASSUME NEW t \in Session \ {s}, NEW x \in Row, rowLock'[x] = t
        PROVE  chainLock' = t \/ (pc'[t] = "chain" /\ backend' = "postgresql")
    BY <2>2, <1>0, <1>1, <1>2, <1>7, <1>8, <1>9 DEF ChainInv
  <2>3. \A t \in Session, b \in Book, q \in Period :
            posted[t][b][q] # Zero /\ backend = "sqlite" => chainLock' = t
    BY <1>0, <1>9 DEF ChainInv
  <2>4. \A t \in Session : pc'[t] \in {"count", "rates"} => chainLock' = t
    BY <1>0, <1>7, <1>9 DEF ChainInv
  <2> QED
    BY <1>1, <2>1, <2>2, <2>3, <2>4 DEF ChainInv
<1>15. ClosingInv'
  <2>1. ASSUME NEW q \in Period, rowLock'[q] = s, store'[q].status = "closed", ~Closed(q)'
        PROVE  /\ q \in job'[s].closing /\ (cache'[s][q] # NotLoaded => cache'[s][q].status = "closed")
               /\ chainLock' = s
    <3>1. ~Closed(q) /\ store[q].status = "closed"
      BY <2>1, <1>8, Rows
    <3>2. rowLock[q] = s
      BY <2>1, <3>1, <1>0, <1>2, <1>8, Rows, SessionAssumption DEF StoreInv, Closed
    <3>3. cache[s][q] # NotLoaded => cache[s][q].status = "closed"
      BY <3>1, <3>2, <1>0 DEF ClosingInv
    <3>4. cache[s][p] # NotLoaded
      BY <1>2, RowAssumption DEF PeriodRow
    <3>5. q # p
      BY <3>3, <3>4, <1>2
    <3> QED
      BY <3>1, <3>2, <3>3, <3>5, <1>0, <1>1, <1>6, <1>7, <1>9, Rows DEF ClosingInv
  <2>2. ASSUME NEW t \in Session \ {s}, NEW q \in Period,
               rowLock'[q] = t, store'[q].status = "closed", ~Closed(q)'
        PROVE  /\ q \in job'[t].closing
               /\ cache'[t][q] # NotLoaded => cache'[t][q].status = "closed"
               /\ chainLock' = t \/ (pc'[t] = "chain" /\ job'[t].then = "count")
    <3>1. rowLock[q] = t /\ store[q].status = "closed" /\ ~Closed(q)
      BY <2>2, <1>8, Rows
    <3> QED
      BY <3>1, <1>0, <1>7, <1>9, Rows DEF ClosingInv
  <2> QED
    BY <2>1, <2>2 DEF ClosingInv
<1>16. ReadingInv'
  BY <1>0, <1>7 DEF ReadingInv, Reading
<1>17. GateInv'
  BY <1>0, <1>1, <1>8 DEF GateInv
<1>18. TieInv'
  <2>0. "gl" \in Book /\ "jcl" \in Book
    BY DEF Book
  <2>1. ASSUME p \notin raced, rowLock'[p] = s, store'[p].status = "closed"
        PROVE  VisibleTotals(s, "gl", p) = VisibleTotals(s, "jcl", p)
    <3>1. CASE rowLock[p] = s
      BY <2>1, <3>1, <1>0, <1>8 DEF TieInv
    <3>2. CASE rowLock[p] = NoSession
      <4>1. Closed(p)
        BY <2>1, <3>2, <1>0, <1>2, <1>8 DEF StoreInv, Closed
      <4>2. posted[s]["gl"][p] = Zero /\ posted[s]["jcl"][p] = Zero
        BY <2>1, <4>1, <1>0 DEF GateInv
      <4> QED
        BY <2>1, <4>1, <4>2, <1>0 DEF TieInv, Ties, VisibleTotals
    <3> QED
      BY <2>1, <3>1, <3>2, <1>8
  <2>2. ASSUME NEW q \in Period \ raced, NEW t \in Session, rowLock'[q] = t, store'[q].status = "closed"
        PROVE  VisibleTotals(t, "gl", q) = VisibleTotals(t, "jcl", q)
    <3>1. (q = p /\ t = s) \/ (rowLock[q] = t /\ store[q].status = "closed")
      BY <2>2, <1>8, Rows
    <3> QED
      BY <2>1, <2>2, <3>1, <1>0 DEF TieInv
  <2> QED
    BY <1>0, <1>1, <1>7, <1>8, <2>0, <2>2 DEF TieInv
<1>19. LockingInv'
  <2>1. \A f \in Pool : f \in Row \ {p}
    BY <1>2, Rows
  <2>2. \A f \in Pool, t \in Session : /\ rowLock'[f] = rowLock[f] /\ store'[f] = store[f]
            /\ cache'[t][f] = cache[t][f] /\ Visible(t, f)' = Visible(t, f)
    BY <2>1, <1>7, <1>8
  <2> QED
    BY <1>0, <1>1, <1>6, <1>7, <1>8, <2>2, <1>11 DEF LockingInv
<1> QED
  BY <1>10, <1>12, <1>13, <1>14, <1>15, <1>16, <1>17, <1>18, <1>19 DEF CloseInv

\* A rate is locked or approved: what both updates of a pool do.
LEMMA PoolUpdateInv ==
    ASSUME CloseInv, NEW s \in Session, NEW f \in Pool, NEW row \in {"approved", "locked"},
           Update(s, f, row), UNCHANGED <<backend, ledger, posted, db, raced>>,
           cache' = [cache EXCEPT ![s][f] = row],
           pc[s] \notin Reading, pc'[s] \in {"chain", "rates"},
           \A t \in Session \ {s} : pc'[t] = pc[t] /\ job'[t] = job[t],
           pc' \in [Session -> {"idle", "open", "chain", "count", "rates"} \union Reading],
           job' \in [Session -> Job], job'[s].closing = job[s].closing,
           \/ BeginDML(s) /\ pc'[s] = "chain" /\ pc[s] # "chain"
           \/ chainLock' = s /\ chainLock = s,
           LockingInv'
    PROVE  CloseInv'
<1>0. TypeInv /\ IdleInv /\ StoreInv /\ ChainInv /\ ClosingInv /\ ReadingInv /\ GateInv /\ TieInv
  BY DEF CloseInv
<1>1. f \in Row /\ f \notin Period /\ row \in RowOf(f)
  BY Rows
<1>2. /\ rowLock[f] \in {NoSession, s} /\ rowLock'[f] = s /\ store'[f] = row
      /\ \A y \in Row \ {f} : rowLock'[y] = rowLock[y] /\ store'[y] = store[y]
      /\ \A t \in Session, b \in Book, p \in Period : VisibleTotals(t, b, p)' = VisibleTotals(t, b, p)
      /\ \A p \in Period : (Closed(p)' <=> Closed(p)) /\ (Ties(p)' <=> Ties(p))
  <2>1. UNCHANGED <<ledger, posted, db>>
    OBVIOUS
  <2> QED
    BY <1>0, <1>1, <2>1, UpdateFacts
<1>3. /\ \A t \in Session, y \in Row : y # f => cache'[t][y] = cache[t][y]
      /\ \A t \in Session : t # s => cache'[t] = cache[t]
  BY <1>0 DEF TypeInv
<1>4. /\ chainLock' \in Session \union {NoSession}
      /\ chainLock = s => chainLock' = s
      /\ \A t \in Session \ {s} : chainLock' = t <=> chainLock = t
      /\ backend = "sqlite" => chainLock' = s
      /\ chainLock' = s \/ pc'[s] = "chain"
  BY <1>0, BeginFacts DEF TypeInv
<1>5. TypeInv'
  <2>1. DOMAIN cache' = Session /\ \A t \in Session :
            DOMAIN cache'[t] = Row /\ \A y \in Row : cache'[t][y] # NotLoaded => cache'[t][y] \in RowOf(y)
    BY <1>0, <1>1, CacheType
  <2>2. DOMAIN store' = Row /\ (\A y \in Row : store'[y] \in RowOf(y))
          /\ rowLock' \in [Row -> Session \union {NoSession}]
    BY <1>0, <1>1, UpdateType
  <2> QED
    BY <1>0, <1>4, <2>1, <2>2 DEF TypeInv
<1>6. IdleInv'
  BY <1>0, <1>1, <1>2, <1>4, SessionAssumption DEF IdleInv
<1>7. StoreInv'
  BY <1>0, <1>1, <1>2, Rows, SessionAssumption DEF StoreInv
<1>8. ChainInv'
  <2>0. backend \in {"sqlite", "postgresql"}
    BY <1>0 DEF TypeInv
  <2>1. \A x \in Row : rowLock'[x] = s => chainLock' = s \/ (pc'[s] = "chain" /\ backend = "postgresql")
    BY <1>4, <2>0
  <2>2. ASSUME NEW t \in Session \ {s}, NEW x \in Row, rowLock'[x] = t
        PROVE  chainLock' = t \/ (pc'[t] = "chain" /\ backend = "postgresql")
    BY <2>2, <1>0, <1>1, <1>2, <1>4 DEF ChainInv
  <2>3. \A t \in Session, b \in Book, q \in Period :
            posted[t][b][q] # Zero /\ backend = "sqlite" => chainLock' = t
    BY <1>0, <1>4 DEF ChainInv
  <2>4. \A t \in Session : pc'[t] \in {"count", "rates"} => chainLock' = t
    BY <1>0, <1>4 DEF ChainInv
  <2> QED
    BY <2>1, <2>2, <2>3, <2>4 DEF ChainInv
<1>9. ClosingInv'
  <2>1. ASSUME NEW t \in Session, NEW q \in Period, rowLock'[q] = t, store'[q].status = "closed", ~Closed(q)'
        PROVE  /\ q \in job'[t].closing
               /\ cache'[t][q] # NotLoaded => cache'[t][q].status = "closed"
               /\ chainLock' = t \/ (pc'[t] = "chain" /\ job'[t].then = "count")
    <3>1. q \in Row \ {f}
      BY <1>1, Rows
    <3>2. rowLock[q] = t /\ store[q].status = "closed" /\ ~Closed(q) /\ cache'[t][q] = cache[t][q]
      BY <2>1, <3>1, <1>2, <1>3
    <3>3. pc[s] = "chain" => chainLock = s
      OBVIOUS
    <3> QED
      BY <3>2, <3>3, <1>0, <1>4 DEF ClosingInv
  <2> QED
    BY <2>1 DEF ClosingInv
<1>10. ReadingInv'
  <2>1. pc'[s] \notin Reading
    BY DEF Reading
  <2> QED
    BY <1>0, <1>3, <2>1 DEF ReadingInv
<1>11. GateInv'
  BY <1>0, <1>2 DEF GateInv
<1>12. TieInv'
  <2>1. \A p \in Period : p \in Row \ {f}
    BY <1>1, Rows
  <2>2. "gl" \in Book /\ "jcl" \in Book
    BY DEF Book
  <2> QED
    BY <1>0, <1>2, <2>1, <2>2 DEF TieInv
<1> QED
  BY <1>5, <1>6, <1>7, <1>8, <1>9, <1>10, <1>11, <1>12 DEF CloseInv

\* Locking the year's rates keeps the invariant.
LEMMA LockRatesInv ==
    ASSUME CloseInv, NEW s \in Session, LockRates(s)
    PROVE  CloseInv'
<1>0. TypeInv /\ IdleInv /\ StoreInv /\ ChainInv /\ ClosingInv /\ ReadingInv /\ GateInv /\ TieInv /\ LockingInv
  BY DEF CloseInv
<1>1. /\ UNCHANGED <<backend, ledger, posted, db, chainLock, raced>>
      /\ pc[s] = "rates" /\ chainLock = s /\ AllClosed(s)
  BY <1>0 DEF LockRates, ChainInv, LockingInv
<1>2. CASE job[s].rates = {} /\ pc' = [pc EXCEPT ![s] = "open"] /\ UNCHANGED <<store, rowLock, cache, job>>
  <2>1. Still /\ UNCHANGED <<cache, job, chainLock>>
    BY <1>1, <1>2 DEF Still
  <2>2. (\A t \in Session \ {s} : pc'[t] = pc[t]) /\ pc'[s] = "open"
    BY <1>0, <1>2 DEF TypeInv
  <2>3. TypeInv'
    BY <1>0, <1>2, <2>1 DEF TypeInv, Still
  <2>4. IdleInv' /\ StoreInv' /\ GateInv' /\ ChainInv'
    BY <1>0, <1>1, <2>1, <2>2 DEF IdleInv, StoreInv, GateInv, ChainInv, Closed, Still
  <2>5. TieInv'
    BY <1>0, <1>1, <2>1, <2>2, StillFacts DEF TieInv, Still, Book
  <2>6. ReadingInv' /\ ClosingInv'
    BY <1>0, <1>1, <2>1, <2>2 DEF ReadingInv, Reading, ClosingInv, Still, Closed
  <2>7. LockingInv'
    BY <1>0, <1>1, <1>2, <2>1, <2>2, StillFacts, Rows DEF LockingInv, Still
  <2> QED
    BY <2>3, <2>4, <2>5, <2>6, <2>7 DEF CloseInv
<1>3. ASSUME NEW f \in job[s].rates,
             IF cache[s][f] = "locked" THEN UNCHANGED <<store, rowLock>> ELSE Update(s, f, "locked"),
             cache' = [cache EXCEPT ![s][f] = "locked"],
             job' = [job EXCEPT ![s].rates = @ \ {f}], UNCHANGED pc
      PROVE  CloseInv'
  <2>1. f \in Pool /\ Visible(s, f) = "approved" /\ f \in Row /\ f \notin Period /\ "locked" \in RowOf(f)
    <3>1. f \in Pool
      BY <1>0, <1>3 DEF TypeInv, Job
    <3> QED
      BY <3>1, <1>0, <1>1, <1>3, Rows DEF LockingInv
  <2>2. PICK R \in SUBSET Pool : R = job[s].rates \ {f}
    BY <1>0 DEF TypeInv, Job
  <2>3. /\ job' \in [Session -> Job] /\ job'[s].closing = job[s].closing /\ job'[s].rates = R
        /\ job'[s].approving = job[s].approving /\ job'[s].then = job[s].then
        /\ \A t \in Session \ {s} : job'[t] = job[t]
    <3>1. PICK j \in Job : j = job[s]
      BY <1>0 DEF TypeInv
    <3>2. [j EXCEPT !.rates = R] \in Job
      BY JobType
    <3>3. job' = [job EXCEPT ![s] = [j EXCEPT !.rates = R]]
      BY <1>0, <1>3, <2>2, <3>1 DEF TypeInv
    <3> QED
      BY <1>0, <3>1, <3>2, <3>3 DEF TypeInv, Job
  <2>4. /\ \A t \in Session, y \in Row : y # f => cache'[t][y] = cache[t][y]
        /\ \A t \in Session : t # s => cache'[t] = cache[t]
        /\ cache'[s][f] = "locked"
    BY <1>0, <1>3, <2>1 DEF TypeInv
  <2>5. CASE cache[s][f] = "locked" /\ UNCHANGED <<store, rowLock>>
    <3>1. Still
      BY <1>1, <2>5 DEF Still
    <3>2. \A p \in Period : Closed(p)
      BY <2>1, <2>5, <1>0 DEF LockingInv, Visible
    <3>3. TypeInv'
      <4>1. DOMAIN cache' = Session /\ \A t \in Session :
            DOMAIN cache'[t] = Row /\ \A y \in Row : cache'[t][y] # NotLoaded => cache'[t][y] \in RowOf(y)
        BY <1>0, <1>3, <2>1, CacheType
      <4> QED
        BY <1>0, <1>1, <1>3, <2>3, <3>1, <4>1 DEF TypeInv, Still
    <3>4. IdleInv' /\ StoreInv' /\ GateInv' /\ ChainInv'
      BY <1>0, <1>1, <1>3, <2>3, <3>1 DEF IdleInv, StoreInv, GateInv, ChainInv, Closed, Still
    <3>5. TieInv'
      BY <1>0, <1>1, <1>3, <2>3, <3>1, StillFacts DEF TieInv, Still, Book
    <3>6. ReadingInv' /\ ClosingInv'
      BY <1>0, <1>1, <1>3, <2>3, <2>4, <3>1, <3>2 DEF ReadingInv, Reading, ClosingInv, Still, Closed
    <3>7. LockingInv'
      BY <1>0, <1>1, <1>3, <2>2, <2>3, <2>4, <3>1, <3>2, StillFacts, Rows DEF LockingInv, Still
    <3> QED
      BY <3>3, <3>4, <3>5, <3>6, <3>7 DEF CloseInv
  <2>6. CASE Update(s, f, "locked")
    <3>1. /\ rowLock[f] \in {NoSession, s} /\ rowLock'[f] = s /\ store'[f] = "locked"
          /\ \A y \in Row \ {f} : rowLock'[y] = rowLock[y] /\ store'[y] = store[y]
          /\ Visible(s, f)' = "locked"
          /\ \A t \in Session, y \in Row : y # f => Visible(t, y)' = Visible(t, y)
          /\ \A t \in Session \ {s}, y \in Row : Visible(t, y)' = Visible(t, y)
          /\ \A p \in Period : (Closed(p)' <=> Closed(p))
      <4>1. UNCHANGED <<ledger, posted, db>>
        BY <1>1
      <4> QED
        BY <1>0, <2>1, <2>6, <4>1, UpdateFacts
    <3>2. \A t \in Session : AllClosed(t)' <=> AllClosed(t)
      <4>1. \A p \in Period : p \in Row /\ p # f
        BY <2>1, Rows
      <4> QED
        BY <3>1, <4>1 DEF AllClosed
    <3>3. LockingInv'
      <4>1. \A t \in Session, g \in Pool : g # f =>
              /\ rowLock'[g] = rowLock[g] /\ store'[g] = store[g] /\ Visible(t, g)' = Visible(t, g)
              /\ cache'[t][g] = cache[t][g]
        BY <2>4, <3>1, Rows
      <4>2. \A t \in Session : t # s => /\ rowLock'[f] # t /\ rowLock[f] # t
              /\ Visible(t, f)' = Visible(t, f) /\ cache'[t][f] = cache[t][f]
        BY <2>1, <2>4, <3>1, SessionAssumption
      <4>3. ASSUME NEW t \in Session, pc'[t] = "rates"
            PROVE  AllClosed(t)'
        BY <1>0, <1>3, <3>2, <4>3 DEF LockingInv
      <4>4. ASSUME NEW t \in Session, NEW g \in Pool
            PROVE  /\ rowLock'[g] = t /\ store'[g] = "locked" => AllClosed(t)'
                   /\ (\E p \in Period : ~Closed(p)') /\ cache'[t][g] = "locked"
                          => rowLock'[g] = t /\ store'[g] = "locked"
                   /\ pc'[t] = "rates" /\ g \in job'[t].rates => Visible(t, g)' = "approved"
        <5>1. CASE g = f /\ t = s
          BY <5>1, <1>1, <2>2, <2>3, <3>1, <3>2
        <5>2. CASE g = f /\ t # s
          BY <5>2, <1>0, <1>3, <2>3, <3>1, <3>2, <4>2, SessionAssumption DEF LockingInv
        <5>3. CASE g # f
          BY <5>3, <1>0, <1>3, <2>2, <2>3, <3>1, <3>2, <4>1 DEF LockingInv
        <5> QED
          BY <5>1, <5>2, <5>3
      <4>5. ASSUME NEW t \in Session, NEW g \in Pool,
                   (\E p \in Period : ~Closed(p)') /\ AllClosed(t)' /\ Visible(t, g)' = "approved"
            PROVE  \/ g \in job'[t].approving
                   \/ pc'[t] = "rates" /\ g \in job'[t].rates
                   \/ pc'[t] = "count"
                   \/ pc'[t] = "chain" /\ job'[t].then = "count"
        <5>a. ~(t = s /\ g = f)
          BY <4>5, <3>1
        <5>b. Visible(t, g) = "approved"
          BY <4>5, <5>a, <4>1, <4>2
        <5>0. (\E p \in Period : ~Closed(p)) /\ AllClosed(t) /\ Visible(t, g) = "approved" /\ <<t, g>> # <<s, f>>
          BY <4>5, <5>a, <5>b, <3>1, <3>2
        <5>1. \/ g \in job[t].approving
              \/ pc[t] = "rates" /\ g \in job[t].rates
              \/ pc[t] = "count"
              \/ pc[t] = "chain" /\ job[t].then = "count"
          BY <5>0, <1>0 DEF LockingInv
        <5>2. CASE t # s
          BY <5>1, <5>2, <1>3, <2>3
        <5>3. CASE t = s
          BY <5>0, <5>1, <5>3, <1>1, <1>3, <2>2, <2>3
        <5> QED
          BY <5>2, <5>3
      <4>6. \A g \in Pool : db'[g] = "locked" => \A p \in Period : Closed(p)'
        BY <1>0, <1>1, <3>1 DEF LockingInv
      <4> QED
        BY <4>3, <4>4, <4>5, <4>6 DEF LockingInv
    <3>4. /\ pc[s] \notin Reading /\ pc'[s] \in {"chain", "rates"}
          /\ (\A t \in Session \ {s} : pc'[t] = pc[t] /\ job'[t] = job[t])
          /\ pc' \in [Session -> {"idle", "open", "chain", "count", "rates"} \union Reading]
          /\ chainLock' = s /\ chainLock = s
          /\ UNCHANGED <<backend, ledger, posted, db, raced>>
      BY <1>0, <1>1, <1>3, <2>3 DEF TypeInv, Reading
    <3> QED
      BY <1>3, <2>1, <2>3, <2>6, <3>3, <3>4, PoolUpdateInv
  <2> QED
    BY <1>3, <2>5, <2>6
<1> QED
  BY <1>2, <1>3 DEF LockRates

\* An approval keeps the invariant.
LEMMA ApproveRateInv ==
    ASSUME CloseInv, NEW s \in Session, NEW f \in Pool, ApproveRate(s, f)
    PROVE  CloseInv'
<1>0. TypeInv /\ IdleInv /\ StoreInv /\ ChainInv /\ ClosingInv /\ ReadingInv /\ GateInv /\ TieInv /\ LockingInv
  BY DEF CloseInv
<1>1. /\ UNCHANGED <<backend, ledger, posted, db, raced>> /\ pc[s] \in {"idle", "open"}
      /\ BeginDML(s) /\ Update(s, f, "approved") /\ cache' = [cache EXCEPT ![s][f] = "approved"]
      /\ pc' = [pc EXCEPT ![s] = "chain"]
      /\ job' = [job EXCEPT ![s].approving = @ \union {f}]
  BY DEF ApproveRate, Ready
<1>2. f \in Row /\ f \notin Period
  BY Rows
<1>3. /\ job' \in [Session -> Job] /\ job'[s].closing = job[s].closing
      /\ job'[s].approving = job[s].approving \union {f}
      /\ \A t \in Session \ {s} : job'[t] = job[t]
  <2>1. PICK j \in Job : j = job[s]
    BY <1>0 DEF TypeInv
  <2>2. PICK A \in SUBSET Pool : A = j.approving \union {f}
    BY DEF Job
  <2>3. [j EXCEPT !.approving = A] \in Job
    BY JobType
  <2>4. job' = [job EXCEPT ![s] = [j EXCEPT !.approving = A]]
    BY <1>0, <1>1, <2>1, <2>2 DEF TypeInv
  <2> QED
    BY <1>0, <2>1, <2>2, <2>3, <2>4 DEF TypeInv, Job
<1>4. /\ \A t \in Session, y \in Row : y # f => cache'[t][y] = cache[t][y]
      /\ \A t \in Session : t # s => cache'[t] = cache[t]
      /\ cache'[s][f] = "approved"
      /\ pc'[s] = "chain" /\ \A t \in Session \ {s} : pc'[t] = pc[t]
  BY <1>0, <1>1, <1>2 DEF TypeInv
<1>5. /\ rowLock[f] \in {NoSession, s} /\ rowLock'[f] = s /\ store'[f] = "approved"
      /\ \A y \in Row \ {f} : rowLock'[y] = rowLock[y] /\ store'[y] = store[y]
      /\ \A t \in Session, y \in Row : y # f => Visible(t, y)' = Visible(t, y)
      /\ \A t \in Session \ {s}, y \in Row : Visible(t, y)' = Visible(t, y)
      /\ \A p \in Period : (Closed(p)' <=> Closed(p))
  <2>1. UNCHANGED <<ledger, posted, db>>
    BY <1>1
  <2> QED
    BY <1>0, <1>1, <1>2, <2>1, UpdateFacts
<1>6. \A t \in Session : AllClosed(t)' <=> AllClosed(t)
  <2>1. \A p \in Period : p \in Row /\ p # f
    BY <1>2, Rows
  <2> QED
    BY <1>5, <2>1 DEF AllClosed
<1>7. LockingInv'
  <2>1. \A t \in Session, g \in Pool : g # f =>
          /\ rowLock'[g] = rowLock[g] /\ store'[g] = store[g] /\ Visible(t, g)' = Visible(t, g)
          /\ cache'[t][g] = cache[t][g]
    BY <1>4, <1>5, Rows
  <2>2. \A t \in Session : t # s => /\ rowLock'[f] # t /\ rowLock[f] # t
          /\ Visible(t, f)' = Visible(t, f) /\ cache'[t][f] = cache[t][f]
    BY <1>2, <1>4, <1>5, SessionAssumption
  <2>3. ASSUME NEW t \in Session, pc'[t] = "rates"
        PROVE  AllClosed(t)'
    BY <1>0, <1>4, <1>6, <2>3 DEF LockingInv
  <2>4. ASSUME NEW t \in Session, NEW g \in Pool
        PROVE  /\ rowLock'[g] = t /\ store'[g] = "locked" => AllClosed(t)'
               /\ (\E p \in Period : ~Closed(p)') /\ cache'[t][g] = "locked"
                      => rowLock'[g] = t /\ store'[g] = "locked"
               /\ pc'[t] = "rates" /\ g \in job'[t].rates => Visible(t, g)' = "approved"
    <3>1. CASE g = f /\ t = s
      BY <3>1, <1>4, <1>5
    <3>2. CASE g = f /\ t # s
      BY <3>2, <1>0, <1>3, <1>4, <1>5, <1>6, <2>2 DEF LockingInv
    <3>3. CASE g # f
      BY <3>3, <1>0, <1>3, <1>4, <1>5, <1>6, <2>1 DEF LockingInv
    <3> QED
      BY <3>1, <3>2, <3>3
  <2>5. ASSUME NEW t \in Session, NEW g \in Pool,
               (\E p \in Period : ~Closed(p)') /\ AllClosed(t)' /\ Visible(t, g)' = "approved"
        PROVE  \/ g \in job'[t].approving
               \/ pc'[t] = "rates" /\ g \in job'[t].rates
               \/ pc'[t] = "count"
               \/ pc'[t] = "chain" /\ job'[t].then = "count"
    <3>1. CASE g = f /\ t = s
      BY <3>1, <1>3
    <3>2. CASE t # s
      BY <3>2, <2>5, <1>0, <1>3, <1>4, <1>5, <1>6, Rows DEF LockingInv
    <3>3. CASE t = s /\ g # f
      <4>1. (\E p \in Period : ~Closed(p)) /\ AllClosed(s) /\ Visible(s, g) = "approved"
        BY <3>3, <2>5, <1>5, <1>6, <2>1
      <4>2. g \in job[s].approving
        BY <4>1, <1>0, <1>1 DEF LockingInv
      <4> QED
        BY <3>3, <4>2, <1>3
    <3> QED
      BY <3>1, <3>2, <3>3
  <2>6. \A g \in Pool : db'[g] = "locked" => \A p \in Period : Closed(p)'
    BY <1>0, <1>1, <1>5 DEF LockingInv
  <2> QED
    BY <2>3, <2>4, <2>5, <2>6 DEF LockingInv
<1>8. /\ pc[s] \notin Reading /\ pc'[s] \in {"chain", "rates"} /\ pc'[s] = "chain" /\ pc[s] # "chain"
      /\ \A t \in Session \ {s} : pc'[t] = pc[t] /\ job'[t] = job[t]
      /\ UNCHANGED <<backend, ledger, posted, db, raced>> /\ BeginDML(s) /\ "approved" \in {"approved", "locked"}
      /\ pc' \in [Session -> {"idle", "open", "chain", "count", "rates"} \union Reading]
  BY <1>0, <1>1, <1>3, <1>4 DEF TypeInv, Reading
<1> QED
  BY <1>1, <1>3, <1>7, <1>8, PoolUpdateInv

-----------------------------------------------------------------------------
(* The end of a transaction *)

\* What the end of a transaction releases.
LEMMA ReleaseFacts ==
    ASSUME TypeInv, NEW s \in Session, Release(s)
    PROVE  /\ posted' \in [Session -> Totals] /\ posted'[s] = NoPostings
           /\ \A t \in Session \ {s} : posted'[t] = posted[t]
           /\ rowLock' \in [Row -> Session \union {NoSession}]
           /\ \A x \in Row : rowLock'[x] = IF rowLock[x] = s THEN NoSession ELSE rowLock[x]
           /\ \A x \in Row : rowLock'[x] # s
           /\ \A t \in Session \ {s}, x \in Row : rowLock'[x] = t <=> rowLock[x] = t
           /\ chainLock' \in Session \union {NoSession} /\ chainLock' # s
           /\ \A t \in Session \ {s} : chainLock' = t <=> chainLock = t
           /\ pc' \in [Session -> {"idle", "open", "chain", "count", "rates"} \union Reading]
           /\ pc'[s] = "idle" /\ \A t \in Session \ {s} : pc'[t] = pc[t]
           /\ job' \in [Session -> Job] /\ job'[s].closing = {}
           /\ \A t \in Session \ {s} : job'[t] = job[t]
           /\ \A b \in Book, p \in Period : posted'[s][b][p] = Zero
<1>1. Idle \in Job /\ Idle.closing = {}
  BY DEF Idle, Job, Zero
<1>2. posted' \in [Session -> Totals] /\ posted'[s] = NoPostings
        /\ \A t \in Session \ {s} : posted'[t] = posted[t]
  BY NoPostingsType DEF TypeInv, Release
<1>3. /\ rowLock' \in [Row -> Session \union {NoSession}]
      /\ \A x \in Row : rowLock'[x] = IF rowLock[x] = s THEN NoSession ELSE rowLock[x]
      /\ \A x \in Row : rowLock'[x] # s
      /\ \A t \in Session \ {s}, x \in Row : rowLock'[x] = t <=> rowLock[x] = t
      /\ chainLock' \in Session \union {NoSession} /\ chainLock' # s
      /\ \A t \in Session \ {s} : chainLock' = t <=> chainLock = t
  BY SessionAssumption DEF TypeInv, Release
<1>4. /\ pc' \in [Session -> {"idle", "open", "chain", "count", "rates"} \union Reading]
      /\ pc'[s] = "idle" /\ \A t \in Session \ {s} : pc'[t] = pc[t]
  BY DEF TypeInv, Release
<1>5. /\ job' \in [Session -> Job] /\ job'[s].closing = {}
      /\ \A t \in Session \ {s} : job'[t] = job[t]
  BY <1>1 DEF TypeInv, Release
<1>6. \A b \in Book, p \in Period : posted'[s][b][p] = Zero
  BY <1>2 DEF NoPostings
<1> QED
  BY <1>2, <1>3, <1>4, <1>5, <1>6

\* A rollback keeps the invariant.
LEMMA RollbackInv ==
    ASSUME CloseInv, NEW s \in Session, Rollback(s)
    PROVE  CloseInv'
<1>0. TypeInv /\ IdleInv /\ StoreInv /\ ChainInv /\ ClosingInv /\ ReadingInv /\ GateInv /\ TieInv /\ LockingInv
  BY DEF CloseInv
<1>1. /\ UNCHANGED <<backend, ledger, db, raced>>
      /\ DOMAIN store' = Row
      /\ \A x \in Row : store'[x] = IF rowLock[x] = s THEN db[x] ELSE store[x]
      /\ DOMAIN cache' = Session /\ DOMAIN cache'[s] = Row
      /\ \A x \in Row : cache'[s][x] = NotLoaded
      /\ \A t \in Session \ {s} : cache'[t] = cache[t]
  BY <1>0 DEF Rollback, TypeInv
<1>2. /\ posted' \in [Session -> Totals] /\ posted'[s] = NoPostings
      /\ \A t \in Session \ {s} : posted'[t] = posted[t]
      /\ rowLock' \in [Row -> Session \union {NoSession}]
      /\ \A x \in Row : rowLock'[x] = IF rowLock[x] = s THEN NoSession ELSE rowLock[x]
      /\ \A x \in Row : rowLock'[x] # s
      /\ \A t \in Session \ {s}, x \in Row : rowLock'[x] = t <=> rowLock[x] = t
      /\ chainLock' \in Session \union {NoSession} /\ chainLock' # s
      /\ \A t \in Session \ {s} : chainLock' = t <=> chainLock = t
      /\ pc' \in [Session -> {"idle", "open", "chain", "count", "rates"} \union Reading]
      /\ pc'[s] = "idle" /\ \A t \in Session \ {s} : pc'[t] = pc[t]
      /\ job' \in [Session -> Job] /\ job'[s].closing = {}
      /\ \A t \in Session \ {s} : job'[t] = job[t]
      /\ \A b \in Book, p \in Period : posted'[s][b][p] = Zero
  BY <1>0, ReleaseFacts DEF Rollback
<1>3. /\ \A t \in Session \ {s}, x \in Row : Visible(t, x)' = Visible(t, x)
      /\ \A x \in Row : Visible(s, x)' = db[x]
      /\ \A t \in Session \ {s}, b \in Book, p \in Period : VisibleTotals(t, b, p)' = VisibleTotals(t, b, p)
      /\ \A p \in Period : (Closed(p)' <=> Closed(p)) /\ (Ties(p)' <=> Ties(p))
  BY <1>1, <1>2 DEF Visible, VisibleTotals, Closed, Ties
<1>4. \A t \in Session \ {s} : AllClosed(t)' <=> AllClosed(t)
  BY <1>3, Rows DEF AllClosed
<1>5. AllClosed(s)' => \A p \in Period : Closed(p)
  BY <1>3, Rows DEF AllClosed, Closed
<1>6. TypeInv'
  BY <1>0, <1>1, <1>2 DEF TypeInv
<1>7. IdleInv'
  BY <1>0, <1>2 DEF IdleInv
<1>8. StoreInv'
  BY <1>0, <1>1, <1>2, <1>3, Rows, SessionAssumption DEF StoreInv, Closed
<1>9. ChainInv'
  BY <1>0, <1>1, <1>2 DEF ChainInv
<1>10. ClosingInv'
  BY <1>0, <1>1, <1>2, <1>3, Rows DEF ClosingInv
<1>11. ReadingInv'
  BY <1>0, <1>1, <1>2 DEF ReadingInv, Reading
<1>12. GateInv'
  BY <1>0, <1>1, <1>2, <1>3 DEF GateInv, Book
<1>13. TieInv'
  BY <1>0, <1>1, <1>2, <1>3, Rows DEF TieInv, Book
<1>14. LockingInv'
  BY <1>0, <1>1, <1>2, <1>3, <1>4, <1>5, Rows, RowAssumption DEF LockingInv
<1> QED
  BY <1>6, <1>7, <1>8, <1>9, <1>10, <1>11, <1>12, <1>13, <1>14 DEF CloseInv

\* What a committing transaction posted to a book of a period is what that total
\* changes by.
LEMMA CommitTotals ==
    ASSUME TypeInv, NEW s \in Session, Commit(s), NEW b \in Book, NEW p \in Period
    PROVE  /\ ledger'[b][p] = VisibleTotals(s, b, p)
           /\ posted[s][b][p] = Zero => ledger'[b][p] = ledger[b][p]
<1>1. ledger'[b][p] = VisibleTotals(s, b, p)
  BY DEF Commit
<1>2. ASSUME posted[s][b][p] = Zero PROVE VisibleTotals(s, b, p) = ledger[b][p]
  <2>1. ledger[b][p] \in [Contract -> Int]
    BY DEF TypeInv, Totals
  <2>2. \A c \in Contract : ledger[b][p][c] + posted[s][b][p][c] = ledger[b][p][c]
    BY <1>2, <2>1 DEF Zero
  <2> QED
    BY <2>1, <2>2 DEF VisibleTotals
<1> QED
  BY <1>1, <1>2

\* A commit keeps the invariant.
LEMMA CommitInv ==
    ASSUME CloseInv, NEW s \in Session, Commit(s)
    PROVE  CloseInv'
<1>0. TypeInv /\ IdleInv /\ StoreInv /\ ChainInv /\ ClosingInv /\ ReadingInv /\ GateInv /\ TieInv /\ LockingInv
  BY DEF CloseInv
<1>1. /\ UNCHANGED <<backend, store, cache>> /\ pc[s] = "open"
      /\ DOMAIN db' = Row /\ \A x \in Row : db'[x] = Visible(s, x)
      /\ raced \subseteq raced' /\ raced' \subseteq Period
      /\ \A p \in Period, t \in Session \ {s} :
            (Touches(s, p) /\ p \in job[t].closing) \/ (Touches(t, p) /\ p \in job[s].closing) => p \in raced'
  BY <1>0 DEF Commit, TypeInv
<1>2. /\ posted' \in [Session -> Totals] /\ posted'[s] = NoPostings
      /\ \A t \in Session \ {s} : posted'[t] = posted[t]
      /\ rowLock' \in [Row -> Session \union {NoSession}]
      /\ \A x \in Row : rowLock'[x] = IF rowLock[x] = s THEN NoSession ELSE rowLock[x]
      /\ \A x \in Row : rowLock'[x] # s
      /\ \A t \in Session \ {s}, x \in Row : rowLock'[x] = t <=> rowLock[x] = t
      /\ chainLock' \in Session \union {NoSession} /\ chainLock' # s
      /\ \A t \in Session \ {s} : chainLock' = t <=> chainLock = t
      /\ pc' \in [Session -> {"idle", "open", "chain", "count", "rates"} \union Reading]
      /\ pc'[s] = "idle" /\ \A t \in Session \ {s} : pc'[t] = pc[t]
      /\ job' \in [Session -> Job] /\ job'[s].closing = {}
      /\ \A t \in Session \ {s} : job'[t] = job[t]
      /\ \A b \in Book, p \in Period : posted'[s][b][p] = Zero
  BY <1>0, ReleaseFacts DEF Commit
\* Only a holder of the chain's lock commits rows.
<1>3. \A x \in Row : rowLock[x] = s => chainLock = s
  BY <1>0, <1>1 DEF ChainInv
<1>4. \A x \in Row : rowLock[x] # s => db'[x] = db[x]
  BY <1>1 DEF Visible
<1>5. \A x \in Row : rowLock[x] = s => db'[x] = store[x]
  BY <1>1 DEF Visible
<1>6. /\ \A p \in Period : Closed(p) => Closed(p)'
      /\ \A p \in Period : Closed(p)' /\ ~Closed(p) => rowLock[p] = s /\ store[p].status = "closed"
      /\ \A p \in Period : rowLock[p] # s => (Closed(p)' <=> Closed(p))
  BY <1>0, <1>4, <1>5, Rows DEF Closed, StoreInv
<1>7. ASSUME NEW t \in Session \ {s}, NEW x \in Row
      PROVE  /\ rowLock[x] # s => Visible(t, x)' = Visible(t, x)
             /\ rowLock[x] = s => Visible(t, x) = db[x] /\ Visible(t, x)' = store[x]
  BY <1>1, <1>2, <1>4, <1>5, SessionAssumption DEF Visible
<1>8. \A x \in Row : Visible(s, x)' = db'[x]
  BY <1>2 DEF Visible
<1>9. AllClosed(s)' => \A p \in Period : Closed(p)'
  BY <1>8, Rows DEF AllClosed, Closed
<1>10. AllClosed(s) => \A p \in Period : Closed(p)'
  BY <1>1, Rows DEF AllClosed, Closed
<1>11. ASSUME NEW t \in Session \ {s}, AllClosed(t)
       PROVE  AllClosed(t)'
  <2>1. ASSUME NEW p \in Period PROVE Visible(t, p)'.status = "closed"
    <3>1. Visible(t, p).status = "closed" /\ p \in Row
      BY <1>11, Rows DEF AllClosed
    <3>2. CASE rowLock[p] = s
      BY <3>1, <3>2, <1>0, <1>7 DEF StoreInv, Closed
    <3>3. CASE rowLock[p] # s
      BY <3>1, <3>3, <1>7
    <3> QED
      BY <3>2, <3>3
  <2> QED
    BY <2>1 DEF AllClosed
<1>12. ASSUME NEW t \in Session, NEW p \in Period
       PROVE  /\ Touches(s, p) /\ t # s /\ p \in job[t].closing => p \in raced'
              /\ Touches(t, p) /\ t # s /\ p \in job[s].closing => p \in raced'
  BY <1>1
<1>13. TypeInv'
  <2>1. ledger' \in Totals
    <3>1. \A b \in Book, p \in Period : VisibleTotals(s, b, p) \in [Contract -> Int]
      BY <1>0, VisibleType
    <3>2. ledger' = [b \in Book |-> [p \in Period |-> VisibleTotals(s, b, p)]]
      BY DEF Commit
    <3> QED
      BY <3>1, <3>2 DEF Totals
  <2>2. \A x \in Row : db'[x] \in RowOf(x)
    BY <1>0, <1>1, VisibleType
  <2> QED
    BY <1>0, <1>1, <1>2, <2>1, <2>2 DEF TypeInv
<1>14. IdleInv'
  BY <1>0, <1>2 DEF IdleInv
<1>15. StoreInv'
  <2>1. \A x \in Row : rowLock'[x] = NoSession => store[x] = db'[x]
    BY <1>0, <1>2, <1>4, <1>5 DEF StoreInv
  <2>2. \A p \in Period : Closed(p)' => store[p].status = "closed"
    BY <1>0, <1>6, Rows DEF StoreInv
  <2>3. \A f \in Pool : db'[f] # "pending" => store[f] # "pending"
    BY <1>0, <1>4, <1>5, Rows DEF StoreInv
  <2> QED
    BY <1>1, <2>1, <2>2, <2>3 DEF StoreInv
<1>16. ChainInv'
  BY <1>0, <1>1, <1>2 DEF ChainInv
<1>17. ClosingInv'
  <2>1. ASSUME NEW t \in Session, NEW p \in Period, rowLock'[p] = t, store[p].status = "closed", ~Closed(p)'
        PROVE  t # s /\ rowLock[p] = t /\ ~Closed(p)
    BY <2>1, <1>2, <1>6, Rows
  <2> QED
    BY <2>1, <1>0, <1>1, <1>2 DEF ClosingInv
<1>18. ReadingInv'
  BY <1>0, <1>1, <1>2 DEF ReadingInv, Reading
<1>19. GateInv'
  <2>1. ASSUME NEW t \in Session, NEW b \in {"gl", "jcl"}, NEW p \in Period,
               posted'[t][b][p] # Zero, Closed(p)'
        PROVE  backend = "postgresql" /\ p \in raced'
    <3>1. b \in Book /\ t # s /\ posted[t][b][p] # Zero
      BY <2>1, <1>2 DEF Book
    <3>2. CASE Closed(p)
      BY <2>1, <3>1, <3>2, <1>0, <1>1 DEF GateInv
    <3>3. CASE ~Closed(p)
      <4>1. rowLock[p] = s /\ store[p].status = "closed" /\ p \in job[s].closing /\ chainLock = s
        BY <2>1, <3>3, <1>0, <1>3, <1>6, Rows DEF ClosingInv
      <4>2. Touches(t, p)
        BY <3>1 DEF Touches
      <4>3. backend # "sqlite"
        BY <3>1, <4>1, <1>0 DEF ChainInv
      <4> QED
        BY <3>1, <4>1, <4>2, <4>3, <1>0, <1>12 DEF TypeInv
    <3> QED
      BY <3>2, <3>3
  <2> QED
    BY <1>1, <2>1 DEF GateInv
<1>20. TieInv'
  <2>0. "gl" \in Book /\ "jcl" \in Book
    BY DEF Book
  <2>1. ASSUME NEW p \in Period \ raced', Closed(p)'
        PROVE  Ties(p)'
    <3>1. p \notin raced /\ p \in Row
      BY <1>1, Rows
    <3>2. CASE Closed(p)
      <4>1. posted[s]["gl"][p] = Zero /\ posted[s]["jcl"][p] = Zero
        BY <3>1, <3>2, <1>0 DEF GateInv
      <4>2. ledger'["gl"][p] = ledger["gl"][p] /\ ledger'["jcl"][p] = ledger["jcl"][p]
        BY <4>1, <2>0, <1>0, CommitTotals
      <4> QED
        BY <3>1, <3>2, <4>2, <1>0 DEF TieInv, Ties
    <3>3. CASE ~Closed(p)
      <4>1. rowLock[p] = s /\ store[p].status = "closed"
        BY <2>1, <3>3, <1>6
      <4>2. VisibleTotals(s, "gl", p) = VisibleTotals(s, "jcl", p)
        BY <3>1, <4>1, <1>0 DEF TieInv
      <4>3. ledger'["gl"][p] = VisibleTotals(s, "gl", p) /\ ledger'["jcl"][p] = VisibleTotals(s, "jcl", p)
        BY <2>0, <1>0, CommitTotals
      <4> QED
        BY <4>2, <4>3 DEF Ties
    <3> QED
      BY <3>2, <3>3
  \* What another session closes, this transaction has not posted to.
  <2>2. ASSUME NEW p \in Period \ raced', NEW t \in Session \ {s}, NEW b \in {"gl", "jcl"},
               p \in job[t].closing \/ Closed(p)
        PROVE  VisibleTotals(t, b, p)' = VisibleTotals(t, b, p)
    <3>1. b \in Book /\ p \notin raced
      BY <1>1 DEF Book
    <3>2. posted[s][b][p] = Zero
      <4>1. CASE p \in job[t].closing
        BY <4>1, <3>1, <1>12 DEF Touches
      <4>2. CASE Closed(p)
        BY <4>2, <3>1, <1>0 DEF GateInv
      <4> QED
        BY <2>2, <4>1, <4>2
    <3>3. ledger'[b][p] = ledger[b][p] /\ posted'[t][b][p] = posted[t][b][p]
      BY <3>1, <3>2, <1>0, <1>2, CommitTotals
    <3> QED
      BY <3>3 DEF VisibleTotals
  <2>3. ASSUME NEW p \in Period \ raced', NEW t \in Session, pc'[t] \in Reading, job'[t].period = p
        PROVE  /\ t # s /\ pc'[t] = pc[t] /\ job'[t] = job[t] /\ p \notin raced
               /\ VisibleTotals(t, "gl", p)' = VisibleTotals(t, "gl", p)
               /\ VisibleTotals(t, "jcl", p)' = VisibleTotals(t, "jcl", p)
    <3>1. t # s /\ pc'[t] = pc[t] /\ job'[t] = job[t] /\ p \notin raced
      BY <2>3, <1>1, <1>2 DEF Reading
    <3>2. p \in job[t].closing
      BY <2>3, <3>1, <1>0 DEF ReadingInv
    <3> QED
      BY <3>1, <3>2, <2>2
  <2>4. ASSUME NEW p \in Period \ raced', NEW t \in Session, rowLock'[p] = t, store[p].status = "closed"
        PROVE  VisibleTotals(t, "gl", p)' = VisibleTotals(t, "jcl", p)'
    <3>1. t # s /\ rowLock[p] = t /\ p \notin raced
      BY <2>4, <1>1, <1>2, Rows
    <3>2. p \in job[t].closing \/ Closed(p)
      BY <2>4, <3>1, <1>0 DEF ClosingInv
    <3>3. VisibleTotals(t, "gl", p) = VisibleTotals(t, "jcl", p)
      BY <2>4, <3>1, <1>0 DEF TieInv
    <3> QED
      BY <3>1, <3>2, <3>3, <2>2
  <2>5. ASSUME NEW p \in Period \ raced', NEW t \in Session
        PROVE  /\ pc'[t] \in {"jcl", "billed", "verdict"} /\ job'[t].period = p
                    => job'[t].seen["gl"] = VisibleTotals(t, "gl", p)'
               /\ pc'[t] \in {"billed", "verdict"} /\ job'[t].period = p
                    => job'[t].seen["jcl"] = VisibleTotals(t, "jcl", p)'
    <3>1. CASE pc'[t] \in Reading /\ job'[t].period = p
      <4>1. /\ pc'[t] = pc[t] /\ job'[t] = job[t] /\ p \in Period \ raced
            /\ VisibleTotals(t, "gl", p)' = VisibleTotals(t, "gl", p)
            /\ VisibleTotals(t, "jcl", p)' = VisibleTotals(t, "jcl", p)
        BY <3>1, <2>3
      <4> QED
        BY <4>1, <1>0 DEF TieInv
    <3>2. CASE ~(pc'[t] \in Reading /\ job'[t].period = p)
      BY <3>2 DEF Reading
    <3> QED
      BY <3>1, <3>2
  <2> QED
    BY <1>1, <2>1, <2>4, <2>5 DEF TieInv
<1>21. LockingInv'
  <2>1. ASSUME NEW f \in Pool, db'[f] = "locked"
        PROVE  \A p \in Period : Closed(p)'
    <3>1. CASE rowLock[f] = s
      <4>1. store[f] = "locked" /\ AllClosed(s)
        BY <2>1, <3>1, <1>0, <1>5, Rows DEF LockingInv
      <4> QED
        BY <4>1, <1>10
    <3>2. CASE rowLock[f] # s
      BY <2>1, <3>2, <1>0, <1>4, <1>6, Rows DEF LockingInv
    <3> QED
      BY <3>1, <3>2
  <2>2. ASSUME NEW t \in Session, NEW f \in Pool
        PROVE  /\ pc'[t] = "rates" => AllClosed(t)'
               /\ rowLock'[f] = t /\ store[f] = "locked" => AllClosed(t)'
    <3>1. f \in Row
      BY Rows
    <3>2. ASSUME pc'[t] = "rates" PROVE AllClosed(t)'
      BY <3>2, <1>0, <1>2, <1>11 DEF LockingInv
    <3>3. ASSUME rowLock'[f] = t, store[f] = "locked" PROVE AllClosed(t)'
      <4>1. t # s /\ rowLock[f] = t
        BY <3>1, <3>3, <1>2
      <4>2. AllClosed(t)
        BY <3>3, <4>1, <1>0 DEF LockingInv
      <4> QED
        BY <4>1, <4>2, <1>11
    <3> QED
      BY <3>2, <3>3
  <2>3. ASSUME NEW t \in Session, pc'[t] = "rates"
        PROVE  AllClosed(t)'
    BY <2>3, <1>0, <1>2, <1>11 DEF LockingInv
  <2>4. ASSUME NEW t \in Session, NEW f \in Pool, \E p \in Period : ~Closed(p)', cache[t][f] = "locked"
        PROVE  rowLock'[f] = t /\ store[f] = "locked"
    <3>1. \E p \in Period : ~Closed(p)
      BY <2>4, <1>6
    <3>2. rowLock[f] = t /\ store[f] = "locked" /\ AllClosed(t)
      BY <2>4, <3>1, <1>0 DEF LockingInv
    <3>3. t # s
      BY <2>4, <3>2, <1>10
    <3> QED
      BY <3>2, <3>3, <1>2, Rows
  <2>5. ASSUME NEW t \in Session, NEW f \in Pool, pc'[t] = "rates", f \in job'[t].rates
        PROVE  Visible(t, f)' = "approved"
    <3>1. t # s /\ pc[t] = "rates" /\ f \in job[t].rates /\ chainLock = t
      BY <2>5, <1>0, <1>2 DEF ChainInv
    <3>2. Visible(t, f) = "approved" /\ rowLock[f] # s
      BY <3>1, <1>0, <1>3, Rows DEF LockingInv
    <3> QED
      BY <3>1, <3>2, <1>7, Rows
  <2>6. ASSUME NEW t \in Session, NEW f \in Pool, \E p \in Period : ~Closed(p)',
               AllClosed(t)', Visible(t, f)' = "approved"
        PROVE  \/ f \in job'[t].approving
               \/ pc'[t] = "rates" /\ f \in job'[t].rates
               \/ pc'[t] = "count"
               \/ pc'[t] = "chain" /\ job'[t].then = "count"
    <3>1. t # s
      BY <2>6, <1>9
    <3>2. PICK q \in Period : ~Closed(q)'
      BY <2>6
    <3>3. Visible(t, q)'.status = "closed"
      BY <2>6 DEF AllClosed
    <3>4. rowLock'[q] = t /\ store'[q].status = "closed"
      BY <3>2, <3>3, <1>2 DEF Visible, Closed
    <3>5. rowLock[q] = t /\ store[q].status = "closed" /\ ~Closed(q)
      BY <3>1, <3>2, <3>4, <1>1, <1>2, <1>6, Rows
    <3>6. chainLock = t \/ (pc[t] = "chain" /\ job[t].then = "count")
      BY <3>5, <1>0 DEF ClosingInv
    <3>7. CASE chainLock = t
      <4>1. \A x \in Row : Visible(t, x)' = Visible(t, x)
        BY <3>1, <3>7, <1>3, <1>7
      <4>2. AllClosed(t) /\ Visible(t, f) = "approved"
        <5>1. \A p \in Period : Visible(t, p).status = Visible(t, p)'.status
          BY <4>1, Rows
        <5>2. \A p \in Period : Visible(t, p)'.status = "closed"
          BY <2>6 DEF AllClosed
        <5> QED
          BY <2>6, <4>1, <5>1, <5>2, Rows DEF AllClosed
      <4> QED
        BY <3>1, <3>5, <4>2, <1>0, <1>2 DEF LockingInv
    <3>8. CASE pc[t] = "chain" /\ job[t].then = "count"
      BY <3>1, <3>8, <1>2
    <3> QED
      BY <3>6, <3>7, <3>8
  <2> QED
    BY <1>1, <2>1, <2>2, <2>3, <2>4, <2>5, <2>6 DEF LockingInv
<1> QED
  BY <1>13, <1>14, <1>15, <1>16, <1>17, <1>18, <1>19, <1>20, <1>21 DEF CloseInv

-----------------------------------------------------------------------------
(* The theorems *)

\* Every step keeps the invariant.
LEMMA CloseStep == CloseInv /\ [Next]_vars => CloseInv'
<1> SUFFICES ASSUME CloseInv, [Next]_vars PROVE CloseInv'
  OBVIOUS
<1>1. CASE UNCHANGED vars
  BY <1>1 DEF vars, CloseInv, TypeInv, IdleInv, StoreInv, ChainInv, ClosingInv, ReadingInv, GateInv,
              TieInv, LockingInv, AllClosed, Closed, Ties, Visible, VisibleTotals
<1>2. ASSUME NEW s \in Session, \E x \in Row : Load(s, x) PROVE CloseInv'
  BY <1>2, LoadInv
<1>3. ASSUME NEW s \in Session, EndSession(s) PROVE CloseInv'
  BY <1>3, EndSessionInv
<1>4. ASSUME NEW s \in Session, PostEntry(s) PROVE CloseInv'
  BY <1>4, PostEntryInv
<1>5. ASSUME NEW s \in Session, PostVoucher(s) PROVE CloseInv'
  BY <1>5, PostVoucherInv
<1>6. ASSUME NEW s \in Session, \E p \in Period : StartClose(s, p) PROVE CloseInv'
  BY <1>6, StartCloseInv
<1>7. ASSUME NEW s \in Session, \E b \in Book : ReadTotals(s, b) PROVE CloseInv'
  BY <1>7, ReadTotalsInv
<1>8. ASSUME NEW s \in Session, ClosePassed(s) PROVE CloseInv'
  BY <1>8, ClosePassedInv
<1>9. ASSUME NEW s \in Session, CloseFailed(s) PROVE CloseInv'
  BY <1>9, CloseFailedInv
<1>10. ASSUME NEW s \in Session, TakeChain(s) PROVE CloseInv'
  BY <1>10, TakeChainInv
<1>11. ASSUME NEW s \in Session, CountOpen(s) PROVE CloseInv'
  BY <1>11, CountOpenInv
<1>12. ASSUME NEW s \in Session, LockRates(s) PROVE CloseInv'
  BY <1>12, LockRatesInv
<1>13. ASSUME NEW s \in Session, \E f \in Pool : ApproveRate(s, f) PROVE CloseInv'
  BY <1>13, ApproveRateInv
<1>14. ASSUME NEW s \in Session, Commit(s) PROVE CloseInv'
  BY <1>14, CommitInv
<1>15. ASSUME NEW s \in Session, Rollback(s) PROVE CloseInv'
  BY <1>15, RollbackInv
<1> QED
  BY <1>1, <1>2, <1>3, <1>4, <1>5, <1>6, <1>7, <1>8, <1>9, <1>10, <1>11, <1>12, <1>13, <1>14, <1>15
     DEF Next

\* The strengthening is an invariant: in every reachable state of any number of
\* sessions, periods and pools the locks, identity maps and jobs relate as above.
THEOREM CloseInductive == Spec => []CloseInv
<1>1. Init => CloseInv
  BY InitInv
<1>2. CloseInv /\ [Next]_vars => CloseInv'
  BY CloseStep
<1> QED
  BY <1>1, <1>2, PTL DEF Spec

\* Only commits change what is committed.
LEMMA OnlyCommits == [Next]_vars => UNCHANGED <<ledger, db>> \/ \E s \in Session : Commit(s)
<1> SUFFICES ASSUME [Next]_vars, ~UNCHANGED <<ledger, db>> PROVE \E s \in Session : Commit(s)
  OBVIOUS
<1>1. PICK s \in Session :
        \/ \E x \in Row : Load(s, x)
        \/ EndSession(s)
        \/ PostEntry(s)
        \/ PostVoucher(s)
        \/ \E p \in Period : StartClose(s, p)
        \/ \E b \in Book : ReadTotals(s, b)
        \/ ClosePassed(s)
        \/ CloseFailed(s)
        \/ TakeChain(s)
        \/ CountOpen(s)
        \/ LockRates(s)
        \/ \E f \in Pool : ApproveRate(s, f)
        \/ Commit(s)
        \/ Rollback(s)
  BY DEF Next, vars
<1>2. CASE \E x \in Row : Load(s, x)
  BY <1>2 DEF Load
<1>3. CASE EndSession(s)
  BY <1>3 DEF EndSession
<1>4. CASE PostEntry(s)
  BY <1>4 DEF PostEntry, Post
<1>5. CASE PostVoucher(s)
  BY <1>5 DEF PostVoucher, Post
<1>6. CASE \E p \in Period : StartClose(s, p)
  BY <1>6 DEF StartClose
<1>7. CASE \E b \in Book : ReadTotals(s, b)
  BY <1>7 DEF ReadTotals
<1>8. CASE ClosePassed(s)
  BY <1>8 DEF ClosePassed
<1>9. CASE CloseFailed(s)
  BY <1>9 DEF CloseFailed
<1>10. CASE TakeChain(s)
  BY <1>10 DEF TakeChain
<1>11. CASE CountOpen(s)
  BY <1>11 DEF CountOpen
<1>12. CASE LockRates(s)
  BY <1>12 DEF LockRates
<1>13. CASE \E f \in Pool : ApproveRate(s, f)
  BY <1>13 DEF ApproveRate
<1>14. CASE Rollback(s)
  BY <1>14 DEF Rollback
<1> QED
  BY <1>1, <1>2, <1>3, <1>4, <1>5, <1>6, <1>7, <1>8, <1>9, <1>10, <1>11, <1>12, <1>13, <1>14

\* close_period's gate: a closed period's GL ties to its JCL contract by contract
\* unless a posting was in flight while it closed (ClosedTiesUnlessRaced).
THEOREM ClosedPeriodsTie == Spec => []ClosedTiesUnlessRaced
<1>1. CloseInv => ClosedTiesUnlessRaced
  BY DEF CloseInv, TieInv, ClosedTiesUnlessRaced
<1> QED
  BY <1>1, CloseInductive, PTL

\* The open-period triggers: on SQLite nothing is added to a closed period's
\* ledger; on PostgreSQL only by a posting in flight at the close (FrozenUnlessRaced).
THEOREM ClosedPeriodsStayFrozen == Spec => FrozenUnlessRaced
<1>1. ASSUME CloseInv, [Next]_vars, NEW p \in Period, Closed(p)
      PROVE  \/ \A b \in {"gl", "jcl"} : ledger'[b][p] = ledger[b][p]
             \/ backend = "postgresql" /\ p \in raced'
  <2>1. CASE UNCHANGED ledger
    BY <2>1
  <2>2. ASSUME NEW s \in Session, Commit(s)
        PROVE  \/ \A b \in {"gl", "jcl"} : ledger'[b][p] = ledger[b][p]
               \/ backend = "postgresql" /\ p \in raced'
    <3>1. TypeInv /\ GateInv /\ raced \subseteq raced'
      BY <1>1, <2>2 DEF CloseInv, Commit
    <3>2. \A b \in {"gl", "jcl"} : posted[s][b][p] = Zero => ledger'[b][p] = ledger[b][p]
      BY <2>2, <3>1, CommitTotals DEF Book
    <3>3. \A b \in {"gl", "jcl"} : posted[s][b][p] # Zero => backend = "postgresql" /\ p \in raced
      BY <1>1, <3>1 DEF GateInv
    <3> QED
      BY <3>1, <3>2, <3>3
  <2>3. UNCHANGED ledger \/ \E s \in Session : Commit(s)
    BY <1>1, OnlyCommits
  <2> QED
    BY <2>1, <2>2, <2>3
<1>2. CloseInv /\ [Next]_vars =>
        [\A p \in Period : Closed(p) =>
          \/ \A b \in {"gl", "jcl"} : ledger'[b][p] = ledger[b][p]
          \/ backend = "postgresql" /\ p \in raced']_vars
  BY <1>1
<1> QED
  BY <1>2, CloseInductive, PTL DEF Spec, FrozenUnlessRaced

\* _lock_fiscal_year_rates: the commit that closes the last open period of the
\* year locks every rate that was approved by then, however the closes of the
\* last periods interleave (RatesLockStep).
THEOREM LastCloseLocksRates == Spec => [][RatesLockStep]_vars
<1>1. ASSUME CloseInv, NEW s \in Session, Commit(s), \E p \in Period : ~Closed(p),
             \A p \in Period : db'[p].status = "closed", NEW f \in Pool, db[f] = "approved"
      PROVE  db'[f] = "locked" \/ f \in job[s].approving
  <2>1. /\ TypeInv /\ StoreInv /\ LockingInv /\ pc[s] = "open" /\ f \in Row
        /\ \A x \in Row : db'[x] = Visible(s, x)
    BY <1>1, Rows DEF CloseInv, Commit
  <2>2. AllClosed(s)
    BY <1>1, <2>1, Rows DEF AllClosed
  <2>3. Visible(s, f) = "approved" => f \in job[s].approving
    BY <1>1, <2>1, <2>2 DEF LockingInv
  <2>4. Visible(s, f) \in {"approved", "locked"}
    <3>1. store[f] \in {"pending", "approved", "locked"} /\ store[f] # "pending"
      BY <1>1, <2>1, Rows DEF TypeInv, StoreInv
    <3> QED
      BY <1>1, <3>1 DEF Visible
  <2> QED
    BY <2>1, <2>3, <2>4
<1>2. ASSUME [Next]_vars, UNCHANGED db PROVE [RatesLockStep]_vars
  BY <1>2 DEF RatesLockStep, Closed
<1>3. [Next]_vars => UNCHANGED db \/ \E s \in Session : Commit(s)
  BY OnlyCommits
<1>4. CloseInv /\ [Next]_vars => [RatesLockStep]_vars
  BY <1>1, <1>2, <1>3 DEF RatesLockStep
<1> QED
  BY <1>4, CloseInductive, PTL DEF Spec

-----------------------------------------------------------------------------
(* The record of a closed period *)

\* A row says closed, committed or not yet, only with its reconciliation on record
\* as passed or after a session marked it failed from a copy it had left behind.
RecordInv ==
    \A p \in Period :
        /\ Closed(p) => db[p].recon = "passed" \/ p \in stale
        /\ store[p].status = "closed" => store[p].recon = "passed" \/ p \in stale

\* The flushed verdict "passed" is on record with the close.
LEMMA PassedRecord ==
    ASSUME CloseInv, RecordInv, NEW s \in Session, ClosePassed(s)
    PROVE  RecordInv'
<1>0. TypeInv /\ ReadingInv
  BY DEF CloseInv
<1>p. PICK p \in Period : p = job[s].period
  BY <1>0 DEF ReadingInv, Reading, ClosePassed
<1>1. /\ Update(s, p, Passed(s, p)) /\ UNCHANGED <<ledger, posted, db, stale>>
      /\ p \in Row /\ store[p] \in PeriodRow
  BY <1>0, <1>p, Rows DEF ClosePassed, TypeInv
<1>2. Passed(s, p).recon = "passed"
  BY <1>1 DEF Passed, PeriodRow
<1>3. store'[p] = Passed(s, p) /\ \A q \in Period \ {p} : store'[q] = store[q]
  <2>1. /\ store'[p] = Passed(s, p) /\ \A y \in Row \ {p} : store'[y] = store[y]
    BY <1>0, <1>1, UpdateFacts
  <2> QED
    BY <2>1, Rows
<1> QED
  BY <1>1, <1>2, <1>3 DEF RecordInv, Closed

\* The flushed verdict "failed" is about an open row, unless the session's copy
\* was stale: its copy says that the period is open.
LEMMA FailedRecord ==
    ASSUME CloseInv, RecordInv, NEW s \in Session, CloseFailed(s)
    PROVE  RecordInv'
<1>0. TypeInv /\ StoreInv /\ ReadingInv
  BY DEF CloseInv
<1>p. PICK p \in Period : p = job[s].period /\ cache[s][p].status = "open"
  BY <1>0 DEF ReadingInv, Reading, CloseFailed
<1>1. UNCHANGED <<ledger, posted, db>> /\ p \in Row /\ store[p] \in PeriodRow
  BY <1>0, <1>p, Rows DEF CloseFailed, TypeInv
<1>2. CASE UNCHANGED <<store, stale>>
  BY <1>1, <1>2 DEF RecordInv, Closed
<1>3. CASE /\ Update(s, p, Failed(p))
           /\ stale' = IF cache[s][p] = Visible(s, p) THEN stale ELSE stale \union {p}
  <2>1. /\ rowLock[p] \in {NoSession, s} /\ store'[p] = Failed(p)
        /\ \A y \in Row \ {p} : store'[y] = store[y]
    BY <1>0, <1>1, <1>3, UpdateFacts
  <2>2. \A q \in Period \ {p} : store'[q] = store[q]
    BY <2>1, Rows
  <2>3. Visible(s, p) = store[p]
    BY <1>0, <1>1, <2>1 DEF Visible, StoreInv
  <2>4. p \in stale' \/ Failed(p).status = "open"
    <3>1. p \in stale' \/ store[p].status = "open"
      BY <1>p, <1>3, <2>3
    <3> QED
      BY <1>1, <3>1 DEF Failed, PeriodRow
  <2>5. stale \subseteq stale'
    BY <1>3
  <2> QED
    BY <1>1, <2>1, <2>2, <2>4, <2>5 DEF RecordInv, Closed
<1> QED
  BY <1>p, <1>2, <1>3 DEF CloseFailed

\* Every step keeps the record.
LEMMA RecordStep == CloseInv /\ RecordInv /\ [Next]_vars => RecordInv'
<1> SUFFICES ASSUME CloseInv, RecordInv, [Next]_vars PROVE RecordInv'
  OBVIOUS
<1>0. TypeInv
  BY DEF CloseInv
<1>1. CASE UNCHANGED <<db, store, stale>>
  BY <1>1 DEF RecordInv, Closed
<1>2. ASSUME NEW s \in Session, LockRates(s) PROVE RecordInv'
  <2>1. UNCHANGED <<ledger, posted, db, stale>> /\ job[s].rates \subseteq Pool
    BY <1>0, <1>2 DEF LockRates, TypeInv, Job
  <2>2. ASSUME NEW f \in Pool, Update(s, f, "locked") PROVE \A q \in Period : store'[q] = store[q]
    <3>1. f \in Row /\ \A y \in Row \ {f} : store'[y] = store[y]
      BY <1>0, <2>1, <2>2, Rows, UpdateFacts
    <3> QED
      BY <3>1, <2>2, Rows
  <2>3. \A q \in Period : store'[q] = store[q]
    BY <1>2, <2>1, <2>2 DEF LockRates
  <2> QED
    BY <2>1, <2>3 DEF RecordInv, Closed
<1>3. ASSUME NEW s \in Session, NEW f \in Pool, ApproveRate(s, f) PROVE RecordInv'
  <2>1. UNCHANGED <<ledger, posted, db, stale>> /\ Update(s, f, "approved") /\ f \in Row
    BY <1>3, Rows DEF ApproveRate
  <2>2. \A y \in Row \ {f} : store'[y] = store[y]
    BY <1>0, <2>1, UpdateFacts
  <2>3. \A q \in Period : store'[q] = store[q]
    BY <2>2, Rows
  <2> QED
    BY <2>1, <2>3 DEF RecordInv, Closed
<1>4. ASSUME NEW s \in Session, Commit(s) PROVE RecordInv'
  <2>1. UNCHANGED <<store, stale>> /\ \A p \in Period : db'[p] \in {db[p], store[p]}
    BY <1>4, Rows DEF Commit, Visible
  <2> QED
    BY <2>1 DEF RecordInv, Closed
<1>5. ASSUME NEW s \in Session, Rollback(s) PROVE RecordInv'
  <2>1. UNCHANGED <<db, stale>> /\ \A p \in Period : store'[p] \in {db[p], store[p]}
    BY <1>5, Rows DEF Rollback
  <2> QED
    BY <2>1 DEF RecordInv, Closed
<1>6. ASSUME NEW s \in Session,
             \/ \E x \in Row : Load(s, x)
             \/ EndSession(s)
             \/ PostEntry(s)
             \/ PostVoucher(s)
             \/ \E p \in Period : StartClose(s, p)
             \/ \E b \in Book : ReadTotals(s, b)
             \/ TakeChain(s)
             \/ CountOpen(s)
      PROVE  UNCHANGED <<db, store, stale>>
  BY <1>6 DEF Load, EndSession, PostEntry, PostVoucher, Post, StartClose, ReadTotals, TakeChain, CountOpen
<1>7. UNCHANGED vars => UNCHANGED <<db, store, stale>>
  BY DEF vars
<1> QED
  BY <1>1, <1>2, <1>3, <1>4, <1>5, <1>6, <1>7, PassedRecord, FailedRecord DEF Next

\* close_period in any number of sessions: a closed period's record says that its
\* reconciliation passed, unless a session marked it failed from a copy that
\* another session's close had left behind (ClosedShowsPassedUnlessStale).
THEOREM ClosedPeriodsShowPassed == Spec => []ClosedShowsPassedUnlessStale
<1>1. Init => RecordInv
  <2>1. Init => \A p \in Period : p \in Row /\ db[p].status = "open" /\ store[p].status = "open"
    BY Rows DEF Init
  <2> QED
    BY <2>1 DEF RecordInv, Closed
<1>2. CloseInv /\ RecordInv /\ [Next]_vars => RecordInv'
  BY RecordStep
<1>3. RecordInv => ClosedShowsPassedUnlessStale
  BY DEF RecordInv, ClosedShowsPassedUnlessStale
<1> QED
  BY <1>1, <1>2, <1>3, CloseInductive, PTL DEF Spec

-----------------------------------------------------------------------------
(* One session at a time *)

Alone == \A s, t \in Session : s = t

\* Without another session a loaded row is what the statements see, and a row
\* says closed only with its reconciliation on record.
AloneInv ==
    /\ raced = {}
    /\ \A s \in Session, x \in Row : cache[s][x] # NotLoaded => cache[s][x] = Visible(s, x)
    /\ \A p \in Period : /\ store[p].status = "closed" => store[p].recon = "passed"
                         /\ db[p].status = "closed" => db[p].recon = "passed"

\* A row is loaded, or not: nothing that matters to AloneInv.
LEMMA AloneCache ==
    ASSUME AloneInv, UNCHANGED <<raced, db, store, rowLock>>, NEW s \in Session,
           \A t \in Session : t = s,
           \A x \in Row : cache'[s][x] \in {cache[s][x], Visible(s, x), NotLoaded}
    PROVE  AloneInv'
<1>1. \A x \in Row : Visible(s, x)' = Visible(s, x)
  BY DEF Visible
<1> QED
  BY <1>1 DEF AloneInv

\* An update by the only session keeps its copies fresh.
LEMMA AloneUpdate ==
    ASSUME CloseInv, AloneInv, NEW s \in Session, \A t \in Session : t = s,
           NEW x \in Row, NEW row \in RowOf(x), Update(s, x, row),
           UNCHANGED <<raced, db, ledger, posted>>,
           cache'[s][x] = row, \A y \in Row \ {x} : cache'[s][y] = cache[s][y],
           x \in Period /\ row.status = "closed" => row.recon = "passed"
    PROVE  AloneInv'
<1>1. /\ store'[x] = row /\ \A y \in Row \ {x} : store'[y] = store[y]
      /\ Visible(s, x)' = row
      /\ \A t \in Session, y \in Row : y # x => Visible(t, y)' = Visible(t, y)
  <2>1. UNCHANGED <<ledger, posted, db>> /\ TypeInv
    BY DEF CloseInv
  <2> QED
    BY <2>1, UpdateFacts
<1> QED
  BY <1>1, Rows DEF AloneInv

\* Every step of the only session keeps its copies fresh.
LEMMA AloneStep == Alone /\ CloseInv /\ AloneInv /\ [Next]_vars => AloneInv'
<1> SUFFICES ASSUME Alone, CloseInv, AloneInv, [Next]_vars PROVE AloneInv'
  OBVIOUS
<1>0. TypeInv /\ StoreInv /\ ReadingInv
  BY DEF CloseInv
<1>1. CASE UNCHANGED vars
  BY <1>1 DEF vars, AloneInv, Visible
<1>2. ASSUME NEW s \in Session,
             \/ \E x \in Row : Load(s, x)
             \/ EndSession(s)
             \/ PostEntry(s)
             \/ PostVoucher(s)
             \/ \E p \in Period : StartClose(s, p)
             \/ \E b \in Book : ReadTotals(s, b)
             \/ TakeChain(s)
             \/ CountOpen(s)
      PROVE  AloneInv'
  <2>1. UNCHANGED <<raced, db, store, rowLock>>
    BY <1>2 DEF Load, EndSession, PostEntry, PostVoucher, Post, StartClose, ReadTotals, TakeChain, CountOpen
  <2>2. \/ cache' = cache
        \/ cache' = [cache EXCEPT ![s] = [x \in Row |-> NotLoaded]]
        \/ \E x \in Row : cache' = [cache EXCEPT ![s][x] = Visible(s, x)] \/ cache' = [cache EXCEPT ![s][x] = Loaded(s, x)]
    <3>1. Period \subseteq Row
      BY Rows
    <3>2. CASE PostEntry(s)
      BY <3>1, <3>2 DEF PostEntry
    <3>3. CASE \E p \in Period : StartClose(s, p)
      BY <3>1, <3>3 DEF StartClose
    <3>4. CASE PostVoucher(s)
      BY <3>4 DEF PostVoucher
    <3> QED
      BY <1>2, <3>2, <3>3, <3>4 DEF Load, EndSession, ReadTotals, TakeChain, CountOpen
  <2>3. \A x \in Row : cache'[s][x] \in {cache[s][x], Visible(s, x), NotLoaded}
    BY <1>0, <2>2 DEF TypeInv, Loaded
  <2> QED
    BY <2>1, <2>3, AloneCache DEF Alone
<1>3. ASSUME NEW s \in Session, ClosePassed(s) PROVE AloneInv'
  <2>p. PICK p \in Period : p = job[s].period
    BY <1>0, <1>3 DEF ReadingInv, Reading, ClosePassed
  <2>1. /\ Update(s, p, Passed(s, p)) /\ UNCHANGED <<raced, db, ledger, posted>>
        /\ cache' = [cache EXCEPT ![s][p] = [status |-> "closed", recon |-> "passed", closed_by |-> s]]
    BY <1>3, <2>p DEF ClosePassed
  <2>2. p \in Row /\ store[p] \in PeriodRow
    BY <1>0, Rows DEF TypeInv
  <2>3. PICK row \in RowOf(p) : row = Passed(s, p) /\ row.recon = "passed"
    <3>1. Passed(s, p) \in PeriodRow /\ Passed(s, p).recon = "passed"
      BY <2>2 DEF Passed, PeriodRow
    <3> QED
      BY <3>1, Rows
  <2>4. row = [status |-> "closed", recon |-> "passed", closed_by |-> s]
    BY <2>2, <2>3 DEF Passed, PeriodRow
  <2>5. cache'[s][p] = row /\ \A y \in Row \ {p} : cache'[s][y] = cache[s][y]
    BY <1>0, <2>1, <2>2, <2>4 DEF TypeInv
  <2> QED
    BY <2>1, <2>2, <2>3, <2>5, AloneUpdate DEF Alone
<1>4. ASSUME NEW s \in Session, CloseFailed(s) PROVE AloneInv'
  <2>p. PICK p \in Period : /\ p = job[s].period /\ cache[s][p] \in PeriodRow
                            /\ cache[s][p].status = "open"
    BY <1>0, <1>4 DEF ReadingInv, Reading, CloseFailed
  <2>1. /\ UNCHANGED <<raced, db, ledger, posted>>
        /\ cache' = [cache EXCEPT ![s][p].recon = "failed"]
        /\ IF cache[s][p].recon = "failed" THEN UNCHANGED <<store, rowLock>> ELSE Update(s, p, Failed(p))
    BY <1>4, <2>p DEF CloseFailed
  <2>2. p \in Row /\ cache[s][p] = Visible(s, p) /\ Visible(s, p) = store[p]
    <3>1. p \in Row /\ cache[s][p] # NotLoaded
      BY <2>p, Rows, RowAssumption DEF PeriodRow
    <3>2. rowLock[p] \in {NoSession, s}
      BY <1>0, <3>1 DEF TypeInv, Alone
    <3> QED
      BY <1>0, <3>1, <3>2 DEF AloneInv, Visible, StoreInv
  <2>3. PICK row \in RowOf(p) : row = Failed(p) /\ row.status = "open"
    <3>1. store[p] \in PeriodRow /\ store[p].status = "open"
      BY <2>p, <2>2
    <3>2. Failed(p) \in PeriodRow /\ Failed(p).status = "open"
      BY <3>1 DEF Failed, PeriodRow
    <3> QED
      BY <3>2, Rows
  <2>4. /\ cache'[s][p] = row /\ \A y \in Row \ {p} : cache'[s][y] = cache[s][y]
        /\ cache[s][p].recon = "failed" => row = cache[s][p]
    <3>1. PICK c \in PeriodRow : c = cache[s][p] /\ c = store[p]
      BY <2>p, <2>2
    <3>2. row = [c EXCEPT !.recon = "failed"] /\ (c.recon = "failed" => row = c)
      BY <2>3, <3>1 DEF Failed, PeriodRow
    <3>3. cache' = [cache EXCEPT ![s][p] = [c EXCEPT !.recon = "failed"]]
      BY <2>1, <3>1
    <3> QED
      BY <1>0, <2>2, <3>1, <3>2, <3>3 DEF TypeInv
  <2>5. CASE Update(s, p, Failed(p))
    BY <2>1, <2>2, <2>3, <2>4, <2>5, AloneUpdate DEF Alone
  <2>6. CASE cache[s][p].recon = "failed" /\ UNCHANGED <<store, rowLock>>
    <3>1. \A x \in Row : cache'[s][x] \in {cache[s][x], Visible(s, x), NotLoaded}
      BY <2>4, <2>6
    <3> QED
      BY <2>1, <2>6, <3>1, AloneCache DEF Alone
  <2> QED
    BY <2>1, <2>5, <2>6
<1>5. ASSUME NEW s \in Session, LockRates(s) PROVE AloneInv'
  <2>1. CASE UNCHANGED <<store, rowLock, cache>>
    BY <1>5, <2>1, AloneCache DEF LockRates, Alone
  <2>2. ASSUME NEW f \in job[s].rates,
               IF cache[s][f] = "locked" THEN UNCHANGED <<store, rowLock>> ELSE Update(s, f, "locked"),
               cache' = [cache EXCEPT ![s][f] = "locked"]
        PROVE  AloneInv'
    <3>1. f \in Pool /\ f \in Row /\ f \notin Period /\ "locked" \in RowOf(f)
      <4>1. f \in Pool
        BY <1>0, <2>2 DEF TypeInv, Job
      <4> QED
        BY <4>1, Rows
    <3>2. cache'[s][f] = "locked" /\ \A y \in Row \ {f} : cache'[s][y] = cache[s][y]
      BY <1>0, <2>2, <3>1 DEF TypeInv
    <3>3. UNCHANGED <<raced, db, ledger, posted>>
      BY <1>5 DEF LockRates
    <3>4. CASE Update(s, f, "locked")
      BY <3>1, <3>2, <3>3, <3>4, AloneUpdate DEF Alone
    <3>5. CASE cache[s][f] = "locked" /\ UNCHANGED <<store, rowLock>>
      <4>1. \A x \in Row : cache'[s][x] \in {cache[s][x], Visible(s, x), NotLoaded}
        BY <3>2, <3>5
      <4> QED
        BY <3>3, <3>5, <4>1, AloneCache DEF Alone
    <3> QED
      BY <2>2, <3>4, <3>5
  <2> QED
    BY <1>5, <2>1, <2>2 DEF LockRates
<1>6. ASSUME NEW s \in Session, NEW f \in Pool, ApproveRate(s, f) PROVE AloneInv'
  <2>1. /\ f \in Row /\ f \notin Period /\ "approved" \in RowOf(f)
        /\ Update(s, f, "approved") /\ UNCHANGED <<raced, db, ledger, posted>>
    BY <1>6, Rows DEF ApproveRate
  <2>2. cache'[s][f] = "approved" /\ \A y \in Row \ {f} : cache'[s][y] = cache[s][y]
    BY <1>0, <1>6, <2>1 DEF TypeInv, ApproveRate
  <2> QED
    BY <2>1, <2>2, AloneUpdate DEF Alone
<1>7. ASSUME NEW s \in Session, Commit(s) PROVE AloneInv'
  <2>1. /\ UNCHANGED <<store, cache>> /\ \A x \in Row : db'[x] = Visible(s, x) /\ rowLock'[x] # s
    BY <1>0, <1>7, ReleaseFacts DEF Commit
  <2>2. raced' = {}
    BY <1>7 DEF Commit, Alone, AloneInv
  <2>3. \A x \in Row : Visible(s, x)' = Visible(s, x)
    BY <2>1 DEF Visible
  <2>4. \A p \in Period : db'[p] \in {db[p], store[p]}
    BY <2>1, Rows DEF Visible
  <2> QED
    BY <2>1, <2>2, <2>3, <2>4, Rows DEF AloneInv, Alone
<1>8. ASSUME NEW s \in Session, Rollback(s) PROVE AloneInv'
  <2>1. /\ UNCHANGED <<raced, db>> /\ \A x \in Row : store'[x] \in {db[x], store[x]}
        /\ \A x \in Row : cache'[s][x] = NotLoaded
    BY <1>0, <1>8 DEF Rollback, TypeInv
  <2> QED
    BY <2>1, Rows DEF AloneInv, Alone
<1> QED
  BY <1>1, <1>2, <1>3, <1>4, <1>5, <1>6, <1>7, <1>8 DEF Next

\* The copies of the only session are always fresh.
LEMMA AloneAlways == ASSUME Alone PROVE Spec => []AloneInv
<1>1. Init => AloneInv
  <2> SUFFICES ASSUME Init PROVE AloneInv
    OBVIOUS
  <2>1. \A p \in Period : p \in Row /\ db[p].status = "open" /\ store[p].status = "open"
    BY Rows DEF Init
  <2> QED
    BY <2>1 DEF Init, AloneInv
<1>2. CloseInv /\ AloneInv /\ [Next]_vars => AloneInv'
  BY AloneStep
<1> QED
  BY <1>1, <1>2, CloseInductive, PTL DEF Spec

\* close_period without concurrency: every commit that closes a period closes one
\* whose books tie contract by contract (CloseTies), whatever was posted,
\* reversed, rolled back or refused before.
THEOREM AloneCloseTies == ASSUME Alone PROVE Spec => CloseTies
<1>1. ClosedTiesUnlessRaced' /\ AloneInv' => [CloseTiesStep]_vars
  BY DEF ClosedTiesUnlessRaced, AloneInv, CloseTiesStep, Closed, Ties
<1> QED
  BY <1>1, ClosedPeriodsTie, AloneAlways, PTL DEF Spec, CloseTies

\* Without concurrency a closed period's record says that its reconciliation
\* passed, also when a failed verdict was flushed before (ClosedShowsPassed).
THEOREM AloneClosedShowsPassed == ASSUME Alone PROVE Spec => []ClosedShowsPassed
<1>1. AloneInv => ClosedShowsPassed
  BY DEF AloneInv, ClosedShowsPassed, Closed
<1> QED
  BY <1>1, AloneAlways, PTL

=============================================================================
