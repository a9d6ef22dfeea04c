---------------------------- MODULE ServicesProofs ----------------------------
(***************************************************************************)
(* What TLAPS proves of the services: alerts, the workflow of a response,  *)
(* the TINA sweep, the versions of a row and the regulation watch, for any *)
(* sessions, rows and bounds.  A behaviour is about one service, so each   *)
(* has an inductive invariant of its own; all of them say how the copies   *)
(* and locals of a session relate to the rows it sees.                     *)
(***************************************************************************)
EXTENDS Services, FiniteSets, FiniteSetTheorems, TLAPS

-----------------------------------------------------------------------------
(* The audit response workflow *)

Stage == {"notification_received", "document_collection", "management_review",
          "submitted", "follow_up", "closed"}
NoteRow == [status : Stage, days : Window, reviewed : BOOLEAN]
TaskRow == [status : {"open", "complete", "overdue"}, due : Day]
PointRow == [fired : Nat, acknowledged : Nat]

ResponseRows ==
    /\ DOMAIN db = Response!Keys /\ DOMAIN work = Response!Keys
    /\ db["notification"] \in NoteRow \union {Absent}
    /\ work["notification"] \in NoteRow \union {Absent}
    /\ \A k \in Task : db[k] \in TaskRow \union {Absent} /\ work[k] \in TaskRow \union {Absent}
    /\ \A p \in Point : db[p] \in PointRow /\ work[p] \in PointRow /\ db[p].fired <= work[p].fired
    /\ writer \in Session \union {NoSession}
    /\ writer = NoSession => work = db
    /\ DOMAIN cache = Session
    /\ \A s \in Session : /\ DOMAIN cache[s] = Response!Keys
                          /\ cache[s]["notification"] \in NoteRow \union {NotLoaded}
                          /\ \A k \in Task : cache[s][k] \in TaskRow \union {NotLoaded}

ResponseCalls ==
    /\ DOMAIN call = Session
    /\ \A s \in Session : call[s] \in {[op |-> "idle"]} \union [op : {"fire"}, due : SUBSET Point]
                                        \union [op : {"sweep"}, tasks : SUBSET Task]
    /\ \A s \in Session : call[s].op = "sweep" => \A k \in call[s].tasks : cache[s][k] # NotLoaded

\* An alert point about to fire has not fired, and nobody else is firing.
AlertInv ==
    "alerts" \notin history =>
        /\ \A p \in Point : work[p].fired <= 1
        /\ \A s, t \in Session : call[s].op = "fire" /\ call[t].op = "fire" => s = t
        /\ \A s \in Session : call[s].op = "fire" => \A p \in call[s].due : work[p].fired = 0

\* A task the sweep has selected is not complete, and completion is not undone.
Complete(row) == row # Absent /\ row.status = "complete"
TaskInv ==
    "tasks" \notin history =>
        /\ \A k \in Task : Complete(db[k]) => Complete(work[k])
        /\ \A s \in Session : call[s].op = "sweep" => \A k \in call[s].tasks : ~Complete(work[k])

\* What a transaction makes of the notification is a step forward, and the
\* stages beyond the review are reached with its sign-off.
Signed(row) == row # Absent /\ Response!Position(row.status) > 3 => row.reviewed
Forward(old, new) ==
    old # Absent =>
        /\ new # Absent
        /\ Response!Position(new.status) >= Response!Position(old.status)
        /\ new.reviewed # old.reviewed =>
              Response!Position(old.status) <= 3 /\ Response!Position(new.status) >= 3
NoteInv ==
    "status" \notin history =>
        /\ Signed(db["notification"]) /\ Signed(work["notification"])
        /\ Forward(db["notification"], work["notification"])

ResponseInv == ResponseRows /\ ResponseCalls /\ AlertInv /\ TaskInv /\ NoteInv

\* What stands for no row is no notification and no task.
LEMMA NullResponse ==
    /\ Absent \notin NoteRow /\ Absent \notin TaskRow
    /\ NotLoaded \notin NoteRow /\ NotLoaded \notin TaskRow
BY NullAssumption DEF NoteRow, TaskRow, Stage

\* STATUS_ORDER, spelled out.
LEMMA Positions ==
    /\ Response!Position("notification_received") = 1
    /\ Response!Position("document_collection") = 2
    /\ Response!Position("management_review") = 3
    /\ Response!Position("submitted") = 4
    /\ Response!Position("follow_up") = 5
    /\ Response!Position("closed") = 6
BY DEF Response!Position, Response!STATUS_ORDER

\* A row that stays is a step forward.
LEMMA Forwards == \A row \in NoteRow \union {Absent} : Forward(row, row)
BY Positions, NullResponse DEF Forward, NoteRow, Stage

\* The rows of a response are told apart by their keys.
LEMMA Keys ==
    /\ "notification" \in Response!Keys
    /\ \A p \in Point : p \in Response!Keys /\ p # "notification" /\ p \notin Task
    /\ \A k \in Task : k \in Response!Keys /\ k # "notification" /\ k \notin Point
BY AlertAssumption DEF Response!Keys

\* A response starts with nothing received.
LEMMA ResponseInit == Response!Init => ResponseInv
<1> SUFFICES ASSUME Response!Init PROVE ResponseInv
  OBVIOUS
<1>1. ResponseRows
  BY Keys DEF Response!Init, Response!Start, ResponseRows, PointRow
<1>2. ResponseCalls /\ TaskInv /\ NoteInv
  BY Keys DEF Response!Init, Response!Start, Response!Idle, ResponseCalls, TaskInv, Complete,
              NoteInv, Signed, Forward
<1>3. AlertInv
  BY Keys DEF Response!Init, Response!Start, Response!Idle, AlertInv
<1> QED
  BY <1>1, <1>2, <1>3 DEF ResponseInv

\* A flush sets the columns of the rows it is given, and touches no other row.
Sets(s, rows) ==
    \A k \in Response!Keys :
        \/ work'[k] = work[k] /\ (k \in DOMAIN rows => rows[k] = Response!Copy(s, k))
        \/ /\ k \in DOMAIN rows /\ writer \in {NoSession, s}
           /\ work'[k] = Response!Set(work[k], Response!Copy(s, k), rows[k])

\* A flush takes no task out of an identity map.
Loads == \A t \in Session, k \in Task : cache[t][k] # NotLoaded => cache'[t][k] # NotLoaded

\* What Flush does to the rows the invariant speaks of, for any rows of the right types.
LEMMA ResponseFlush ==
    ASSUME ResponseRows, NEW s \in Session, NEW rows, Response!Flush(s, rows),
           DOMAIN rows \subseteq {"notification"} \union Task,
           "notification" \in DOMAIN rows => rows["notification"] \in NoteRow,
           \A k \in Task : k \in DOMAIN rows => rows[k] \in TaskRow
    PROVE  ResponseRows' /\ Sets(s, rows) /\ db' = db /\ Loads
<1>1. /\ DOMAIN cache' = Session
      /\ \A t \in Session : /\ DOMAIN cache'[t] = Response!Keys
                            /\ cache'[t]["notification"] \in NoteRow \union {NotLoaded}
                            /\ \A k \in Task : cache'[t][k] \in TaskRow \union {NotLoaded}
  BY Keys DEF ResponseRows, Response!Flush, Response!Keep, Response!Replaced
<1>2. db' = db /\ Loads
  BY Keys, NullResponse DEF ResponseRows, Response!Flush, Response!Keep, Response!Replaced, Loads
<1>3. CASE UNCHANGED <<db, work, writer>> /\ \A k \in DOMAIN rows : rows[k] = Response!Copy(s, k)
  <2>1. Sets(s, rows)
    BY <1>3 DEF Sets
  <2> QED
    BY <1>1, <1>2, <1>3, <2>1, Keys DEF ResponseRows, Response!Keys
<1>4. CASE writer \in {NoSession, s} /\ writer' = s /\ work' = Response!Flushed(s, rows)
  <2>1. /\ DOMAIN work' = Response!Keys
        /\ \A k \in Response!Keys :
              work'[k] = IF k \in DOMAIN rows
                         THEN Response!Set(work[k], Response!Copy(s, k), rows[k]) ELSE work[k]
    BY <1>4 DEF ResponseRows, Response!Flushed, Response!Sees
  <2>2. Sets(s, rows)
    <3>1. \A k \in DOMAIN rows : k \in Response!Keys
      BY Keys
    <3> QED
      BY <1>4, <2>1, <3>1 DEF Sets, Response!Keys
  <2>3. work'["notification"] \in NoteRow \union {Absent}
    <3>1. CASE "notification" \in DOMAIN rows
      <4>1. rows["notification"] \in NoteRow /\ work["notification"] \in NoteRow \union {Absent}
        BY <3>1 DEF ResponseRows
      <4>2. Response!Set(work["notification"], Response!Copy(s, "notification"), rows["notification"])
              \in NoteRow
        BY <4>1, NullResponse DEF Response!Set, NoteRow
      <4> QED
        BY <2>1, <3>1, <4>2, Keys
    <3>2. CASE "notification" \notin DOMAIN rows
      BY <2>1, <3>2, Keys DEF ResponseRows
    <3> QED
      BY <3>1, <3>2
  <2>4. ASSUME NEW k \in Task PROVE work'[k] \in TaskRow \union {Absent}
    <3>1. CASE k \in DOMAIN rows
      <4>1. rows[k] \in TaskRow /\ work[k] \in TaskRow \union {Absent}
        BY <3>1 DEF ResponseRows
      <4>2. Response!Set(work[k], Response!Copy(s, k), rows[k]) \in TaskRow
        BY <4>1, NullResponse DEF Response!Set, TaskRow
      <4> QED
        BY <2>1, <2>4, <3>1, <4>2, Keys
    <3>2. CASE k \notin DOMAIN rows
      BY <2>1, <2>4, <3>2, Keys DEF ResponseRows
    <3> QED
      BY <3>1, <3>2
  <2>5. \A p \in Point : work'[p] = work[p]
    BY <2>1, Keys
  <2> QED
    BY <1>1, <1>2, <1>4, <2>1, <2>2, <2>3, <2>4, <2>5, SessionAssumption, Keys DEF ResponseRows, Response!Keys
<1> QED
  BY <1>3, <1>4 DEF Response!Flush

\* One row is flushed.
LEMMA FlushOne ==
    ASSUME ResponseRows, NEW s \in Session, NEW k, NEW row,
           Response!Flush(s, Response!Only(k, row)),
           (k = "notification" /\ row \in NoteRow) \/ (k \in Task /\ row \in TaskRow)
    PROVE  /\ ResponseRows' /\ db' = db /\ Loads
           /\ \A j \in Response!Keys : j # k => work'[j] = work[j]
           /\ \/ work'[k] = work[k] /\ row = Response!Copy(s, k)
              \/ /\ work'[k] = Response!Set(work[k], Response!Copy(s, k), row)
                 /\ writer \in {NoSession, s}
<1>1. PICK rows : rows = Response!Only(k, row)
  OBVIOUS
<1>2. DOMAIN rows = {k} /\ rows[k] = row
  BY <1>1 DEF Response!Only
<1>3. "notification" \in DOMAIN rows => rows["notification"] \in NoteRow
  BY <1>2, Keys
<1>4. \A j \in Task : j \in DOMAIN rows => rows[j] \in TaskRow
  BY <1>2, Keys
<1>5. ResponseRows' /\ Sets(s, rows) /\ db' = db /\ Loads
  BY <1>1, <1>2, <1>3, <1>4, ResponseFlush
<1> QED
  BY <1>2, <1>5, Keys DEF Sets

\* What is left alone stays as it should be.
Points == \A p \in Point : work'[p] = work[p] /\ db'[p] = db[p]
Tasks == \A k \in Task : work'[k] = work[k] /\ db'[k] = db[k]
Note == work'["notification"] = work["notification"] /\ db'["notification"] = db["notification"]
Fires(s) == call'[s] = call[s] \/ call'[s].op # "fire"
Sweeps(s) == call'[s] = call[s] \/ call'[s].op # "sweep"

\* The alerts are safe while no point fires and no call is for alerts.
LEMMA SameAlerts ==
    ASSUME AlertInv, ResponseCalls, Points, \A s \in Session : Fires(s), history \subseteq history'
    PROVE  AlertInv'
BY DEF AlertInv, Points, Fires, ResponseCalls

\* The tasks are safe while no task changes and no sweep starts.
LEMMA SameTasks ==
    ASSUME TaskInv, ResponseCalls, Tasks, \A s \in Session : Sweeps(s), history \subseteq history'
    PROVE  TaskInv'
BY DEF TaskInv, Complete, Tasks, Sweeps, ResponseCalls

\* The notification is safe while it does not change.
LEMMA SameNote ==
    ASSUME NoteInv, Note, history \subseteq history'
    PROVE  NoteInv'
BY DEF NoteInv, Note, Signed, Forward, Response!Position

\* Calls keep their types when none starts and no copy of a selected task is dropped.
LEMMA SameCalls ==
    ASSUME ResponseCalls, call' = call, Loads
    PROVE  ResponseCalls'
BY DEF ResponseCalls, Loads

\* create_notification keeps the invariant.
LEMMA CreateResponse ==
    ASSUME ResponseInv, NEW s \in Session, Response!CreateNotification(s)
    PROVE  ResponseInv'
<1>1. PICK days \in Window :
        Response!Flush(s, Response!Only("notification",
            [status |-> "notification_received", days |-> days, reviewed |-> FALSE]))
  BY DEF Response!CreateNotification, Response!STATUS_ORDER
<1>2. PICK row : row = [status |-> "notification_received", days |-> days, reviewed |-> FALSE]
  OBVIOUS
<1>3. /\ ResponseRows /\ ResponseCalls /\ row \in NoteRow
      /\ db["notification"] = Absent /\ work["notification"] = Absent
      /\ call' = call /\ history' = history
  BY <1>2 DEF ResponseInv, Response!CreateNotification, NoteRow, Stage
<1>4. /\ ResponseRows' /\ db' = db /\ Loads
      /\ \A j \in Response!Keys : j # "notification" => work'[j] = work[j]
      /\ work'["notification"] = Absent \/ work'["notification"] = row
  <2>1. /\ ResponseRows' /\ db' = db /\ Loads
        /\ \A j \in Response!Keys : j # "notification" => work'[j] = work[j]
        /\ \/ work'["notification"] = work["notification"]
           \/ work'["notification"] = Response!Set(work["notification"], Response!Copy(s, "notification"), row)
    BY <1>1, <1>2, <1>3, FlushOne
  <2> QED
    BY <1>3, <2>1 DEF Response!Set
<1>5. AlertInv' /\ TaskInv'
  BY <1>3, <1>4, Keys, SameAlerts, SameTasks DEF ResponseInv, Points, Tasks, Fires, Sweeps
<1>6. NoteInv'
  BY <1>2, <1>3, <1>4, Positions DEF NoteInv, Signed, Forward
<1>7. ResponseCalls'
  BY <1>3, <1>4, SameCalls
<1> QED
  BY <1>4, <1>5, <1>6, <1>7 DEF ResponseInv

\* record_management_review keeps the invariant.
LEMMA ReviewResponse ==
    ASSUME ResponseInv, NEW s \in Session, Response!RecordReview(s)
    PROVE  ResponseInv'
<1>1. PICK copy : copy = Response!Copy(s, "notification")
  OBVIOUS
<1>2. PICK row : row = [copy EXCEPT !.reviewed = TRUE]
  OBVIOUS
<1>3. /\ ResponseRows /\ ResponseCalls /\ NoteInv
      /\ copy \in NoteRow /\ copy.status = "management_review"
      /\ Response!Sees(s)["notification"] \in NoteRow
      /\ call' = call /\ history \subseteq history'
      /\ Response!Flush(s, Response!Only("notification", row))
      /\ Response!Stale(s, "notification") => "status" \in history'
  BY <1>1, <1>2 DEF ResponseInv, ResponseRows, Response!RecordReview, Response!Exists, Response!Copy,
                    Response!Sees, Response!StatusRaced
<1>4. row \in NoteRow /\ row.status = copy.status /\ row.days = copy.days /\ row.reviewed = TRUE
  BY <1>2, <1>3 DEF NoteRow
<1>5. /\ ResponseRows' /\ db' = db /\ Loads
      /\ \A j \in Response!Keys : j # "notification" => work'[j] = work[j]
      /\ \/ work'["notification"] = work["notification"]
         \/ /\ work'["notification"] = Response!Set(work["notification"], copy, row)
            /\ writer \in {NoSession, s}
  BY <1>1, <1>3, <1>4, FlushOne
<1>6. AlertInv' /\ TaskInv'
  BY <1>3, <1>5, Keys, SameAlerts, SameTasks DEF ResponseInv, Points, Tasks, Fires, Sweeps
<1>7. NoteInv'
  <2>1. CASE work'["notification"] = work["notification"]
    BY <1>3, <1>5, <2>1, SameNote DEF Note
  <2>2. CASE /\ work'["notification"] = Response!Set(work["notification"], copy, row)
             /\ writer \in {NoSession, s}
    <3> SUFFICES ASSUME "status" \notin history' PROVE NoteInv'
      BY DEF NoteInv
    <3>1. work["notification"] = copy
      BY <1>1, <1>3, <2>2 DEF Response!Stale, Response!Sees, ResponseRows
    <3>2. /\ work'["notification"] \in NoteRow
          /\ work'["notification"].status = copy.status
          /\ work'["notification"].reviewed = TRUE
      BY <1>3, <1>4, <2>2, <3>1, NullResponse DEF Response!Set, NoteRow
    <3>3. Signed(work'["notification"])
      BY <3>2 DEF Signed
    <3>4. Response!Position(copy.status) = 3
      BY <1>3, Positions
    <3>5. Forward(db["notification"], work'["notification"])
      <4>1. db["notification"] # Absent => Response!Position(db["notification"].status) <= 3
        BY <1>3, <3>1, <3>4 DEF NoteInv, Forward
      <4>2. work'["notification"] # Absent
        BY <3>2, NullResponse
      <4>3. db["notification"] # Absent => Response!Position(db["notification"].status) \in Int
        BY <1>3, Positions DEF ResponseRows, NoteRow, Stage
      <4> QED
        BY <3>2, <3>4, <4>1, <4>2, <4>3 DEF Forward
    <3> QED
      BY <1>3, <1>5, <3>3, <3>5 DEF NoteInv, Signed, Forward, Response!Position
  <2> QED
    BY <1>5, <2>1, <2>2
<1>8. ResponseCalls'
  BY <1>3, <1>5, SameCalls
<1> QED
  BY <1>5, <1>6, <1>7, <1>8 DEF ResponseInv

\* advance_status keeps the invariant.
LEMMA AdvanceResponse ==
    ASSUME ResponseInv, NEW s \in Session, Response!AdvanceStatus(s)
    PROVE  ResponseInv'
<1>1. PICK copy : copy = Response!Copy(s, "notification")
  OBVIOUS
<1>2. PICK new \in Stage : /\ Response!Follows(new, copy.status)
                           /\ new = "submitted" => copy.reviewed
                           /\ Response!Flush(s, Response!Only("notification", [copy EXCEPT !.status = new]))
  BY <1>1 DEF Response!AdvanceStatus, Response!STATUS_ORDER, Stage
<1>3. PICK row : row = [copy EXCEPT !.status = new]
  OBVIOUS
<1>4. /\ ResponseRows /\ ResponseCalls /\ NoteInv
      /\ copy \in NoteRow
      /\ Response!Sees(s)["notification"] \in NoteRow
      /\ call' = call /\ history \subseteq history'
      /\ Response!Stale(s, "notification") => "status" \in history'
  BY <1>1 DEF ResponseInv, ResponseRows, Response!AdvanceStatus, Response!Exists, Response!Copy,
              Response!Sees, Response!StatusRaced
<1>5. row \in NoteRow /\ row.status = new /\ row.days = copy.days /\ row.reviewed = copy.reviewed
  BY <1>3, <1>4 DEF NoteRow
<1>6. /\ ResponseRows' /\ db' = db /\ Loads
      /\ \A j \in Response!Keys : j # "notification" => work'[j] = work[j]
      /\ \/ work'["notification"] = work["notification"]
         \/ /\ work'["notification"] = Response!Set(work["notification"], copy, row)
            /\ writer \in {NoSession, s}
  BY <1>1, <1>2, <1>3, <1>4, <1>5, FlushOne
<1>7. AlertInv' /\ TaskInv'
  BY <1>4, <1>6, Keys, SameAlerts, SameTasks DEF ResponseInv, Points, Tasks, Fires, Sweeps
<1>8. NoteInv'
  <2>1. CASE work'["notification"] = work["notification"]
    BY <1>4, <1>6, <2>1, SameNote DEF Note
  <2>2. CASE /\ work'["notification"] = Response!Set(work["notification"], copy, row)
             /\ writer \in {NoSession, s}
    <3> SUFFICES ASSUME "status" \notin history' PROVE NoteInv'
      BY DEF NoteInv
    <3>1. work["notification"] = copy
      BY <1>1, <1>4, <2>2 DEF Response!Stale, Response!Sees, ResponseRows
    <3>2. /\ work'["notification"] \in NoteRow
          /\ work'["notification"].status = new
          /\ work'["notification"].reviewed = copy.reviewed
      BY <1>4, <1>5, <2>2, <3>1, NullResponse DEF Response!Set, NoteRow
    <3>3. /\ Response!Position(new) = Response!Position(copy.status) + 1
          /\ Response!Position(copy.status) \in Int
          /\ Response!Position(new) = 4 => copy.reviewed
      BY <1>2, <1>4, Positions DEF Response!Follows, NoteRow, Stage
    <3>4. Signed(work'["notification"])
      BY <1>4, <3>1, <3>2, <3>3, NullResponse DEF Signed, NoteInv
    <3>5. Forward(db["notification"], work'["notification"])
      <4>1. work'["notification"] # Absent
        BY <3>2, NullResponse
      <4>2. db["notification"] # Absent => Response!Position(db["notification"].status) \in Int
        BY <1>4, Positions DEF ResponseRows, NoteRow, Stage
      <4> QED
        BY <1>4, <3>1, <3>2, <3>3, <4>1, <4>2 DEF Forward, NoteInv
    <3> QED
      BY <1>4, <1>6, <3>4, <3>5 DEF NoteInv, Signed, Forward, Response!Position
  <2> QED
    BY <1>6, <2>1, <2>2
<1>9. ResponseCalls'
  BY <1>4, <1>6, SameCalls
<1> QED
  BY <1>6, <1>7, <1>8, <1>9 DEF ResponseInv

\* add_task keeps the invariant.
LEMMA AddResponse ==
    ASSUME ResponseInv, NEW s \in Session, NEW k \in Task, Response!AddTask(s, k)
    PROVE  ResponseInv'
<1>1. PICK due \in Day : Response!Flush(s, Response!Only(k, [status |-> "open", due |-> due]))
  BY DEF Response!AddTask
<1>2. PICK row : row = [status |-> "open", due |-> due]
  OBVIOUS
<1>3. /\ ResponseRows /\ ResponseCalls /\ row \in TaskRow /\ db[k] = Absent /\ work[k] = Absent
      /\ call' = call /\ history' = history
  BY <1>2 DEF ResponseInv, Response!AddTask, TaskRow
<1>4. /\ ResponseRows' /\ db' = db /\ Loads
      /\ \A j \in Response!Keys : j # k => work'[j] = work[j]
      /\ work'[k] = Absent \/ work'[k] = row
  <2>1. /\ ResponseRows' /\ db' = db /\ Loads
        /\ \A j \in Response!Keys : j # k => work'[j] = work[j]
        /\ work'[k] = work[k] \/ work'[k] = Response!Set(work[k], Response!Copy(s, k), row)
    BY <1>1, <1>2, <1>3, FlushOne
  <2> QED
    BY <1>3, <2>1 DEF Response!Set
<1>5. AlertInv' /\ NoteInv'
  BY <1>3, <1>4, Keys, SameAlerts, SameNote DEF ResponseInv, Points, Note, Fires
<1>6. TaskInv'
  <2>1. ~Complete(work'[k]) /\ ~Complete(db[k])
    BY <1>2, <1>3, <1>4 DEF Complete
  <2>2. \A j \in Task : j # k => work'[j] = work[j]
    BY <1>4, Keys
  <2> QED
    BY <1>3, <1>4, <2>1, <2>2 DEF ResponseInv, TaskInv, ResponseCalls, Complete
<1>7. ResponseCalls'
  BY <1>3, <1>4, SameCalls
<1> QED
  BY <1>4, <1>5, <1>6, <1>7 DEF ResponseInv

\* complete_task keeps the invariant.
LEMMA CompleteResponse ==
    ASSUME ResponseInv, NEW s \in Session, NEW k \in Task, Response!CompleteTask(s, k)
    PROVE  ResponseInv'
<1>1. PICK copy : copy = Response!Copy(s, k)
  OBVIOUS
<1>2. PICK row : row = [copy EXCEPT !.status = "complete"]
  OBVIOUS
<1>3. /\ ResponseRows /\ ResponseCalls /\ TaskInv
      /\ copy \in TaskRow /\ Response!Sees(s)[k] \in TaskRow
      /\ call' = call /\ history \subseteq history'
      /\ Response!Flush(s, Response!Only(k, row))
      /\ call[s] = [op |-> "idle"]
      /\ (\E t \in Response!Others(s) : call[t].op = "sweep" /\ k \in call[t].tasks) => "tasks" \in history'
  BY <1>1, <1>2 DEF ResponseInv, ResponseRows, Response!CompleteTask, Response!Copy, Response!Sees,
                    Response!Begin, Response!Idle
<1>4. row \in TaskRow /\ row.status = "complete" /\ row.due = copy.due
  BY <1>2, <1>3 DEF TaskRow
<1>5. /\ ResponseRows' /\ db' = db /\ Loads
      /\ \A j \in Response!Keys : j # k => work'[j] = work[j]
      /\ \/ work'[k] = work[k] /\ row = copy
         \/ work'[k] = Response!Set(work[k], copy, row) /\ writer \in {NoSession, s}
  BY <1>1, <1>3, <1>4, FlushOne
<1>6. AlertInv' /\ NoteInv'
  BY <1>3, <1>5, Keys, SameAlerts, SameNote DEF ResponseInv, Points, Note, Fires
<1>7. ResponseCalls'
  BY <1>3, <1>5, SameCalls
<1>8. TaskInv'
  <2> SUFFICES ASSUME "tasks" \notin history' PROVE TaskInv'
    BY DEF TaskInv
  <2>1. \A t \in Session : call[t].op = "sweep" => k \notin call[t].tasks
    BY <1>3 DEF Response!Others
  <2>2. Complete(work[k]) => Complete(work'[k])
    <3>1. CASE work'[k] = work[k]
      BY <3>1
    <3>2. CASE work'[k] = Response!Set(work[k], copy, row) /\ writer \in {NoSession, s}
      <4>1. work[k] \in TaskRow
        BY <1>3, <3>2 DEF Response!Sees, ResponseRows
      <4>2. Complete(work[k]) => work'[k].status = "complete" /\ work'[k] \in TaskRow
        BY <1>3, <1>4, <3>2, <4>1, NullResponse DEF Response!Set, TaskRow, Complete
      <4> QED
        BY <4>2, NullResponse DEF Complete
    <3> QED
      BY <1>5, <3>1, <3>2
  <2>3. \A j \in Task : j # k => work'[j] = work[j]
    BY <1>5, Keys
  <2> QED
    BY <1>3, <1>5, <2>1, <2>2, <2>3 DEF TaskInv, ResponseCalls, Complete
<1> QED
  BY <1>5, <1>6, <1>7, <1>8 DEF ResponseInv

\* sweep_overdue_tasks up to its SELECT keeps the invariant.
LEMMA ReadOverdueResponse ==
    ASSUME ResponseInv, NEW s \in Session, Response!ReadOverdue(s)
    PROVE  ResponseInv'
<1>1. PICK as_of \in Day :
        /\ call' = [call EXCEPT ![s] = [op |-> "sweep", tasks |-> Response!Overdue(s, as_of)]]
        /\ cache' = Response!Keep(s, [k \in Response!Overdue(s, as_of) |-> Response!Copy(s, k)])
  BY DEF Response!ReadOverdue
<1>2. PICK tasks : tasks = Response!Overdue(s, as_of)
  OBVIOUS
<1>3. /\ ResponseRows /\ ResponseCalls /\ TaskInv
      /\ UNCHANGED <<db, work, writer>> /\ history \subseteq history'
      /\ (\E k \in Task : Response!Pending(s, k)) => "tasks" \in history'
  BY DEF ResponseInv, Response!ReadOverdue
<1>4. /\ tasks \subseteq Task
      /\ \A k \in tasks : /\ Response!Sees(s)[k] \in TaskRow
                          /\ Response!Sees(s)[k].status = "open"
                          /\ Response!Copy(s, k) \in TaskRow
  BY <1>2, <1>3 DEF Response!Overdue, Response!Sees, Response!Copy, ResponseRows
<1>5. PICK rows : rows = [k \in tasks |-> Response!Copy(s, k)]
  OBVIOUS
<1>6. ResponseRows'
  <2>1. cache' = [cache EXCEPT ![s] = Response!Replaced(@, rows)]
    BY <1>1, <1>2, <1>5 DEF Response!Keep
  <2>2. DOMAIN rows = tasks /\ \A k \in tasks : rows[k] \in TaskRow
    BY <1>4, <1>5
  <2>3. /\ DOMAIN cache' = Session
        /\ \A t \in Session : /\ DOMAIN cache'[t] = Response!Keys
                              /\ cache'[t]["notification"] \in NoteRow \union {NotLoaded}
                              /\ \A k \in Task : cache'[t][k] \in TaskRow \union {NotLoaded}
    BY <1>3, <1>4, <2>1, <2>2, Keys DEF ResponseRows, Response!Replaced
  <2> QED
    BY <1>3, <2>3 DEF ResponseRows, Response!Keys
<1>7. /\ DOMAIN call' = Session /\ call'[s] = [op |-> "sweep", tasks |-> tasks]
      /\ \A t \in Session : t # s => call'[t] = call[t]
  BY <1>1, <1>2, <1>3 DEF ResponseCalls
<1>8. ResponseCalls'
  <2>1. \A k \in tasks : cache'[s][k] = Response!Copy(s, k)
    BY <1>1, <1>2, <1>3, <1>4, Keys DEF Response!Keep, Response!Replaced, ResponseRows
  <2>2. \A t \in Session : t # s => cache'[t] = cache[t]
    BY <1>1, <1>3 DEF Response!Keep, ResponseRows
  <2> QED
    BY <1>3, <1>4, <1>7, <2>1, <2>2, NullResponse DEF ResponseCalls
<1>9. AlertInv' /\ NoteInv'
  BY <1>3, <1>7, Keys, SameAlerts, SameNote DEF ResponseInv, Points, Note, Fires
<1>10. TaskInv'
  <2> SUFFICES ASSUME "tasks" \notin history' PROVE TaskInv'
    BY DEF TaskInv
  <2>1. ASSUME NEW k \in tasks PROVE ~Complete(work[k])
    <3>1. CASE work[k] = Response!Sees(s)[k]
      BY <1>4, <2>1, <3>1 DEF Complete
    <3>2. CASE work[k] # Response!Sees(s)[k]
      BY <1>3, <1>4, <2>1, <3>2 DEF Response!Sees, Response!Pending, ResponseRows
    <3> QED
      BY <3>1, <3>2
  <2> QED
    BY <1>3, <1>7, <2>1 DEF TaskInv, Complete
<1> QED
  BY <1>6, <1>8, <1>9, <1>10 DEF ResponseInv

\* The flush of sweep_overdue_tasks keeps the invariant.
LEMMA MarkOverdueResponse ==
    ASSUME ResponseInv, NEW s \in Session, Response!MarkOverdue(s)
    PROVE  ResponseInv'
<1>1. PICK rows : rows = [k \in call[s].tasks |-> [Response!Copy(s, k) EXCEPT !.status = "overdue"]]
  OBVIOUS
<1>2. /\ ResponseRows /\ ResponseCalls /\ TaskInv /\ call[s].op = "sweep" /\ call[s].tasks \subseteq Task
      /\ Response!Flush(s, rows) /\ history' = history
      /\ call' = [call EXCEPT ![s] = [op |-> "idle"]]
  BY <1>1 DEF ResponseInv, ResponseCalls, Response!MarkOverdue, Response!Idle
<1>3. /\ DOMAIN call' = Session /\ call'[s] = [op |-> "idle"]
      /\ \A t \in Session : t # s => call'[t] = call[t]
  BY <1>2 DEF ResponseCalls
<1>4. /\ DOMAIN rows = call[s].tasks
      /\ \A k \in call[s].tasks : rows[k] \in TaskRow /\ rows[k].status = "overdue"
  <2>1. \A k \in call[s].tasks : Response!Copy(s, k) \in TaskRow
    BY <1>2, NullResponse DEF ResponseCalls, ResponseRows, Response!Copy
  <2> QED
    BY <1>1, <2>1 DEF TaskRow
<1>5. ResponseRows' /\ Sets(s, rows) /\ db' = db /\ Loads
  BY <1>2, <1>4, Keys, ResponseFlush
<1>6. \A k \in Response!Keys : k \notin call[s].tasks => work'[k] = work[k]
  BY <1>4, <1>5 DEF Sets
<1>7. ResponseCalls'
  BY <1>2, <1>3, <1>5 DEF ResponseCalls, Loads
<1>8. AlertInv' /\ NoteInv'
  BY <1>2, <1>3, <1>5, <1>6, Keys, SameAlerts, SameNote DEF ResponseInv, Points, Note, Fires
<1>9. TaskInv'
  <2> SUFFICES ASSUME "tasks" \notin history PROVE TaskInv'
    BY <1>2 DEF TaskInv
  <2>1. ASSUME NEW k \in Task, k \in call[s].tasks PROVE ~Complete(work'[k]) /\ ~Complete(work[k])
    <3>1. ~Complete(work[k]) /\ (work[k] \in TaskRow \union {Absent})
      BY <1>2, <2>1 DEF TaskInv, ResponseRows
    <3>2. CASE work'[k] = work[k]
      BY <3>1, <3>2
    <3>3. CASE work'[k] = Response!Set(work[k], Response!Copy(s, k), rows[k])
      <4>1. rows[k] \in TaskRow /\ rows[k].status = "overdue"
        BY <1>4, <2>1
      <4>2. work'[k].status # "complete"
        BY <3>1, <3>3, <4>1, NullResponse DEF Response!Set, TaskRow, Complete
      <4> QED
        BY <3>1, <4>2 DEF Complete
    <3> QED
      BY <1>5, <2>1, <3>2, <3>3, Keys DEF Sets
  <2>2. \A k \in Task : k \notin call[s].tasks => work'[k] = work[k]
    BY <1>6, Keys
  <2>3. ASSUME NEW k \in Task PROVE Complete(db'[k]) => Complete(work'[k])
    BY <1>2, <1>5, <2>1, <2>2, <2>3 DEF TaskInv
  <2>4. ASSUME NEW k \in Task PROVE ~Complete(work[k]) => ~Complete(work'[k])
    BY <2>1, <2>2, <2>4
  <2> QED
    BY <1>2, <1>3, <2>3, <2>4 DEF TaskInv, ResponseCalls, Complete
<1> QED
  BY <1>5, <1>7, <1>8, <1>9 DEF ResponseInv

\* fire_due_alerts up to its SELECT keeps the invariant.
LEMMA ReadAlertsResponse ==
    ASSUME ResponseInv, NEW s \in Session, Response!ReadAlerts(s)
    PROVE  ResponseInv'
<1>1. PICK as_of \in Day : call' = [call EXCEPT ![s] = [op |-> "fire", due |-> Response!Due(s, as_of)]]
  BY DEF Response!ReadAlerts
<1>2. PICK due : due = Response!Due(s, as_of)
  OBVIOUS
<1>3. /\ ResponseRows /\ ResponseCalls /\ AlertInv
      /\ UNCHANGED <<db, work, writer, cache>> /\ history \subseteq history'
      /\ (\E t \in Response!Others(s) : call[t].op = "fire" \/ \E p \in Point : Response!Pending(s, p))
            => "alerts" \in history'
  BY DEF ResponseInv, Response!ReadAlerts
<1>4. due \subseteq Point /\ \A p \in due : Response!Sees(s)[p].fired = 0
  BY <1>2 DEF Response!Due
<1>5. /\ DOMAIN call' = Session /\ call'[s] = [op |-> "fire", due |-> due]
      /\ \A t \in Session : t # s => call'[t] = call[t]
  BY <1>1, <1>2, <1>3 DEF ResponseCalls
<1>6. ResponseRows' /\ ResponseCalls'
  BY <1>3, <1>4, <1>5 DEF ResponseRows, ResponseCalls, Response!Keys
<1>7. TaskInv' /\ NoteInv'
  BY <1>3, <1>5, Keys, SameTasks, SameNote DEF ResponseInv, Tasks, Note, Sweeps
<1>8. AlertInv'
  <2> SUFFICES ASSUME "alerts" \notin history' PROVE AlertInv'
    BY DEF AlertInv
  <2>1. ASSUME NEW t \in Session, t # s PROVE call[t].op # "fire"
    BY <1>3, <2>1 DEF Response!Others
  <2>2. ASSUME NEW p \in due PROVE work[p].fired = 0
    <3>1. CASE writer \in {NoSession, s}
      BY <1>3, <1>4, <2>2, <3>1 DEF Response!Sees, ResponseRows
    <3>2. CASE writer \notin {NoSession, s}
      <4>1. writer \in Response!Others(s)
        BY <1>3, <3>2 DEF Response!Others, ResponseRows
      <4>2. work[p] = db[p]
        BY <1>3, <1>4, <2>2, <3>2, <4>1 DEF Response!Pending
      <4> QED
        BY <1>4, <2>2, <3>2, <4>2 DEF Response!Sees
    <3> QED
      BY <3>1, <3>2
  <2> QED
    BY <1>3, <1>5, <2>1, <2>2 DEF AlertInv
<1> QED
  BY <1>6, <1>7, <1>8 DEF ResponseInv

\* Alert points are written: none is taken back, and due ones fire once.
LEMMA PointsResponse ==
    ASSUME ResponseInv, NEW s \in Session, NEW rows, Response!Write(s, rows),
           DOMAIN rows \subseteq Point,
           \A p \in DOMAIN rows : rows[p] \in PointRow /\ work[p].fired <= rows[p].fired,
           DOMAIN call' = Session, \A t \in Session : t # s => call'[t] = call[t],
           call'[s] = [op |-> "idle"], history' = history,
           "alerts" \notin history =>
               \A t \in Session, p \in DOMAIN rows :
                   call[t].op = "fire" /\ t # s /\ p \in call[t].due
                       => rows[p].fired = work[p].fired,
           \A p \in DOMAIN rows : rows[p].fired = work[p].fired
               \/ (rows[p].fired = work[p].fired + 1 /\ call[s].op = "fire" /\ p \in call[s].due)
    PROVE  ResponseInv'
<1>1. /\ ResponseRows /\ ResponseCalls /\ AlertInv
      /\ writer \in {NoSession, s} /\ writer' = s /\ db' = db /\ cache' = cache
  BY DEF ResponseInv, Response!Write
<1>2. /\ DOMAIN work' = Response!Keys
      /\ \A k \in Response!Keys : work'[k] = IF k \in DOMAIN rows THEN rows[k] ELSE work[k]
  BY <1>1 DEF Response!Write, Response!Replaced, Response!Sees, ResponseRows
<1>3. work'["notification"] = work["notification"] /\ \A k \in Task : work'[k] = work[k]
  BY <1>2, Keys
<1>4. \A p \in Point : work'[p] = IF p \in DOMAIN rows THEN rows[p] ELSE work[p]
  BY <1>2, Keys
<1>5. ResponseRows'
  <2>1. \A p \in Point : work'[p] \in PointRow /\ db'[p].fired <= work'[p].fired
    BY <1>1, <1>4 DEF ResponseRows, PointRow
  <2> QED
    BY <1>1, <1>2, <1>3, <2>1, SessionAssumption DEF ResponseRows, Response!Keys
<1>6. ResponseCalls'
  BY <1>1 DEF ResponseCalls
<1>7. TaskInv' /\ NoteInv'
  <2>1. Tasks /\ Note
    BY <1>1, <1>3 DEF Tasks, Note
  <2>2. \A t \in Session : Sweeps(t)
    BY DEF Sweeps
  <2> QED
    BY <1>1, <2>1, <2>2, SameTasks, SameNote DEF ResponseInv
<1>8. AlertInv'
  <2> SUFFICES ASSUME "alerts" \notin history PROVE AlertInv'
    BY DEF AlertInv
  <2>1. ASSUME NEW p \in Point PROVE work'[p].fired <= 1
    BY <1>1, <1>4, <2>1 DEF AlertInv
  <2>2. ASSUME NEW t \in Session, NEW p \in Point, call'[t].op = "fire", p \in call'[t].due
        PROVE  work'[p].fired = 0
    <3>1. t # s /\ call'[t] = call[t]
      BY <2>2
    <3> QED
      BY <1>1, <1>4, <2>2, <3>1 DEF AlertInv
  <2>3. \A t \in Session : call'[t].op = "fire" => t # s /\ call[t].op = "fire" /\ call'[t].due \subseteq Point
    BY <1>1 DEF ResponseCalls
  <2> QED
    BY <1>1, <2>1, <2>2, <2>3 DEF AlertInv
<1> QED
  BY <1>5, <1>6, <1>7, <1>8 DEF ResponseInv

\* The inserts of fire_due_alerts keep the invariant.
LEMMA InsertResponse ==
    ASSUME ResponseInv, NEW s \in Session, Response!InsertAlerts(s)
    PROVE  ResponseInv'
<1>1. /\ ResponseRows /\ ResponseCalls /\ AlertInv /\ history' = history
      /\ call[s].op = "fire" /\ call[s].due \subseteq Point
      /\ DOMAIN call' = Session /\ call'[s] = [op |-> "idle"]
      /\ \A t \in Session : t # s => call'[t] = call[t]
  BY DEF ResponseInv, Response!InsertAlerts, ResponseCalls, Response!Idle
<1>2. CASE UNCHANGED <<db, work, writer, cache>>
  <2>1. ResponseRows' /\ ResponseCalls'
    BY <1>1, <1>2 DEF ResponseRows, ResponseCalls, Response!Keys
  <2> QED
    BY <1>1, <1>2, <2>1, SameAlerts, SameTasks, SameNote
       DEF ResponseInv, Points, Tasks, Note, Fires, Sweeps
<1>3. CASE Response!Write(s, [p \in call[s].due |-> [Response!Sees(s)[p] EXCEPT !.fired = @ + 1]])
  <2>1. PICK rows : rows = [p \in call[s].due |-> [Response!Sees(s)[p] EXCEPT !.fired = @ + 1]]
    OBVIOUS
  <2>2. DOMAIN rows = call[s].due /\ Response!Write(s, rows)
    BY <1>3, <2>1
  <2>3. ASSUME NEW p \in DOMAIN rows
        PROVE  rows[p] \in PointRow /\ rows[p].fired = work[p].fired + 1 /\ work[p].fired <= rows[p].fired
    <3>1. p \in Point /\ Response!Sees(s)[p] = work[p]
      BY <1>1, <2>2, <2>3 DEF Response!Write, Response!Sees, ResponseRows
    <3>2. work[p] \in PointRow
      BY <1>1, <3>1 DEF ResponseRows
    <3> QED
      BY <2>1, <2>2, <2>3, <3>1, <3>2 DEF PointRow
  <2>4. "alerts" \notin history =>
            \A t \in Session : call[t].op = "fire" => t = s
    BY <1>1 DEF AlertInv
  <2>5. \A p \in DOMAIN rows : rows[p].fired = work[p].fired
            \/ (rows[p].fired = work[p].fired + 1 /\ call[s].op = "fire" /\ p \in call[s].due)
    BY <1>1, <2>2, <2>3
  <2> QED
    BY <1>1, <2>2, <2>3, <2>4, <2>5, PointsResponse
<1> QED
  BY <1>2, <1>3 DEF Response!InsertAlerts

\* acknowledge_alert keeps the invariant.
LEMMA AcknowledgeResponse ==
    ASSUME ResponseInv, NEW s \in Session, NEW p \in Point, Response!AcknowledgeAlert(s, p)
    PROVE  ResponseInv'
<1>1. PICK rows : rows = Response!Only(p, [Response!Sees(s)[p] EXCEPT !.acknowledged = @ + 1])
  OBVIOUS
<1>2. /\ ResponseRows /\ ResponseCalls /\ history' = history /\ call' = call
      /\ call[s] = [op |-> "idle"] /\ Response!Write(s, rows)
      /\ DOMAIN call' = Session
  BY <1>1 DEF ResponseInv, ResponseCalls, Response!AcknowledgeAlert, Response!Begin, Response!Idle
<1>3. DOMAIN rows = {p} /\ rows[p] = [work[p] EXCEPT !.acknowledged = @ + 1]
  BY <1>1, <1>2 DEF Response!Only, Response!Write, Response!Sees, ResponseRows
<1>4. work[p] \in PointRow
  BY <1>2 DEF ResponseRows
<1>5. rows[p] \in PointRow /\ rows[p].fired = work[p].fired /\ work[p].fired <= rows[p].fired
  BY <1>3, <1>4 DEF PointRow
<1> QED
  BY <1>2, <1>3, <1>5, PointsResponse

\* A query and the end of a session keep the invariant.
LEMMA LoadResponse ==
    ASSUME ResponseInv, NEW s \in Session,
           (\E k \in {"notification"} \union Task : Response!Load(s, k)) \/ Response!EndSession(s)
    PROVE  ResponseInv'
<1>1. /\ ResponseRows /\ ResponseCalls /\ UNCHANGED <<db, work, writer, call, history>>
      /\ call[s] = [op |-> "idle"]
  BY DEF ResponseInv, Response!Load, Response!EndSession, Response!Idle
<1>2. /\ DOMAIN cache' = Session
      /\ \A t \in Session : /\ t # s => cache'[t] = cache[t]
                            /\ DOMAIN cache'[t] = Response!Keys
                            /\ cache'[t]["notification"] \in NoteRow \union {NotLoaded}
                            /\ \A k \in Task : cache'[t][k] \in TaskRow \union {NotLoaded}
  <2>1. CASE Response!EndSession(s)
    BY <1>1, <2>1, Keys DEF Response!EndSession, ResponseRows
  <2>2. ASSUME Response!Load(s, "notification")
        PROVE  /\ cache' = [cache EXCEPT ![s]["notification"] = Response!Sees(s)["notification"]]
               /\ Response!Sees(s)["notification"] \in NoteRow
    BY <1>1, <2>2 DEF Response!Load, Response!Sees, ResponseRows
  <2>3. ASSUME NEW k \in Task, Response!Load(s, k)
        PROVE  /\ cache' = [cache EXCEPT ![s][k] = Response!Sees(s)[k]]
               /\ Response!Sees(s)[k] \in TaskRow
    BY <1>1, <2>3 DEF Response!Load, Response!Sees, ResponseRows
  <2>4. CASE Response!Load(s, "notification")
    BY <1>1, <2>2, <2>4, Keys DEF ResponseRows
  <2>5. ASSUME NEW k \in Task, Response!Load(s, k)
        PROVE  /\ DOMAIN cache' = Session
               /\ \A t \in Session : /\ t # s => cache'[t] = cache[t]
                                     /\ DOMAIN cache'[t] = Response!Keys
                                     /\ cache'[t]["notification"] \in NoteRow \union {NotLoaded}
                                     /\ \A j \in Task : cache'[t][j] \in TaskRow \union {NotLoaded}
    BY <1>1, <2>3, <2>5, Keys DEF ResponseRows
  <2> QED
    BY <2>1, <2>4, <2>5
<1>3. ResponseRows'
  BY <1>1, <1>2 DEF ResponseRows, Response!Keys
<1>4. ResponseCalls'
  BY <1>1, <1>2 DEF ResponseCalls
<1>5. AlertInv' /\ TaskInv' /\ NoteInv'
  BY <1>1, SameAlerts, SameTasks, SameNote DEF ResponseInv, Points, Tasks, Note, Fires, Sweeps
<1> QED
  BY <1>3, <1>4, <1>5 DEF ResponseInv

\* A commit keeps the invariant.
LEMMA CommitResponse ==
    ASSUME ResponseInv, NEW s \in Session, Response!Commit(s)
    PROVE  ResponseInv'
<1>1. /\ ResponseRows /\ ResponseCalls /\ writer = s /\ db' = work /\ work' = work
      /\ writer' = NoSession /\ UNCHANGED <<cache, call, history>>
  BY DEF ResponseInv, Response!Commit
<1>2. ResponseRows'
  BY <1>1 DEF ResponseRows, Response!Keys, PointRow
<1>3. ResponseCalls'
  BY <1>1 DEF ResponseCalls
<1>4. AlertInv' /\ TaskInv'
  BY <1>1 DEF ResponseInv, AlertInv, TaskInv, Complete
<1>5. NoteInv'
  BY <1>1, Forwards DEF ResponseInv, NoteInv, Signed, ResponseRows, Forward, Response!Position
<1> QED
  BY <1>2, <1>3, <1>4, <1>5 DEF ResponseInv

\* A rollback keeps the invariant.
LEMMA RollbackResponse ==
    ASSUME ResponseInv, NEW s \in Session, Response!Rollback(s)
    PROVE  ResponseInv'
<1>1. /\ ResponseRows /\ ResponseCalls /\ UNCHANGED <<db, history>>
      /\ work' = IF writer = s THEN db ELSE work
      /\ writer' = IF writer = s THEN NoSession ELSE writer
      /\ cache' = [cache EXCEPT ![s] = [k \in DOMAIN db |-> NotLoaded]]
      /\ DOMAIN call' = Session /\ call'[s] = [op |-> "idle"]
      /\ \A t \in Session : t # s => call'[t] = call[t]
  BY DEF ResponseInv, ResponseCalls, Response!Rollback, Response!Idle
<1>2. ResponseRows'
  <2>1. /\ DOMAIN cache' = Session
        /\ \A t \in Session : /\ DOMAIN cache'[t] = Response!Keys
                              /\ cache'[t]["notification"] \in NoteRow \union {NotLoaded}
                              /\ \A k \in Task : cache'[t][k] \in TaskRow \union {NotLoaded}
    BY <1>1, Keys DEF ResponseRows
  <2>2. CASE writer = s
    BY <1>1, <2>1, <2>2 DEF ResponseRows, Response!Keys, PointRow
  <2>3. CASE writer # s
    BY <1>1, <2>1, <2>3 DEF ResponseRows, Response!Keys
  <2> QED
    BY <2>2, <2>3
<1>3. ResponseCalls'
  BY <1>1 DEF ResponseCalls, ResponseRows
<1>4. work' = db \/ work' = work
  BY <1>1
<1>5. AlertInv'
  <2> SUFFICES ASSUME "alerts" \notin history PROVE AlertInv'
    BY <1>1 DEF AlertInv
  <2>1. \A p \in Point : work'[p].fired <= work[p].fired /\ work'[p].fired \in Nat /\ work[p].fired \in Nat
    BY <1>1, <1>4 DEF ResponseRows, PointRow
  <2>2. \A t \in Session : call'[t].op = "fire" =>
            t # s /\ call'[t] = call[t] /\ call[t].due \subseteq Point
    BY <1>1 DEF ResponseCalls
  <2>3. ASSUME NEW p \in Point PROVE work'[p].fired <= 1
    BY <2>1, <2>3 DEF ResponseInv, AlertInv
  <2>4. ASSUME NEW t \in Session, call'[t].op = "fire", NEW p \in call'[t].due PROVE work'[p].fired = 0
    BY <2>1, <2>2, <2>4 DEF ResponseInv, AlertInv
  <2>5. \A t, u \in Session : call'[t].op = "fire" /\ call'[u].op = "fire" => t = u
    BY <2>2 DEF ResponseInv, AlertInv
  <2> QED
    BY <2>3, <2>4, <2>5 DEF AlertInv
<1>6. TaskInv'
  <2>1. \A t \in Session : call'[t].op = "sweep" =>
            t # s /\ call'[t] = call[t] /\ call[t].tasks \subseteq Task
    BY <1>1 DEF ResponseCalls
  <2> QED
    BY <1>1, <1>4, <2>1 DEF ResponseInv, TaskInv, Complete
<1>7. NoteInv'
  BY ZenonT(60), <1>1, <1>4, Forwards DEF ResponseInv, NoteInv, Signed, ResponseRows, Forward, Response!Position
<1> QED
  BY <1>2, <1>3, <1>5, <1>6, <1>7 DEF ResponseInv

\* Every step of the audit response keeps its invariant.
LEMMA ResponseNext == ASSUME ResponseInv, Response!Next PROVE ResponseInv'
BY CreateResponse, ReviewResponse, AdvanceResponse, AddResponse, CompleteResponse,
   ReadOverdueResponse, MarkOverdueResponse, ReadAlertsResponse, InsertResponse,
   AcknowledgeResponse, LoadResponse, CommitResponse, RollbackResponse
   DEF Response!Next, Response!SessionStep

\* Only a commit changes what is committed.
LEMMA ResponseCommits ==
    ASSUME Response!Next PROVE UNCHANGED db \/ (db' = work /\ UNCHANGED history)
<1>1. ASSUME Response!SessionStep({"notification"} \union Task) PROVE UNCHANGED db \/ (db' = work /\ UNCHANGED history)
  BY <1>1 DEF Response!SessionStep, Response!Load, Response!EndSession, Response!Commit, Response!Rollback
<1>2. \A s \in Session : \A rows : Response!Flush(s, rows) \/ Response!Write(s, rows) => UNCHANGED db
  BY DEF Response!Flush, Response!Write
<1> QED
  BY <1>1, <1>2 DEF Response!Next, Response!CreateNotification, Response!ReadAlerts, Response!InsertAlerts,
     Response!AcknowledgeAlert, Response!AddTask, Response!CompleteTask, Response!ReadOverdue,
     Response!MarkOverdue, Response!RecordReview, Response!AdvanceStatus

\* A committed notification moves forward, a completed task stays so.
LEMMA ResponseAdvances ==
    ASSUME ResponseInv, ResponseInv', UNCHANGED db \/ (db' = work /\ UNCHANGED history)
    PROVE  Response!OnlyForward /\ Response!CompletedStays
<1>1. CASE UNCHANGED db
  <2>1. "status" \notin history' => Signed(db'["notification"])
    BY DEF ResponseInv, NoteInv
  <2>2. Forward(db["notification"], db["notification"])
    BY Forwards DEF ResponseInv, ResponseRows
  <2>3. Response!OnlyForward
    BY <1>1, <2>1, <2>2 DEF Response!OnlyForward, Signed, Forward
  <2> QED
    BY <1>1, <2>3 DEF Response!CompletedStays
<1>2. CASE db' = work /\ UNCHANGED history
  <2>1. Response!CompletedStays
    BY <1>2 DEF ResponseInv, TaskInv, Complete, Response!CompletedStays
  <2>2. Response!OnlyForward
    BY <1>2 DEF ResponseInv, NoteInv, Signed, Forward, Response!OnlyForward
  <2> QED
    BY <2>1, <2>2
<1> QED
  BY <1>1, <1>2

-----------------------------------------------------------------------------
(* The TINA sweep *)

BaselineRow == [sweep : {"not_started", "in_progress", "complete"}, certified : BOOLEAN]
Entered == Tina!Assumption \union Posting

BaselineRows ==
    /\ DOMAIN db = Tina!Keys /\ DOMAIN work = Tina!Keys
    /\ db["baseline"] \in BaselineRow /\ work["baseline"] \in BaselineRow
    /\ \A k \in Entered : db[k] # Absent => work[k] # Absent
    /\ db["findings"] \subseteq work["findings"]
    /\ writer \in Session \union {NoSession}
    /\ writer = NoSession => work = db
    /\ history \in [raced : BOOLEAN, late : BOOLEAN]
    /\ DOMAIN cache = Session
    /\ \A s \in Session : /\ DOMAIN cache[s] = Tina!Keys
                          /\ cache[s]["baseline"] \in BaselineRow \union {NotLoaded}
    /\ DOMAIN call = Session
    /\ \A s \in Session :
          \/ call[s] = [op |-> "idle"]
          \/ call[s] = [op |-> "start"]
          \/ call[s] = [op |-> "match", found |-> call[s].found, todo |-> call[s].todo]

\* A baseline is in progress for the session that sweeps it, which holds the lock
\* from its first flush on, and for nobody else.
SweepHolds ==
    /\ db["baseline"].sweep # "in_progress"
    /\ (\A s \in Session : call[s] = [op |-> "idle"]) => work["baseline"].sweep # "in_progress"
    /\ \A s \in Session :
          IF call[s] = [op |-> "idle"]
          THEN cache[s]["baseline"] # NotLoaded => cache[s]["baseline"].sweep # "in_progress"
          ELSE /\ writer = s
               /\ work["baseline"].sweep = "in_progress"
               /\ cache[s]["baseline"] # NotLoaded /\ cache[s]["baseline"].sweep = "in_progress"

\* Nothing changes under the sweep: what it has found so far is what it would find now.
SweepFinds ==
    \A s \in Session : call[s].op = "match" =>
        \A a \in Tina!Assumption : work[a] # Absent =>
            \/ \E i \in call[s].todo : a = Assumptions[i]
            \/ Tina!Compare(work, a) \subseteq call[s].found

\* A sweep that is not committed yet covers what is committed.
Logged(old, rows, n) ==
    \A a \in Tina!Assumption : old[a] # Absent =>
        /\ \E f \in Tina!Findings(rows, n) : f.assumption = a
        /\ {c \in Tina!Compare(old, a) : c.posting # NoMatch} \subseteq Tina!Findings(rows, n)
SweepLogged == \A n \in Tina!Sweeps(work) \ Tina!Sweeps(db) : Logged(db, work, n)

\* Findings come with the completion of the one sweep.
Once(rows) ==
    /\ Tina!Sweeps(rows) \subseteq {1}
    /\ rows["baseline"].sweep # "complete" => rows["findings"] = {}
SweptOnce == ~history.raced => Once(db) /\ Once(work)

\* What it has found so far is what there is to find.
SweepTrue ==
    \A s \in Session : call[s].op = "match" =>
        /\ call[s].found \subseteq Tina!Comparisons(work)
        /\ \A i \in call[s].todo : i \in DOMAIN Assumptions /\ work[Assumptions[i]] # Absent

\* A baseline that is swept stays so, and no other is certified.
CertifiesSwept ==
    ~history.raced =>
        /\ \A rows \in {db, work} : rows["baseline"].certified => Tina!Swept(rows)
        /\ Tina!Swept(db) => Tina!Swept(work)
        /\ \A s \in Session : cache[s]["baseline"] # NotLoaded /\ cache[s]["baseline"].sweep = "complete"
                             => Tina!Sees(s)["baseline"].sweep = "complete"

\* Its findings are the comparisons of what is entered.
Reported(rows) == rows["findings"] = {[sweep |-> 1, row |-> r] : r \in Tina!Comparisons(rows)}
SweepReports ==
    ~history.raced /\ ~history.late => \A rows \in {db, work} : Tina!Swept(rows) => Reported(rows)

TinaInv ==
    /\ BaselineRows /\ SweepHolds /\ SweepFinds /\ SweepLogged /\ SweptOnce
    /\ SweepTrue /\ CertifiesSwept /\ SweepReports

\* What is compared depends on what is entered.
LEMMA SameComparisons ==
  ASSUME NEW old, NEW rows, \A k \in Entered : rows[k] = old[k]
  PROVE  Tina!Comparisons(rows) = Tina!Comparisons(old)
<1>1. ASSUME NEW a PROVE Tina!Compare(rows, a) = Tina!Compare(old, a)
  <2>1. Tina!Matching(rows, a) = Tina!Matching(old, a)
    BY DEF Tina!Matching, Entered
  <2> QED
    BY <2>1 DEF Tina!Compare
<1>2. {b \in Tina!Assumption : rows[b] # Absent} = {b \in Tina!Assumption : old[b] # Absent}
  BY DEF Entered
<1> QED
  BY <1>1, <1>2 DEF Tina!Comparisons

\* The rows of a baseline are told apart by their keys.
LEMMA TinaKeys ==
    /\ "baseline" \in Tina!Keys /\ "findings" \in Tina!Keys
    /\ \A k \in Entered : k \in Tina!Keys /\ k # "baseline" /\ k # "findings"
    /\ NotLoaded \notin BaselineRow /\ Absent \notin BaselineRow
BY BaselineAssumption, NullAssumption DEF Tina!Keys, Tina!Assumption, Entered, BaselineRow

\* A baseline starts without findings.
LEMMA TinaInit == Tina!Init => TinaInv
<1> SUFFICES ASSUME Tina!Init PROVE TinaInv
  OBVIOUS
<1>1. PICK first : first = [sweep |-> "not_started", certified |-> FALSE]
  OBVIOUS
<1>2. first \in BaselineRow /\ first.sweep = "not_started"
  BY <1>1 DEF BaselineRow
<1>3. /\ DOMAIN db = Tina!Keys /\ db["baseline"] = first /\ db["findings"] = {}
      /\ \A k \in Entered : db[k] = Absent
      /\ work = db /\ writer = NoSession
      /\ cache = [s \in Session |-> [k \in DOMAIN db |-> NotLoaded]]
      /\ call = [s \in Session |-> [op |-> "idle"]]
      /\ history = [raced |-> FALSE, late |-> FALSE]
  BY <1>1, TinaKeys DEF Tina!Init, Tina!Start, Tina!Idle
<1>4. BaselineRows
  BY <1>2, <1>3, TinaKeys DEF BaselineRows
<1>5. SweepHolds /\ SweepFinds
  BY <1>2, <1>3, TinaKeys DEF SweepHolds, SweepFinds
<1>6. SweepLogged /\ SweptOnce
  BY <1>3 DEF SweepLogged, SweptOnce, Once, Tina!Sweeps
<1>7. SweepTrue /\ CertifiesSwept /\ SweepReports
  <2>1. first.certified = FALSE
    BY <1>1
  <2> QED
    BY <1>2, <1>3, <2>1, TinaKeys DEF SweepTrue, CertifiesSwept, SweepReports, Tina!Swept
<1> QED
  BY <1>4, <1>5, <1>6, <1>7 DEF TinaInv

\* Whoever may write sees what is being written, and nobody is sweeping meanwhile.
LEMMA TinaWriter ==
  ASSUME TinaInv, NEW s \in Session, writer \in {NoSession, s}
  PROVE  /\ Tina!Sees(s) = work
         /\ \A t \in Session : t # s => call[t] = [op |-> "idle"]
         /\ call[s] = [op |-> "idle"] => work["baseline"].sweep # "in_progress"
BY SessionAssumption DEF TinaInv, BaselineRows, SweepHolds, Tina!Sees

\* Nobody has a baseline in progress in hand but the session that sweeps it.
LEMMA TinaCopy ==
  ASSUME TinaInv, NEW s \in Session
  PROVE  /\ Tina!Sees(s)["baseline"] \in BaselineRow
         /\ Tina!Copy(s, "baseline") \in BaselineRow
         /\ call[s] = [op |-> "idle"] =>
              /\ Tina!Sees(s)["baseline"].sweep # "in_progress"
              /\ Tina!Copy(s, "baseline").sweep # "in_progress"
         /\ call[s] # [op |-> "idle"] => Tina!Copy(s, "baseline").sweep = "in_progress"
<1>1. Tina!Sees(s)["baseline"] \in BaselineRow
  BY DEF TinaInv, BaselineRows, Tina!Sees
<1>2. call[s] = [op |-> "idle"] => Tina!Sees(s)["baseline"].sweep # "in_progress"
  BY TinaWriter DEF TinaInv, SweepHolds, Tina!Sees
<1>3. CASE cache[s]["baseline"] = NotLoaded
  BY <1>1, <1>2, <1>3 DEF TinaInv, SweepHolds, Tina!Copy
<1>4. CASE cache[s]["baseline"] # NotLoaded
  BY <1>1, <1>2, <1>4 DEF TinaInv, BaselineRows, SweepHolds, Tina!Copy
<1> QED
  BY <1>3, <1>4

\* What a flush of the baseline does to it: the columns that were set.
LEMMA BaselineSet ==
  ASSUME NEW row \in BaselineRow, NEW copy \in BaselineRow, NEW new \in BaselineRow
  PROVE  Tina!Set(row, copy, new) =
           [sweep |-> IF new.sweep = copy.sweep THEN row.sweep ELSE new.sweep,
            certified |-> IF new.certified = copy.certified THEN row.certified ELSE new.certified]
<1>1. row = [sweep |-> row.sweep, certified |-> row.certified] /\ row # Absent
  BY TinaKeys DEF BaselineRow
<1>2. DOMAIN row = {"sweep", "certified"}
  BY <1>1
<1> QED
  BY <1>1, <1>2 DEF Tina!Set

\* A flush of the baseline changes that row and the copy of it.
LEMMA BaselineFlushed ==
  ASSUME BaselineRows, NEW s \in Session, NEW new
  PROVE  /\ Tina!Flushed(s, Tina!Only("baseline", new)) =
              [k \in Tina!Keys |-> IF k = "baseline"
                                   THEN Tina!Set(Tina!Sees(s)["baseline"], Tina!Copy(s, "baseline"), new)
                                   ELSE Tina!Sees(s)[k]]
         /\ DOMAIN Tina!Keep(s, Tina!Only("baseline", new)) = Session
         /\ Tina!Keep(s, Tina!Only("baseline", new))[s]["baseline"] = new
         /\ DOMAIN Tina!Keep(s, Tina!Only("baseline", new))[s] = Tina!Keys
         /\ \A t \in Session : t # s => Tina!Keep(s, Tina!Only("baseline", new))[t] = cache[t]
BY TinaKeys DEF BaselineRows, Tina!Flushed, Tina!Only, Tina!Keep, Tina!Replaced

\* A sweep covers no less when findings are added.
LEMMA LogGrows ==
  ASSUME NEW old, NEW rows, NEW rows2, NEW n,
         rows["findings"] \subseteq rows2["findings"], Logged(old, rows, n)
  PROVE  Logged(old, rows2, n)
<1>1. Tina!Findings(rows, n) \subseteq Tina!Findings(rows2, n)
  BY DEF Tina!Findings
<1> QED
  BY <1>1 DEF Logged

\* An assumption or a posting that is entered keeps the invariant.
LEMMA TinaEnter ==
  ASSUME TinaInv, NEW s \in Session, NEW k \in Entered, Tina!Enter(s, k)
  PROVE  TinaInv'
<1>1. /\ BaselineRows /\ SweepHolds /\ SweepFinds /\ SweepLogged /\ SweptOnce
      /\ SweepTrue /\ CertifiesSwept /\ SweepReports
  BY DEF TinaInv
<1>2. /\ call[s] = [op |-> "idle"] /\ db[k] = Absent
      /\ writer \in {NoSession, s} /\ writer' = s
      /\ history' = [history EXCEPT !.late = @ \/ Tina!Swept(db) \/ Tina!Swept(work)]
      /\ UNCHANGED <<db, cache, call>>
  BY DEF Tina!Enter, Tina!Begin, Tina!Write, Tina!Idle
<1>3. /\ Tina!Sees(s) = work /\ \A t \in Session : call[t] = [op |-> "idle"]
      /\ work["baseline"].sweep # "in_progress"
  BY <1>2, TinaWriter
<1>4. work' = Tina!Replaced(work, Tina!Only(k, "entered"))
  BY <1>3 DEF Tina!Enter, Tina!Write
<1>5. DOMAIN work' = Tina!Keys /\ \A x \in Tina!Keys : x # k => work'[x] = work[x]
  BY <1>1, <1>4 DEF BaselineRows, Tina!Replaced, Tina!Only
<1>6. work'["baseline"] = work["baseline"] /\ work'["findings"] = work["findings"]
  BY <1>5, TinaKeys
<1>7. history' \in [raced : BOOLEAN, late : BOOLEAN] /\ history'.raced = history.raced
  BY <1>1, <1>2 DEF BaselineRows, Tina!Swept
<1>8. BaselineRows'
  <2>1. \A x \in Entered : db'[x] # Absent => work'[x] # Absent
    BY <1>1, <1>2, <1>5, TinaKeys DEF BaselineRows
  <2>2. writer' \in Session /\ writer' # NoSession
    BY <1>2, SessionAssumption
  <2> QED
    BY <1>1, <1>2, <1>5, <1>6, <1>7, <2>1, <2>2 DEF BaselineRows
<1>9. SweepHolds' /\ SweepFinds'
  BY <1>1, <1>2, <1>3, <1>6 DEF SweepHolds, SweepFinds
<1>10. SweepLogged' /\ SweptOnce'
  <2>1. \A n \in Tina!Sweeps(work') \ Tina!Sweeps(db') : Logged(db', work', n)
    <3>1. Tina!Sweeps(work') = Tina!Sweeps(work)
      BY <1>6 DEF Tina!Sweeps
    <3>2. ASSUME NEW n \in Tina!Sweeps(work) \ Tina!Sweeps(db) PROVE Logged(db, work', n)
      <4>1. Logged(db, work, n)
        BY <1>1 DEF SweepLogged
      <4> QED
        BY <1>6, <4>1, LogGrows
    <3> QED
      BY <1>2, <3>1, <3>2
  <2>2. ~history'.raced => Once(db') /\ Once(work')
    BY <1>1, <1>2, <1>6, <1>7 DEF SweptOnce, Once, Tina!Sweeps
  <2> QED
    BY <2>1, <2>2 DEF SweepLogged, SweptOnce
<1>11. SweepTrue'
  BY <1>2, <1>3 DEF SweepTrue
<1>12. CertifiesSwept'
  <2>1. \A t \in Session : Tina!Sees(t)'["baseline"] = Tina!Sees(t)["baseline"]
    BY <1>1, <1>2, <1>6, SessionAssumption DEF BaselineRows, Tina!Sees
  <2> QED
    BY <1>1, <1>2, <1>6, <1>7, <2>1 DEF CertifiesSwept, Tina!Swept
<1>13. SweepReports'
  <2>1. history'.late = (history.late \/ Tina!Swept(db) \/ Tina!Swept(work))
    BY <1>1, <1>2 DEF BaselineRows
  <2> QED
    BY <1>2, <1>6, <2>1 DEF SweepReports, Tina!Swept
<1> QED
  BY <1>8, <1>9, <1>10, <1>11, <1>12, <1>13 DEF TinaInv

\* run_sweep up to its first flush keeps the invariant.
LEMMA TinaStart ==
  ASSUME TinaInv, NEW s \in Session, Tina!StartSweep(s)
  PROVE  TinaInv'
<1>1. /\ BaselineRows /\ SweepHolds /\ SweepFinds /\ SweepLogged /\ SweptOnce
      /\ SweepTrue /\ CertifiesSwept /\ SweepReports
  BY DEF TinaInv
<1>2. PICK copy, new : /\ copy = Tina!Copy(s, "baseline")
                       /\ new = [copy EXCEPT !.sweep = "in_progress"]
  OBVIOUS
<1>3. /\ call[s] = [op |-> "idle"] /\ copy.sweep # "complete"
      /\ call' = [call EXCEPT ![s] = [op |-> "start"]]
      /\ Tina!Flush(s, Tina!Only("baseline", new))
      /\ history' = [history EXCEPT !.raced = @ \/ Tina!Stale(s, "baseline")
                                              \/ \E t \in Session \ {s} : call[t] # [op |-> "idle"]]
  BY <1>2 DEF Tina!StartSweep, Tina!Begin, Tina!MayStart, Tina!BeginSweep, Tina!Idle
<1>4. copy \in BaselineRow /\ copy.sweep = "not_started"
  BY <1>2, <1>3, TinaCopy DEF BaselineRow
<1>5. new \in BaselineRow /\ new.sweep = "in_progress" /\ new.certified = copy.certified /\ new # copy
  BY <1>2, <1>4 DEF BaselineRow
<1>6. /\ writer \in {NoSession, s} /\ writer' = s /\ UNCHANGED db
      /\ work' = Tina!Flushed(s, Tina!Only("baseline", new))
      /\ cache' = Tina!Keep(s, Tina!Only("baseline", new))
  BY <1>2, <1>3, <1>5 DEF Tina!Flush, Tina!Only
<1>7. Tina!Sees(s) = work /\ \A t \in Session : call[t] = [op |-> "idle"]
  BY <1>3, <1>6, TinaWriter
<1>8. Tina!Set(work["baseline"], copy, new) = [sweep |-> "in_progress", certified |-> work["baseline"].certified]
  <2>1. work["baseline"] \in BaselineRow
    BY <1>1 DEF BaselineRows
  <2> QED
    BY <1>4, <1>5, <2>1, BaselineSet
<1>9. /\ DOMAIN work' = Tina!Keys
      /\ work'["baseline"] = [sweep |-> "in_progress", certified |-> work["baseline"].certified]
      /\ \A k \in Tina!Keys : k # "baseline" => work'[k] = work[k]
  BY <1>1, <1>2, <1>6, <1>7, <1>8, BaselineFlushed, TinaKeys
<1>10. /\ DOMAIN cache' = Session /\ cache'[s]["baseline"] = new
       /\ DOMAIN cache'[s] = Tina!Keys /\ \A t \in Session : t # s => cache'[t] = cache[t]
  BY <1>1, <1>6, BaselineFlushed
<1>11. /\ work'["baseline"] \in BaselineRow /\ work'["baseline"].sweep = "in_progress"
       /\ work'["findings"] = work["findings"]
  BY <1>1, <1>9, TinaKeys DEF BaselineRows, BaselineRow
<1>12. /\ DOMAIN call' = Session /\ call'[s] = [op |-> "start"]
       /\ \A t \in Session : t # s => call'[t] = [op |-> "idle"]
  BY <1>1, <1>3, <1>7 DEF BaselineRows
<1>13. /\ history' \in [raced : BOOLEAN, late : BOOLEAN]
       /\ ~history'.raced => ~history.raced /\ copy = work["baseline"]
  <2>1. history \in [raced : BOOLEAN, late : BOOLEAN]
    BY <1>1 DEF BaselineRows
  <2>2. history'.raced = (history.raced \/ Tina!Stale(s, "baseline")
                            \/ \E t \in Session \ {s} : call[t] # [op |-> "idle"])
    BY <1>3, <2>1
  <2>3. Tina!Stale(s, "baseline") \in BOOLEAN
    BY DEF Tina!Stale
  <2>4. ~Tina!Stale(s, "baseline") => copy = work["baseline"]
    BY <1>2, <1>7 DEF Tina!Stale
  <2>5. history' \in [raced : BOOLEAN, late : BOOLEAN]
    BY <1>3, <2>1, <2>3
  <2> QED
    BY <2>2, <2>4, <2>5
<1>14. BaselineRows'
  <2>1. \A x \in Entered : db'[x] # Absent => work'[x] # Absent
    BY <1>1, <1>6, <1>9, TinaKeys DEF BaselineRows
  <2>2. writer' \in Session /\ writer' # NoSession
    BY <1>6, SessionAssumption
  <2> QED
    BY <1>1, <1>5, <1>6, <1>9, <1>10, <1>11, <1>12, <1>13, <2>1, <2>2 DEF BaselineRows
<1>15. SweepHolds'
  <2>1. call'[s] # [op |-> "idle"]
    <3>1. call'[s].op = "start"
      BY <1>12
    <3> QED
      BY <3>1
  <2>2. NotLoaded # new
    BY <1>5, TinaKeys
  <2> QED
    BY <1>1, <1>5, <1>6, <1>7, <1>10, <1>11, <1>12, <2>1, <2>2 DEF SweepHolds
<1>16. SweepFinds'
  BY <1>12 DEF SweepFinds
<1>17. SweepLogged' /\ SweptOnce'
  <2>1. \A n \in Tina!Sweeps(work') \ Tina!Sweeps(db') : Logged(db', work', n)
    <3>1. Tina!Sweeps(work') = Tina!Sweeps(work)
      BY <1>11 DEF Tina!Sweeps
    <3>2. ASSUME NEW n \in Tina!Sweeps(work) \ Tina!Sweeps(db) PROVE Logged(db, work', n)
      <4>1. Logged(db, work, n)
        BY <1>1 DEF SweepLogged
      <4> QED
        BY <1>11, <4>1, LogGrows
    <3> QED
      BY <1>6, <3>1, <3>2
  <2>2. ~history'.raced => Once(db') /\ Once(work')
    BY <1>1, <1>4, <1>6, <1>11, <1>13 DEF SweptOnce, Once, Tina!Sweeps
  <2> QED
    BY <2>1, <2>2 DEF SweepLogged, SweptOnce
<1>18. SweepTrue'
  BY <1>12 DEF SweepTrue
<1>19. history'.late = history.late
  BY <1>1, <1>3 DEF BaselineRows
<1>20. ~Tina!Swept(work') /\ (~history'.raced => ~Tina!Swept(work) /\ ~Tina!Swept(db) /\ ~history.raced)
  BY <1>1, <1>4, <1>11, <1>13 DEF CertifiesSwept, Tina!Swept
<1>21. CertifiesSwept'
  <2>1. \A t \in Session : t # s => Tina!Sees(t)'["baseline"] = Tina!Sees(t)["baseline"]
    BY <1>1, <1>6, SessionAssumption DEF BaselineRows, Tina!Sees
  <2>2. work'["baseline"].certified = work["baseline"].certified
    BY <1>9
  <2> QED
    BY <1>1, <1>5, <1>6, <1>10, <1>20, <2>1, <2>2 DEF CertifiesSwept
<1>22. SweepReports'
  BY <1>1, <1>6, <1>19, <1>20 DEF SweepReports
<1> QED
  BY <1>14, <1>15, <1>16, <1>17, <1>18, <1>21, <1>22 DEF TinaInv

\* The reads of a sweep leave everything but its locals.
LEMMA TinaReads ==
  ASSUME TinaInv, NEW s \in Session, NEW found, NEW todo,
         call[s] # [op |-> "idle"],
         call' = [call EXCEPT ![s] = [op |-> "match", found |-> found, todo |-> todo]],
         UNCHANGED <<db, work, writer, cache, calls, history>>,
         \A a \in Tina!Assumption : work[a] # Absent =>
            (\E i \in todo : a = Assumptions[i]) \/ Tina!Compare(work, a) \subseteq found,
         found \subseteq Tina!Comparisons(work),
         \A i \in todo : i \in DOMAIN Assumptions /\ work[Assumptions[i]] # Absent
  PROVE  TinaInv'
<1>1. /\ BaselineRows /\ SweepHolds /\ SweepFinds /\ SweepLogged /\ SweptOnce
      /\ SweepTrue /\ CertifiesSwept /\ SweepReports
  BY DEF TinaInv
<1>2. /\ DOMAIN call' = Session /\ call'[s] = [op |-> "match", found |-> found, todo |-> todo]
      /\ \A t \in Session : t # s => call'[t] = call[t]
  BY <1>1 DEF BaselineRows
<1>3. writer = s /\ \A t \in Session : t # s => call[t] = [op |-> "idle"]
  BY <1>1, TinaWriter DEF SweepHolds
<1>4. call'[s].op = "match" /\ call'[s].found = found /\ call'[s].todo = todo /\ call'[s] # [op |-> "idle"]
  <2>1. call'[s].op = "match" /\ call'[s].found = found /\ call'[s].todo = todo
    BY <1>2
  <2> QED
    BY <2>1
<1>5. BaselineRows'
  BY <1>1, <1>2, <1>4 DEF BaselineRows
<1>6. SweepHolds'
  BY <1>1, <1>2, <1>3, <1>4 DEF SweepHolds
<1>7. SweepFinds'
  BY <1>2, <1>3, <1>4 DEF SweepFinds
<1>8. SweepLogged' /\ SweptOnce'
  <2>1. \A n \in Tina!Sweeps(work') \ Tina!Sweeps(db') : Logged(db', work', n)
    BY <1>1 DEF SweepLogged
  <2>2. ~history'.raced => Once(db') /\ Once(work')
    BY <1>1 DEF SweptOnce
  <2> QED
    BY <2>1, <2>2 DEF SweepLogged, SweptOnce
<1>9. SweepTrue'
  BY <1>2, <1>3, <1>4 DEF SweepTrue
<1>10. CertifiesSwept' /\ SweepReports'
  BY <1>1 DEF CertifiesSwept, SweepReports, Tina!Sees
<1> QED
  BY <1>5, <1>6, <1>7, <1>8, <1>9, <1>10 DEF TinaInv

\* The SELECT of the assumptions keeps the invariant.
LEMMA TinaReadAssumptions ==
  ASSUME TinaInv, NEW s \in Session, Tina!ReadAssumptions(s)
  PROVE  TinaInv'
<1>1. call[s].op = "start" /\ call[s] # [op |-> "idle"] /\ UNCHANGED <<db, work, writer, cache, calls, history>>
  <2>1. call[s].op = "start" /\ UNCHANGED <<db, work, writer, cache, calls, history>>
    BY DEF Tina!ReadAssumptions
  <2> QED
    BY <2>1
<1>2. writer = s /\ Tina!Sees(s) = work
  BY <1>1, TinaWriter DEF TinaInv, SweepHolds
<1>3. PICK todo : todo = {i \in DOMAIN Assumptions : work[Assumptions[i]] # Absent}
  OBVIOUS
<1>4. call' = [call EXCEPT ![s] = [op |-> "match", found |-> {}, todo |-> todo]]
  BY <1>2, <1>3 DEF Tina!ReadAssumptions
<1>5. \A a \in Tina!Assumption : work[a] # Absent =>
        (\E i \in todo : a = Assumptions[i]) \/ Tina!Compare(work, a) \subseteq {}
  BY <1>3 DEF Tina!Assumption
<1>6. PICK found : found = {}
  OBVIOUS
<1>7. call' = [call EXCEPT ![s] = [op |-> "match", found |-> found, todo |-> todo]]
  BY <1>4, <1>6
<1>8. \A a \in Tina!Assumption : work[a] # Absent =>
        (\E i \in todo : a = Assumptions[i]) \/ Tina!Compare(work, a) \subseteq found
  BY <1>5
<1>9. found \subseteq Tina!Comparisons(work)
  BY <1>6
<1>10. \A i \in todo : i \in DOMAIN Assumptions /\ work[Assumptions[i]] # Absent
  BY <1>3
<1> QED
  BY <1>1, <1>7, <1>8, <1>9, <1>10, TinaReads

\* An iteration of the sweep keeps the invariant.
LEMMA TinaMatchNext ==
  ASSUME TinaInv, NEW s \in Session, Tina!MatchNext(s)
  PROVE  TinaInv'
<1>1. call[s].op = "match" /\ call[s] # [op |-> "idle"] /\ UNCHANGED <<db, work, writer, cache, calls, history>>
  <2>1. call[s].op = "match" /\ UNCHANGED <<db, work, writer, cache, calls, history>>
    BY DEF Tina!MatchNext
  <2> QED
    BY <2>1
<1>2. writer = s /\ Tina!Sees(s) = work
  BY <1>1, TinaWriter DEF TinaInv, SweepHolds
<1>3. PICK i \in call[s].todo :
        call' = [call EXCEPT ![s] = [op |-> "match",
                                     found |-> call[s].found \union Tina!Compare(work, Assumptions[i]),
                                     todo |-> call[s].todo \ {i}]]
  BY <1>2 DEF Tina!MatchNext
<1>4. PICK found, todo : /\ found = call[s].found \union Tina!Compare(work, Assumptions[i])
                         /\ todo = call[s].todo \ {i}
  OBVIOUS
<1>5. call' = [call EXCEPT ![s] = [op |-> "match", found |-> found, todo |-> todo]]
  BY <1>3, <1>4
<1>6. \A a \in Tina!Assumption : work[a] # Absent =>
        (\E j \in todo : a = Assumptions[j]) \/ Tina!Compare(work, a) \subseteq found
  BY <1>1, <1>4 DEF TinaInv, SweepFinds
<1>7. /\ call[s].found \subseteq Tina!Comparisons(work)
      /\ \A j \in call[s].todo : j \in DOMAIN Assumptions /\ work[Assumptions[j]] # Absent
  BY <1>1 DEF TinaInv, SweepTrue
<1>8. Tina!Compare(work, Assumptions[i]) \subseteq Tina!Comparisons(work)
  BY <1>7 DEF Tina!Comparisons, Tina!Assumption
<1>9. found \subseteq Tina!Comparisons(work)
  BY <1>4, <1>7, <1>8
<1>10. \A j \in todo : j \in DOMAIN Assumptions /\ work[Assumptions[j]] # Absent
  BY <1>4, <1>7
<1> QED
  BY <1>1, <1>5, <1>6, <1>9, <1>10, TinaReads

\* What the ledger says of an assumption: at least one finding, and no fewer
\* matches when rows are added.
LEMMA CompareCovers ==
  ASSUME NEW rows, NEW a
  PROVE  \E f \in Tina!Compare(rows, a) : f.assumption = a
<1>1. CASE Tina!Matching(rows, a) = {}
  BY <1>1 DEF Tina!Compare
<1>2. CASE Tina!Matching(rows, a) # {}
  <2>1. PICK t \in Tina!Matching(rows, a) : TRUE
    BY <1>2
  <2>2. PICK f : f = [assumption |-> a, posting |-> t, variance |-> BaselineValue[a] - PostingAmount[t],
                      flagged |-> Tina!Flagged(BaselineValue[a] - PostingAmount[t])]
    OBVIOUS
  <2>3. f \in Tina!Compare(rows, a)
    BY <1>2, <2>1, <2>2 DEF Tina!Compare
  <2> QED
    BY <2>2, <2>3
<1> QED
  BY <1>1, <1>2

\* Matches with what was entered before are among those with what is entered now.
LEMMA CompareGrows ==
  ASSUME NEW old, NEW rows, NEW a,
         \A t \in Posting : old[t] # Absent => rows[t] # Absent
  PROVE  {c \in Tina!Compare(old, a) : c.posting # NoMatch} \subseteq Tina!Compare(rows, a)
<1> SUFFICES ASSUME NEW c \in Tina!Compare(old, a), c.posting # NoMatch
             PROVE  c \in Tina!Compare(rows, a)
  OBVIOUS
<1>1. Tina!Matching(old, a) \subseteq Tina!Matching(rows, a)
  BY DEF Tina!Matching
<1>2. Tina!Matching(old, a) # {}
  BY DEF Tina!Compare
<1>3. PICK t \in Tina!Matching(old, a) :
        c = [assumption |-> a, posting |-> t, variance |-> BaselineValue[a] - PostingAmount[t],
             flagged |-> Tina!Flagged(BaselineValue[a] - PostingAmount[t])]
  BY <1>2 DEF Tina!Compare
<1> QED
  BY <1>1, <1>2, <1>3 DEF Tina!Compare

\* The last flush of run_sweep keeps the invariant.
LEMMA TinaFinish ==
  ASSUME TinaInv, NEW s \in Session, Tina!FinishSweep(s)
  PROVE  TinaInv'
<1>1. /\ BaselineRows /\ SweepHolds /\ SweepFinds /\ SweepLogged /\ SweptOnce
      /\ SweepTrue /\ CertifiesSwept /\ SweepReports
  BY DEF TinaInv
<1>2. call[s].op = "match" /\ call[s].todo = {} /\ call[s] # [op |-> "idle"]
  <2>1. call[s].op = "match" /\ call[s].todo = {}
    BY DEF Tina!FinishSweep
  <2> QED
    BY <2>1
<1>3. /\ writer = s /\ Tina!Sees(s) = work /\ work["baseline"].sweep = "in_progress"
      /\ \A t \in Session : t # s => call[t] = [op |-> "idle"]
  BY <1>1, <1>2, TinaWriter DEF SweepHolds
<1>4. PICK copy, new : /\ copy = Tina!Copy(s, "baseline")
                       /\ new = [copy EXCEPT !.sweep = "complete"]
  OBVIOUS
<1>5. copy \in BaselineRow /\ copy.sweep = "in_progress"
  BY <1>2, <1>4, TinaCopy
<1>6. new \in BaselineRow /\ new.sweep = "complete" /\ new.certified = copy.certified
  BY <1>4, <1>5 DEF BaselineRow
<1>7. PICK n, log : /\ n = 1 + Tina!Cardinality({f.sweep : f \in work["findings"]})
                    /\ log = work["findings"] \union {[sweep |-> n, row |-> r] : r \in call[s].found}
  OBVIOUS
<1>8. /\ writer' = s
      /\ work' = [Tina!Flushed(s, Tina!Only("baseline", new)) EXCEPT !["findings"] = log]
      /\ cache' = Tina!Keep(s, Tina!Only("baseline", new))
      /\ call' = [call EXCEPT ![s] = [op |-> "idle"]]
      /\ UNCHANGED <<db, calls, history>>
  BY <1>3, <1>4, <1>7 DEF Tina!FinishSweep, Tina!Idle
<1>9. Tina!Set(work["baseline"], copy, new) = [sweep |-> "complete", certified |-> work["baseline"].certified]
  <2>1. work["baseline"] \in BaselineRow
    BY <1>1 DEF BaselineRows
  <2> QED
    BY <1>5, <1>6, <2>1, BaselineSet
<1>10. Tina!Flushed(s, Tina!Only("baseline", new)) =
         [k \in Tina!Keys |-> IF k = "baseline"
                              THEN [sweep |-> "complete", certified |-> work["baseline"].certified]
                              ELSE work[k]]
  BY <1>1, <1>3, <1>4, <1>9, BaselineFlushed
<1>11. /\ DOMAIN work' = Tina!Keys
       /\ work'["baseline"] = [sweep |-> "complete", certified |-> work["baseline"].certified]
       /\ work'["findings"] = log
       /\ \A k \in Entered : work'[k] = work[k]
  BY <1>8, <1>10, TinaKeys
<1>12. work'["baseline"] \in BaselineRow /\ work'["baseline"].sweep = "complete"
  BY <1>1, <1>11 DEF BaselineRows, BaselineRow
<1>13. /\ DOMAIN cache' = Session /\ cache'[s]["baseline"] = new
       /\ DOMAIN cache'[s] = Tina!Keys /\ \A t \in Session : t # s => cache'[t] = cache[t]
  BY <1>1, <1>8, BaselineFlushed
<1>14. DOMAIN call' = Session /\ \A t \in Session : call'[t] = [op |-> "idle"]
  BY <1>1, <1>3, <1>8 DEF BaselineRows
<1>15. BaselineRows'
  <2>1. \A x \in Entered : db'[x] # Absent => work'[x] # Absent
    BY <1>1, <1>8, <1>11 DEF BaselineRows
  <2>2. writer' \in Session /\ writer' # NoSession
    BY <1>8, SessionAssumption
  <2>3. db'["findings"] \subseteq work'["findings"]
    BY <1>1, <1>7, <1>8, <1>11 DEF BaselineRows
  <2> QED
    BY <1>1, <1>6, <1>8, <1>11, <1>12, <1>13, <1>14, <2>1, <2>2, <2>3 DEF BaselineRows
<1>16. SweepHolds'
  BY <1>1, <1>3, <1>6, <1>8, <1>12, <1>13, <1>14 DEF SweepHolds
<1>17. SweepFinds'
  BY <1>14 DEF SweepFinds
<1>18. Tina!Sweeps(work') \subseteq Tina!Sweeps(work) \union {n}
  <2>1. \A f \in log : f \in work["findings"] \/ f.sweep = n
    BY <1>7
  <2> QED
    BY <1>11, <2>1 DEF Tina!Sweeps
<1>19. call[s].found \subseteq Tina!Findings(work', n)
  <2> SUFFICES ASSUME NEW r \in call[s].found PROVE r \in Tina!Findings(work', n)
    OBVIOUS
  <2>1. PICK f : f = [sweep |-> n, row |-> r]
    OBVIOUS
  <2>2. f \in log /\ f.sweep = n /\ f.row = r
    BY <1>7, <2>1
  <2> QED
    BY <1>11, <2>2 DEF Tina!Findings
<1>20. \A m \in Tina!Sweeps(work') \ Tina!Sweeps(db') : Logged(db', work', m)
  <2> SUFFICES ASSUME NEW m \in Tina!Sweeps(work'), m \notin Tina!Sweeps(db) PROVE Logged(db, work', m)
    BY <1>8
  <2>1. CASE m \in Tina!Sweeps(work)
    <3>1. Logged(db, work, m)
      BY <1>1, <2>1 DEF SweepLogged
    <3>2. work["findings"] \subseteq work'["findings"]
      BY <1>7, <1>11
    <3> QED
      BY <3>1, <3>2, LogGrows
  <2>2. CASE m = n
    <3> SUFFICES ASSUME NEW a \in Tina!Assumption, db[a] # Absent
                 PROVE  /\ \E f \in Tina!Findings(work', n) : f.assumption = a
                        /\ {c \in Tina!Compare(db, a) : c.posting # NoMatch} \subseteq Tina!Findings(work', n)
      BY <2>2 DEF Logged
    <3>1. work[a] # Absent
      BY <1>1 DEF BaselineRows, Entered
    <3>2. Tina!Compare(work, a) \subseteq call[s].found
      BY <1>1, <1>2, <3>1 DEF SweepFinds
    <3>3. \E f \in Tina!Compare(work, a) : f.assumption = a
      BY CompareCovers
    <3>4. \A t \in Posting : db[t] # Absent => work[t] # Absent
      BY <1>1 DEF BaselineRows, Entered
    <3>5. {c \in Tina!Compare(db, a) : c.posting # NoMatch} \subseteq Tina!Compare(work, a)
      BY <3>4, CompareGrows
    <3> QED
      BY <1>19, <3>2, <3>3, <3>5
  <2> QED
    BY <1>18, <2>1, <2>2
<1>21. ASSUME ~history.raced PROVE Once(db) /\ Once(work') /\ work["findings"] = {} /\ n = 1
  <2>1. Once(db) /\ Once(work)
    BY <1>1, <1>21 DEF SweptOnce
  <2>2. work["findings"] = {}
    BY <1>3, <2>1 DEF Once
  <2>3. n = 1
    <3>1. {f.sweep : f \in work["findings"]} = {}
      BY <2>2
    <3>2. Tina!Cardinality({}) = Cardinality({})
      BY DEF Tina!Cardinality, Cardinality
    <3>3. Cardinality({}) = 0
      BY FS_EmptySet
    <3>4. Tina!Cardinality({f.sweep : f \in work["findings"]}) = 0
      BY <3>1, <3>2, <3>3
    <3> QED
      BY <1>7, <3>4
  <2>4. Once(work')
    BY <1>12, <1>18, <2>1, <2>3 DEF Once
  <2> QED
    BY <2>1, <2>2, <2>3, <2>4
<1>22. SweepLogged' /\ SweptOnce'
  <2>1. ~history'.raced => Once(db') /\ Once(work')
    BY <1>8, <1>21
  <2> QED
    BY <1>20, <2>1 DEF SweepLogged, SweptOnce
<1>23. SweepTrue'
  BY <1>14 DEF SweepTrue
<1>24. CertifiesSwept'
  <2>1. \A t \in Session : Tina!Sees(t)' = IF t = s THEN work' ELSE Tina!Sees(t)
    BY <1>3, <1>8 DEF Tina!Sees
  <2>2. Tina!Swept(work')
    BY <1>12 DEF Tina!Swept
  <2>3. ASSUME NEW t \in Session, ~history.raced,
               cache'[t]["baseline"] # NotLoaded, cache'[t]["baseline"].sweep = "complete"
        PROVE  Tina!Sees(t)'["baseline"].sweep = "complete"
    <3>1. CASE t = s
      BY <1>12, <2>1, <3>1
    <3>2. CASE t # s
      BY <1>1, <1>13, <2>1, <2>3, <3>2 DEF CertifiesSwept
    <3> QED
      BY <3>1, <3>2
  <2>4. \A rows \in {db', work'} : ~history.raced /\ rows["baseline"].certified => Tina!Swept(rows)
    BY <1>1, <1>8, <2>2 DEF CertifiesSwept
  <2> QED
    BY <1>8, <2>2, <2>3, <2>4 DEF CertifiesSwept
<1>25. Tina!Comparisons(work') = Tina!Comparisons(work)
  BY <1>11, SameComparisons
<1>26. call[s].found = Tina!Comparisons(work)
  <2>1. call[s].found \subseteq Tina!Comparisons(work)
    BY <1>1, <1>2 DEF SweepTrue
  <2>2. \A a \in Tina!Assumption : work[a] # Absent => Tina!Compare(work, a) \subseteq call[s].found
    BY <1>1, <1>2 DEF SweepFinds
  <2> QED
    BY <2>1, <2>2 DEF Tina!Comparisons
<1>27. SweepReports'
  <2>1. ASSUME ~history.raced PROVE Reported(work')
    <3>1. log = {[sweep |-> 1, row |-> r] : r \in Tina!Comparisons(work)}
      BY <1>7, <1>21, <1>26, <2>1
    <3> QED
      BY <1>11, <1>25, <3>1 DEF Reported
  <2> QED
    BY <1>1, <1>8, <2>1 DEF SweepReports
<1> QED
  BY <1>15, <1>16, <1>17, <1>22, <1>23, <1>24, <1>27 DEF TinaInv

\* generate_certification keeps the invariant.
LEMMA TinaCertify ==
  ASSUME TinaInv, NEW s \in Session, Tina!GenerateCertification(s)
  PROVE  TinaInv'
<1>1. /\ BaselineRows /\ SweepHolds /\ SweepFinds /\ SweepLogged /\ SweptOnce
      /\ SweepTrue /\ CertifiesSwept /\ SweepReports
  BY DEF TinaInv
<1>2. PICK copy, new : /\ copy = Tina!Copy(s, "baseline")
                       /\ new = [copy EXCEPT !.certified = TRUE]
  OBVIOUS
<1>3. /\ call[s] = [op |-> "idle"] /\ Tina!Flush(s, Tina!Only("baseline", new))
      /\ UNCHANGED <<call, history>>
  BY <1>2 DEF Tina!GenerateCertification, Tina!Begin, Tina!Idle
<1>4. copy \in BaselineRow /\ copy.sweep # "in_progress"
  BY <1>2, <1>3, TinaCopy
<1>5. new \in BaselineRow /\ new.sweep = copy.sweep
  BY <1>2, <1>4 DEF BaselineRow
<1>6. cache' = Tina!Keep(s, Tina!Only("baseline", new))
  BY <1>3 DEF Tina!Flush
<1>7. /\ DOMAIN cache' = Session /\ cache'[s]["baseline"] = new
      /\ DOMAIN cache'[s] = Tina!Keys /\ \A t \in Session : t # s => cache'[t] = cache[t]
  BY <1>1, <1>6, BaselineFlushed
<1>8. /\ UNCHANGED db
      /\ \/ UNCHANGED <<work, writer>>
         \/ /\ writer \in {NoSession, s} /\ writer' = s
            /\ DOMAIN work' = Tina!Keys
            /\ work'["baseline"] \in BaselineRow /\ work'["baseline"].sweep = work["baseline"].sweep
            /\ Tina!Sees(s) = work
            /\ \A k \in Tina!Keys : k # "baseline" => work'[k] = work[k]
  <2>1. CASE UNCHANGED <<db, work, writer>>
    BY <2>1
  <2>2. CASE /\ writer \in {NoSession, s} /\ writer' = s /\ UNCHANGED db
             /\ work' = Tina!Flushed(s, Tina!Only("baseline", new))
    <3>1. Tina!Sees(s) = work
      BY <2>2, TinaWriter
    <3>2. work["baseline"] \in BaselineRow
      BY <1>1 DEF BaselineRows
    <3>3. PICK row : row = Tina!Set(work["baseline"], copy, new)
      OBVIOUS
    <3>4. row = [sweep |-> work["baseline"].sweep,
                 certified |-> IF new.certified = copy.certified THEN work["baseline"].certified ELSE new.certified]
      BY <1>4, <1>5, <3>2, <3>3, BaselineSet
    <3>5. row \in BaselineRow /\ row.sweep = work["baseline"].sweep
      BY <1>5, <3>2, <3>4 DEF BaselineRow
    <3>6. Tina!Flushed(s, Tina!Only("baseline", new)) =
            [k \in Tina!Keys |-> IF k = "baseline" THEN row ELSE work[k]]
      <4>1. Tina!Set(Tina!Sees(s)["baseline"], Tina!Copy(s, "baseline"), new) = row
        BY <1>2, <3>1, <3>3
      <4>2. Tina!Flushed(s, Tina!Only("baseline", new)) =
              [k \in Tina!Keys |-> IF k = "baseline"
                                   THEN Tina!Set(Tina!Sees(s)["baseline"], Tina!Copy(s, "baseline"), new)
                                   ELSE Tina!Sees(s)[k]]
        BY <1>1, BaselineFlushed
      <4> QED
        BY <3>1, <4>1, <4>2
    <3> QED
      BY <2>2, <3>1, <3>5, <3>6, TinaKeys
  <2> QED
    BY <1>3, <2>1, <2>2 DEF Tina!Flush
<1>9. /\ DOMAIN work' = Tina!Keys /\ work'["baseline"] \in BaselineRow
      /\ work'["baseline"].sweep = work["baseline"].sweep /\ work'["findings"] = work["findings"]
      /\ \A k \in Entered : work'[k] = work[k]
  BY <1>1, <1>8, TinaKeys DEF BaselineRows
<1>10. /\ writer' \in Session \union {NoSession}
       /\ writer' = NoSession => work' = db'
       /\ \A t \in Session : writer = t => writer' = t
  BY <1>1, <1>8, SessionAssumption DEF BaselineRows
<1>11. BaselineRows'
  <2>1. \A x \in Entered : db'[x] # Absent => work'[x] # Absent
    BY <1>1, <1>8, <1>9 DEF BaselineRows
  <2> QED
    BY <1>1, <1>3, <1>5, <1>7, <1>8, <1>9, <1>10, <2>1 DEF BaselineRows
<1>12. SweepHolds'
  BY <1>1, <1>3, <1>4, <1>5, <1>7, <1>8, <1>9, <1>10 DEF SweepHolds
<1>13. SweepFinds'
  <2>1. ASSUME NEW a \in Tina!Assumption PROVE Tina!Compare(work', a) = Tina!Compare(work, a)
    <3>1. Tina!Matching(work', a) = Tina!Matching(work, a)
      BY <1>9 DEF Tina!Matching, Entered
    <3> QED
      BY <3>1 DEF Tina!Compare
  <2>2. \A a \in Tina!Assumption : work'[a] = work[a]
    BY <1>9 DEF Entered
  <2> QED
    BY <1>1, <1>3, <2>1, <2>2 DEF SweepFinds
<1>14. SweepLogged' /\ SweptOnce'
  <2>1. \A n \in Tina!Sweeps(work') \ Tina!Sweeps(db') : Logged(db', work', n)
    <3>1. Tina!Sweeps(work') = Tina!Sweeps(work)
      BY <1>9 DEF Tina!Sweeps
    <3>2. ASSUME NEW n \in Tina!Sweeps(work) \ Tina!Sweeps(db) PROVE Logged(db, work', n)
      <4>1. Logged(db, work, n)
        BY <1>1 DEF SweepLogged
      <4> QED
        BY <1>9, <4>1, LogGrows
    <3> QED
      BY <1>8, <3>1, <3>2
  <2>2. ~history'.raced => Once(db') /\ Once(work')
    BY <1>1, <1>3, <1>8, <1>9 DEF SweptOnce, Once, Tina!Sweeps
  <2> QED
    BY <2>1, <2>2 DEF SweepLogged, SweptOnce
<1>15. SweepTrue'
  <2>1. Tina!Comparisons(work') = Tina!Comparisons(work)
    BY <1>9, SameComparisons
  <2>2. ASSUME NEW i \in DOMAIN Assumptions PROVE work'[Assumptions[i]] = work[Assumptions[i]]
    BY <1>9, <2>2 DEF Entered, Tina!Assumption
  <2> QED
    BY <1>1, <1>3, <2>1, <2>2 DEF SweepTrue
<1>16. CertifiesSwept'
  <2> SUFFICES ASSUME ~history.raced PROVE CertifiesSwept'
    BY <1>3 DEF CertifiesSwept
  <2>1. copy.sweep = "complete" /\ Tina!Sees(s)["baseline"].sweep = "complete"
    <3>1. copy.sweep = "complete"
      BY <1>2 DEF Tina!GenerateCertification, Tina!MayCertify
    <3> QED
      BY <1>1, <1>2, <3>1 DEF CertifiesSwept, Tina!Copy
  <2>2. \A t \in Session : Tina!Sees(t)'["baseline"].sweep = Tina!Sees(t)["baseline"].sweep
    BY <1>1, <1>8, SessionAssumption DEF BaselineRows, Tina!Sees
  <2>3. work'["baseline"].certified => work'["baseline"].sweep = "complete"
    BY <1>1, <1>8, <2>1 DEF CertifiesSwept, Tina!Swept
  <2> QED
    BY <1>1, <1>5, <1>7, <1>8, <1>9, <2>1, <2>2, <2>3 DEF CertifiesSwept, Tina!Swept
<1>17. SweepReports'
  <2>1. Tina!Comparisons(work') = Tina!Comparisons(work)
    BY <1>9, SameComparisons
  <2> QED
    BY <1>1, <1>3, <1>8, <1>9, <2>1 DEF SweepReports, Reported, Tina!Swept
<1> QED
  BY <1>11, <1>12, <1>13, <1>14, <1>15, <1>16, <1>17 DEF TinaInv

\* What happens between service calls keeps the invariant.
LEMMA TinaSession ==
  ASSUME TinaInv, Tina!SessionStep({"baseline"})
  PROVE  TinaInv'
<1>1. /\ BaselineRows /\ SweepHolds /\ SweepFinds /\ SweepLogged /\ SweptOnce
      /\ SweepTrue /\ CertifiesSwept /\ SweepReports
  BY DEF TinaInv
<1>2. PICK s \in Session : \/ Tina!Load(s, "baseline") \/ Tina!EndSession(s)
                           \/ Tina!Commit(s) \/ Tina!Rollback(s)
  BY DEF Tina!SessionStep
<1>3. DOMAIN db = Tina!Keys
  BY <1>1 DEF BaselineRows
<1>4. CASE Tina!Load(s, "baseline") \/ Tina!EndSession(s)
  <2>1. call[s] = [op |-> "idle"] /\ UNCHANGED <<db, work, writer, call, calls, history>>
    BY <1>4 DEF Tina!Load, Tina!EndSession, Tina!Idle
  <2>2. /\ DOMAIN cache' = Session /\ DOMAIN cache'[s] = Tina!Keys
        /\ cache'[s]["baseline"] \in {NotLoaded, Tina!Sees(s)["baseline"]}
        /\ \A t \in Session : t # s => cache'[t] = cache[t]
    <3>1. CASE Tina!Load(s, "baseline")
      <4>1. cache' = [cache EXCEPT ![s]["baseline"] = Tina!Sees(s)["baseline"]]
        BY <3>1 DEF Tina!Load
      <4> QED
        BY <1>1, <4>1, TinaKeys DEF BaselineRows
    <3>2. CASE Tina!EndSession(s)
      <4>1. cache' = [cache EXCEPT ![s] = [k \in Tina!Keys |-> NotLoaded]]
        BY <1>3, <3>2 DEF Tina!EndSession
      <4> QED
        BY <1>1, <4>1, TinaKeys DEF BaselineRows
    <3> QED
      BY <1>4, <3>1, <3>2
  <2>3. Tina!Sees(s)["baseline"] \in BaselineRow /\ Tina!Sees(s)["baseline"].sweep # "in_progress"
    BY <2>1, TinaCopy
  <2>4. BaselineRows'
    BY <1>1, <2>1, <2>2, <2>3 DEF BaselineRows, Tina!Keys
  <2>5. SweepHolds'
    BY <1>1, <2>1, <2>2, <2>3 DEF SweepHolds
  <2>6. SweepFinds'
    BY <1>1, <2>1 DEF SweepFinds, Tina!Compare, Tina!Matching
  <2>7. SweepLogged' /\ SweptOnce'
    <3>1. \A n \in Tina!Sweeps(work') \ Tina!Sweeps(db') : Logged(db', work', n)
      BY <1>1, <2>1 DEF SweepLogged
    <3>2. ~history'.raced => Once(db') /\ Once(work')
      BY <1>1, <2>1 DEF SweptOnce
    <3> QED
      BY <3>1, <3>2 DEF SweepLogged, SweptOnce
  <2>8. SweepTrue' /\ SweepReports'
    BY <1>1, <2>1 DEF SweepTrue, SweepReports
  <2>9. CertifiesSwept'
    BY <1>1, <2>1, <2>2 DEF CertifiesSwept, Tina!Sees
  <2> QED
    BY <2>4, <2>5, <2>6, <2>7, <2>8, <2>9 DEF TinaInv
<1>5. CASE Tina!Commit(s)
  <2>1. /\ writer = s /\ call[s] = [op |-> "idle"] /\ db' = work /\ writer' = NoSession
        /\ UNCHANGED <<work, cache, call, calls, history>>
    BY <1>5 DEF Tina!Commit, Tina!Idle
  <2>2. work["baseline"].sweep # "in_progress" /\ \A t \in Session : call[t] = [op |-> "idle"]
    BY <2>1, TinaWriter
  <2>3. BaselineRows'
    BY <1>1, <2>1 DEF BaselineRows
  <2>4. SweepHolds' /\ SweepFinds'
    BY <1>1, <2>1, <2>2 DEF SweepHolds, SweepFinds
  <2>5. SweepLogged' /\ SweptOnce'
    <3>1. \A n \in Tina!Sweeps(work') \ Tina!Sweeps(db') : Logged(db', work', n)
      BY <2>1
    <3>2. ~history'.raced => Once(db') /\ Once(work')
      BY <1>1, <2>1 DEF SweptOnce
    <3> QED
      BY <3>1, <3>2 DEF SweepLogged, SweptOnce
  <2>6. SweepTrue' /\ SweepReports'
    BY <1>1, <2>1, <2>2 DEF SweepTrue, SweepReports
  <2>7. CertifiesSwept'
    BY <1>1, <2>1 DEF CertifiesSwept, Tina!Sees, Tina!Swept
  <2> QED
    BY <2>3, <2>4, <2>5, <2>6, <2>7 DEF TinaInv
<1>6. CASE Tina!Rollback(s)
  <2>1. /\ work' = IF writer = s THEN db ELSE work
        /\ writer' = IF writer = s THEN NoSession ELSE writer
        /\ cache' = [cache EXCEPT ![s] = [k \in Tina!Keys |-> NotLoaded]]
        /\ call' = [call EXCEPT ![s] = [op |-> "idle"]]
        /\ UNCHANGED <<db, calls, history>>
    BY <1>3, <1>6 DEF Tina!Rollback, Tina!Idle
  <2>2. writer = s
    BY <1>1, <1>6 DEF Tina!Rollback, Tina!Idle, SweepHolds
  <2>3. DOMAIN call' = Session /\ \A t \in Session : call'[t] = [op |-> "idle"]
    BY <1>1, <2>1, <2>2, TinaWriter DEF BaselineRows
  <2>4. /\ DOMAIN cache' = Session /\ DOMAIN cache'[s] = Tina!Keys /\ cache'[s]["baseline"] = NotLoaded
        /\ \A t \in Session : t # s => cache'[t] = cache[t]
    BY <1>1, <2>1, TinaKeys DEF BaselineRows
  <2>5. \A t \in Session : t # s => call[t] = [op |-> "idle"]
    BY <2>2, TinaWriter
  <2>6. BaselineRows'
    BY <1>1, <2>1, <2>2, <2>3, <2>4 DEF BaselineRows
  <2>7. SweepHolds' /\ SweepFinds'
    BY <1>1, <2>1, <2>2, <2>3, <2>4, <2>5 DEF SweepHolds, SweepFinds
  <2>8. SweepLogged' /\ SweptOnce'
    <3>1. \A n \in Tina!Sweeps(work') \ Tina!Sweeps(db') : Logged(db', work', n)
      BY <2>1, <2>2
    <3>2. ~history'.raced => Once(db') /\ Once(work')
      BY <1>1, <2>1, <2>2 DEF SweptOnce
    <3> QED
      BY <3>1, <3>2 DEF SweepLogged, SweptOnce
  <2>9. SweepTrue' /\ SweepReports'
    BY <1>1, <2>1, <2>2, <2>3 DEF SweepTrue, SweepReports
  <2>10. CertifiesSwept'
    BY <1>1, <2>1, <2>2, <2>4, SessionAssumption DEF CertifiesSwept, Tina!Sees
  <2> QED
    BY <2>6, <2>7, <2>8, <2>9, <2>10 DEF TinaInv
<1> QED
  BY <1>2, <1>4, <1>5, <1>6

\* Every step of the sweep keeps its invariant.
LEMMA TinaNext == TinaInv /\ Tina!Next => TinaInv'
BY TinaSession, TinaEnter, TinaStart, TinaReadAssumptions, TinaMatchNext, TinaFinish, TinaCertify
   DEF Tina!Next, Entered

\* Only a commit changes what is committed, to what the writer has written.
LEMMA TinaCommits == Tina!Next => UNCHANGED db \/ db' = work
BY DEF Tina!Next, Tina!SessionStep, Tina!Load, Tina!EndSession, Tina!Commit, Tina!Rollback,
       Tina!Enter, Tina!StartSweep, Tina!ReadAssumptions, Tina!MatchNext, Tina!FinishSweep,
       Tina!GenerateCertification, Tina!BeginSweep, Tina!Flush, Tina!Write

\* What a transaction commits is the whole sweep, and the only one.
LEMMA TinaSweeps ==
  ASSUME TinaInv, TinaInv', UNCHANGED db \/ db' = work
  PROVE  Tina!SweepLogComplete /\ Tina!SweptOnce
<1>1. Tina!SweepLogComplete
  <2> SUFFICES ASSUME NEW n \in Tina!Sweeps(db') \ Tina!Sweeps(db)
               PROVE  /\ \A a \in Tina!Assumption : db[a] # Absent =>
                            \E f \in Tina!Findings(db', n) : f.assumption = a
                      /\ {c \in Tina!Comparisons(db) : c.posting # NoMatch} \subseteq Tina!Findings(db', n)
    BY DEF Tina!SweepLogComplete
  <2>1. Logged(db, db', n)
    BY DEF TinaInv, SweepLogged
  <2> QED
    BY <2>1 DEF Logged, Tina!Comparisons
<1>2. Tina!SweptOnce
  <2>1. db["findings"] \subseteq db'["findings"]
    BY DEF TinaInv, BaselineRows
  <2>2. ASSUME ~history'.raced PROVE Tina!Cardinality(Tina!Sweeps(db')) <= 1
    <3>1. Tina!Sweeps(db') \subseteq {1}
      BY <2>2 DEF TinaInv, SweptOnce, Once
    <3>2. Tina!Sweeps(db') = {} \/ Tina!Sweeps(db') = {1}
      BY <3>1
    <3>3. Cardinality({}) = 0 /\ Cardinality({1}) = 1
      BY FS_EmptySet, FS_Singleton
    <3>4. Tina!Cardinality({}) = Cardinality({}) /\ Tina!Cardinality({1}) = Cardinality({1})
      BY DEF Tina!Cardinality, Cardinality
    <3> QED
      BY <3>2, <3>3, <3>4
  <2> QED
    BY <2>1, <2>2 DEF Tina!SweptOnce
<1> QED
  BY <1>1, <1>2

-----------------------------------------------------------------------------
(* Contract versions and disclosed practices *)

VersionRow == [version : Nat, terms : Treatment, superseded_by : Versions!Row \union {0}]
Event == [practice : Versions!Row, new : Versions!Row, status : {"flagged", "resolved"}]
Supersession == [op : {"supersede"}, old : Versions!Row, new : Versions!Row]

\* Rows of a lineage and their events, of the right types; keys are given out in order.
TableOK(rows) ==
    /\ rows = [r \in Versions!Row \union {0} |-> rows[r]]
    /\ \A r \in Versions!Row : rows[r] \in VersionRow \union {Absent}
    /\ \A r \in Versions!Row : rows[r] # Absent /\ rows[r].superseded_by # 0 =>
          rows[rows[r].superseded_by] # Absent
    /\ rows[0] \subseteq Event
    /\ \E n \in 1 .. MaxVersions : Versions!Inserted(rows) = 1 .. n

\* The rows are one chain and each has its event: what the properties say of
\* committed rows.
Chain(rows) ==
    /\ \A r \in Versions!Inserted(rows) : rows[r].superseded_by # 0 =>
          /\ rows[r].superseded_by \in Versions!Inserted(rows)
          /\ rows[rows[r].superseded_by].version = rows[r].version + 1
    /\ \E top \in Versions!Inserted(rows) :
          /\ Versions!Current(rows) = {top}
          /\ \A r \in Versions!Inserted(rows) \ {top} : rows[r].version < rows[top].version
Explained(rows, r) ==
    \E e \in rows[0] : /\ e.new = r /\ e.practice # r
                       /\ \A other \in rows[0] : other.new = r => other = e
Events(rows) ==
    /\ \A r \in Versions!Inserted(rows) \ {1} : Explained(rows, r)
    /\ \A e \in rows[0] : e.new \in Versions!Inserted(rows)
Whole(rows, h) ==
    /\ ~h.branched => Chain(rows)
    /\ h.table = "practices" => Events(rows)

\* Between the two flushes of a change the new row is there, and without it the
\* rows are whole.
Without(rows, new) == [r \in DOMAIN rows |-> IF r = new THEN Absent ELSE rows[r]]
Half(rows, h, old, new) ==
    /\ TableOK(Without(rows, new)) /\ Whole(Without(rows, new), h)
    /\ old # new /\ rows[old] # Absent /\ rows[new] # Absent
    /\ ~h.branched => rows[old].superseded_by = 0
    /\ rows[new].superseded_by = 0
    /\ rows[new].version = rows[old].version + 1

VersionRows ==
    /\ TableOK(db) /\ TableOK(work)
    /\ writer \in Session \union {NoSession}
    /\ writer = NoSession => work = db
    /\ \A r \in Versions!Row : db[r] # Absent => work[r] # Absent /\ work[r].version = db[r].version
    /\ history \in [table : {"contracts", "practices"}, branched : BOOLEAN]
    /\ DOMAIN call = Session
    /\ \A s \in Session : call[s] \in {[op |-> "idle"]} \union Supersession

\* A loaded row is one the session still sees, of the same version, and its
\* pointer leads to one it sees.
VersionCopies ==
    /\ DOMAIN cache = Session
    /\ \A s \in Session :
          /\ DOMAIN cache[s] = Versions!Row \union {0}
          /\ \A r \in Versions!Row : cache[s][r] # NotLoaded =>
                /\ cache[s][r] \in VersionRow
                /\ Versions!Sees(s)[r] # Absent
                /\ cache[s][r].version = Versions!Sees(s)[r].version
                /\ cache[s][r].superseded_by # 0 => Versions!Sees(s)[cache[s][r].superseded_by] # Absent

VersionChanges ==
    /\ Whole(db, history)
    /\ (\A s \in Session : call[s] = [op |-> "idle"]) => Whole(work, history)
    /\ \A s \in Session : call[s].op = "supersede" =>
          /\ writer = s
          /\ Half(work, history, call[s].old, call[s].new)
          /\ Versions!Copy(s, call[s].old).superseded_by # call[s].new

VersionInv == VersionRows /\ VersionCopies /\ VersionChanges

\* What stands for no row is no version.
LEMMA NullVersions == Absent \notin VersionRow /\ NotLoaded \notin VersionRow
BY NullAssumption, VersionsAssumption DEF VersionRow, Versions!Row

\* Rows are numbered from one.
LEMMA RowNumbers == 0 \notin Versions!Row /\ 1 \in Versions!Row /\ Versions!Row \subseteq Nat
BY VersionsAssumption DEF Versions!Row

\* A lineage starts with one row.
LEMMA VersionInit == Versions!Init => VersionInv
<1> SUFFICES ASSUME Versions!Init PROVE VersionInv
  OBVIOUS
<1>1. PICK terms \in Treatment :
        Versions!Start([k \in Versions!Row \union {0} |->
                           IF k = 0 THEN {}
                           ELSE IF k = 1 THEN [version |-> 1, terms |-> terms, superseded_by |-> 0]
                           ELSE Absent])
  BY DEF Versions!Init, Versions!Events, Versions!NoRow
<1>2. PICK first : first = [version |-> 1, terms |-> terms, superseded_by |-> 0]
  OBVIOUS
<1>3. first \in VersionRow /\ first # Absent /\ first.superseded_by = 0
  BY <1>2, NullVersions DEF VersionRow
<1>4. /\ db = [r \in Versions!Row \union {0} |-> db[r]] /\ db[0] = {} /\ db[1] = first
      /\ \A r \in Versions!Row : r # 1 => db[r] = Absent
      /\ work = db /\ writer = NoSession
      /\ cache = [s \in Session |-> [k \in DOMAIN db |-> NotLoaded]]
      /\ call = [s \in Session |-> [op |-> "idle"]]
      /\ history \in [table : {"contracts", "practices"}, branched : {FALSE}]
  BY ZenonT(60), <1>1, <1>2, RowNumbers DEF Versions!Start, Versions!Idle, Versions!Init
<1>5. Versions!Inserted(db) = {1}
  BY <1>3, <1>4, RowNumbers DEF Versions!Inserted
<1>6. TableOK(db)
  <2>1. {1} = 1 .. 1 /\ 1 \in 1 .. MaxVersions
    BY VersionsAssumption
  <2> QED
    BY <1>3, <1>4, <1>5, <2>1, RowNumbers DEF TableOK
<1>7. Whole(db, history)
  <2>1. Versions!Current(db) = {1}
    BY <1>3, <1>4, <1>5 DEF Versions!Current, Versions!NoRow
  <2> QED
    BY <1>3, <1>4, <1>5, <2>1 DEF Whole, Chain, Events
<1>8. VersionRows /\ VersionCopies
  BY <1>4, <1>6 DEF VersionRows, VersionCopies
<1>9. VersionChanges
  BY <1>4, <1>7 DEF VersionChanges
<1> QED
  BY <1>8, <1>9 DEF VersionInv

\* Whoever writes, or may, sees what is being written; everybody sees a table.
LEMMA VersionSees ==
  ASSUME VersionRows, NEW s \in Session
  PROVE  /\ TableOK(Versions!Sees(s))
         /\ writer \in {NoSession, s} => Versions!Sees(s) = work
         /\ writer # s => Versions!Sees(s) = db
BY SessionAssumption DEF VersionRows, Versions!Sees

\* The key of an inserted row is the next one, of no row so far.
LEMMA NextKey ==
  ASSUME NEW rows, TableOK(rows)
  PROVE  /\ \A r \in Versions!Row : rows[r] # Absent => r # Versions!NextRow(rows)
         /\ Versions!NextRow(rows) \in Versions!Row =>
              \E n \in 1 .. MaxVersions :
                  Versions!Inserted(rows) \union {Versions!NextRow(rows)} = 1 .. n
<1>1. PICK n \in 1 .. MaxVersions : Versions!Inserted(rows) = 1 .. n
  BY DEF TableOK
<1>2. n \in Nat /\ n >= 1
  BY <1>1, VersionsAssumption
<1>3. Cardinality(1 .. n) = n
  <2>1. 1 \in Int /\ n \in Int
    BY <1>2
  <2>2. Cardinality(1 .. n) = IF 1 > n THEN 0 ELSE n - 1 + 1
    BY <2>1, FS_Interval, Zenon
  <2> QED
    BY <1>2, <2>2
<1>4. Versions!NextRow(rows) = n + 1
  <2>1. Versions!Cardinality(1 .. n) = Cardinality(1 .. n)
    BY DEF Cardinality, Versions!Cardinality
  <2> QED
    BY <1>1, <1>3, <2>1 DEF Versions!NextRow
<1>5. \A r \in Versions!Row : rows[r] # Absent => r # Versions!NextRow(rows)
  BY <1>1, <1>2, <1>4 DEF Versions!Inserted
<1>6. (1 .. n) \union {n + 1} = 1 .. n + 1
  BY <1>2
<1>7. n + 1 \in Versions!Row => n + 1 \in 1 .. MaxVersions
  BY DEF Versions!Row
<1> QED
  BY <1>1, <1>4, <1>5, <1>6, <1>7

\* The first flush leaves the rows half changed.
LEMMA HalfMade ==
  ASSUME NEW rows, NEW h, NEW h2, NEW old \in Versions!Row, NEW new, NEW row, NEW rows2,
         TableOK(rows), Whole(rows, h),
         h2.table = h.table,
         ~h2.branched => ~h.branched /\ rows[old].superseded_by = 0,
         new = Versions!NextRow(rows), new \in Versions!Row,
         rows[old] # Absent,
         row \in VersionRow, row.superseded_by = 0, row.version = rows[old].version + 1,
         rows2 = [r \in DOMAIN rows |-> IF r = new THEN row ELSE rows[r]]
  PROVE  TableOK(rows2) /\ Half(rows2, h2, old, new)
<1>1. DOMAIN rows = Versions!Row \union {0} /\ rows = [r \in Versions!Row \union {0} |-> rows[r]]
  BY DEF TableOK
<1>2. rows[new] = Absent /\ old # new /\ new # 0
  BY NextKey, RowNumbers
<1>3. rows2[new] = row /\ row # Absent /\ \A r \in DOMAIN rows : r # new => rows2[r] = rows[r]
  BY <1>1, NullVersions
<1>4. Without(rows2, new) = rows
  <2>1. Without(rows2, new) = [r \in Versions!Row \union {0} |-> rows[r]]
    BY <1>1, <1>2 DEF Without
  <2> QED
    BY <1>1, <2>1
<1>5. Whole(rows, h2)
  BY DEF Whole
<1>6. TableOK(rows2)
  <2>1. Versions!Inserted(rows2) = Versions!Inserted(rows) \union {new}
    BY <1>1, <1>2, <1>3 DEF Versions!Inserted
  <2>2. \E n \in 1 .. MaxVersions : Versions!Inserted(rows2) = 1 .. n
    BY <2>1, NextKey
  <2>3. rows2 = [r \in Versions!Row \union {0} |-> rows2[r]] /\ rows2[0] \subseteq Event
    BY <1>1, <1>2, <1>3 DEF TableOK
  <2>4. \A r \in Versions!Row : rows2[r] \in VersionRow \union {Absent}
    BY <1>1, <1>3 DEF TableOK
  <2>5. ASSUME NEW r \in Versions!Row, rows2[r] # Absent, rows2[r].superseded_by # 0
        PROVE  rows2[rows2[r].superseded_by] # Absent
    <3>1. r # new /\ rows2[r] = rows[r]
      BY <1>1, <1>3, <2>5
    <3>2. rows[r] \in VersionRow /\ rows[rows[r].superseded_by] # Absent
      BY <2>5, <3>1 DEF TableOK
    <3>3. rows[r].superseded_by \in DOMAIN rows
      BY <1>1, <3>2 DEF VersionRow
    <3> QED
      BY <1>3, <3>1, <3>2, <3>3
  <2> QED
    BY <2>2, <2>3, <2>4, <2>5 DEF TableOK
<1> QED
  BY <1>1, <1>2, <1>3, <1>4, <1>5, <1>6 DEF Half

\* The second flush makes them whole again.
LEMMA HalfDone ==
  ASSUME NEW rows, NEW h, NEW old \in Versions!Row, NEW new \in Versions!Row, NEW rows2,
         TableOK(rows), Half(rows, h, old, new),
         DOMAIN rows2 = DOMAIN rows, rows2 = [r \in DOMAIN rows |-> rows2[r]],
         \A r \in Versions!Row : r # old => rows2[r] = rows[r],
         rows2[old] = [version |-> rows[old].version, terms |-> rows[old].terms, superseded_by |-> new],
         rows2[0] = IF h.table = "practices"
                    THEN rows[0] \union {[practice |-> old, new |-> new, status |-> "flagged"]}
                    ELSE rows[0]
  PROVE  TableOK(rows2) /\ Whole(rows2, h)
<1> DEFINE base == Without(rows, new)
<1>1. DOMAIN rows = Versions!Row \union {0}
  BY DEF TableOK
<1>2. /\ rows[old] \in VersionRow /\ rows[new] \in VersionRow
      /\ old # new /\ rows[new].superseded_by = 0 /\ rows[new].version = rows[old].version + 1
      /\ ~h.branched => rows[old].superseded_by = 0
      /\ TableOK(base) /\ Whole(base, h)
  BY DEF Half, TableOK
<1>3. /\ base[new] = Absent /\ base[0] = rows[0]
      /\ \A r \in Versions!Row : r # new => base[r] = rows[r]
  BY <1>1, RowNumbers DEF Without
<1>4. /\ rows2[old] \in VersionRow /\ rows2[old] # Absent /\ rows2[old].superseded_by = new
      /\ rows2[old].version = rows[old].version
      /\ rows2[new] = rows[new] /\ rows2[new] # Absent /\ rows[old] # Absent
  BY <1>2, NullVersions, RowNumbers DEF VersionRow
<1>5. \A r \in Versions!Row : rows2[r] = Absent <=> rows[r] = Absent
  BY <1>4
<1>6. Versions!Inserted(rows2) = Versions!Inserted(rows)
  BY <1>5 DEF Versions!Inserted
<1>7. Versions!Inserted(rows2) = Versions!Inserted(base) \union {new} /\ new \notin Versions!Inserted(base)
      /\ old \in Versions!Inserted(base)
  BY <1>2, <1>3, <1>4, <1>5 DEF Versions!Inserted
<1>8. TableOK(rows2)
  <2>1. rows2 = [r \in Versions!Row \union {0} |-> rows2[r]]
    BY <1>1
  <2>2. \A r \in Versions!Row : rows2[r] \in VersionRow \union {Absent}
    BY <1>4 DEF TableOK
  <2>3. rows2[0] \subseteq Event
    <3>1. rows[0] \subseteq Event
      BY DEF TableOK
    <3>2. [practice |-> old, new |-> new, status |-> "flagged"] \in Event
      BY DEF Event
    <3> QED
      BY <3>1, <3>2
  <2>4. \E n \in 1 .. MaxVersions : Versions!Inserted(rows2) = 1 .. n
    BY <1>6 DEF TableOK
  <2>5. ASSUME NEW r \in Versions!Row, rows2[r] # Absent, rows2[r].superseded_by # 0
        PROVE  rows2[rows2[r].superseded_by] # Absent
    <3>1. CASE r = old
      BY <1>4, <3>1
    <3>2. CASE r # old
      <4>1. rows2[r] = rows[r] /\ rows[r] \in VersionRow /\ rows[rows[r].superseded_by] # Absent
        BY <3>2, <2>5 DEF TableOK
      <4>2. rows[r].superseded_by \in Versions!Row
        BY <4>1, <2>5 DEF VersionRow
      <4> QED
        BY <1>5, <4>1, <4>2
    <3> QED
      BY <3>1, <3>2
  <2> QED
    BY <2>1, <2>2, <2>3, <2>4, <2>5 DEF TableOK
<1>9. ASSUME ~h.branched PROVE Chain(rows2)
  <2>1. Chain(base) /\ rows[old].superseded_by = 0 /\ base[old] = rows[old]
    BY <1>2, <1>3, <1>9 DEF Whole
  <2>2. PICK top \in Versions!Inserted(base) :
          /\ Versions!Current(base) = {top}
          /\ \A r \in Versions!Inserted(base) \ {top} : base[r].version < base[top].version
    BY <2>1 DEF Chain
  <2>3. top = old
    BY <1>7, <2>1, <2>2 DEF Versions!Current, Versions!NoRow
  <2>4. \A r \in Versions!Inserted(base) : r # old =>
          r \in Versions!Row /\ rows2[r] = base[r] /\ base[r] \in VersionRow /\ base[r].superseded_by # 0
    BY <1>2, <1>3, <1>7, <2>2, <2>3 DEF Versions!Current, Versions!Inserted, Versions!NoRow, TableOK
  <2>5. \A r \in Versions!Inserted(base) : rows2[r].version = base[r].version /\ rows2[r].version \in Nat
    BY <1>2, <1>4, <2>1, <2>4 DEF VersionRow
  <2>6. Versions!Current(rows2) = {new}
    BY <1>2, <1>4, <1>7, <2>4, RowNumbers DEF Versions!Current, Versions!NoRow
  <2>7. \A r \in Versions!Inserted(rows2) \ {new} : rows2[r].version < rows2[new].version
    <3>1. rows2[new].version = base[old].version + 1 /\ base[old].version \in Nat
      BY <1>2, <1>4, <2>1 DEF VersionRow
    <3> QED
      BY <1>7, <2>2, <2>3, <2>5, <3>1
  <2>8. ASSUME NEW r \in Versions!Inserted(rows2), rows2[r].superseded_by # 0
        PROVE  /\ rows2[r].superseded_by \in Versions!Inserted(rows2)
               /\ rows2[rows2[r].superseded_by].version = rows2[r].version + 1
    <3>1. r # new
      BY <1>2, <1>4, <2>8
    <3>2. CASE r = old
      BY <1>2, <1>4, <1>7, <3>2
    <3>3. CASE r # old
      <4>1. r \in Versions!Inserted(base) /\ rows2[r] = base[r]
        BY <1>7, <2>4, <3>1, <3>3
      <4>2. /\ base[r].superseded_by \in Versions!Inserted(base)
            /\ base[base[r].superseded_by].version = base[r].version + 1
        BY <2>1, <2>8, <4>1 DEF Chain
      <4> QED
        BY <1>7, <2>5, <4>1, <4>2
    <3> QED
      BY <3>2, <3>3
  <2> QED
    BY <1>7, <2>6, <2>7, <2>8 DEF Chain
<1>10. ASSUME h.table = "practices" PROVE Events(rows2)
  <2>1. PICK e : e = [practice |-> old, new |-> new, status |-> "flagged"]
    OBVIOUS
  <2>2. e.practice = old /\ e.new = new /\ rows2[0] = base[0] \union {e}
    BY <1>3, <1>10, <2>1
  <2>3. Events(base)
    BY <1>2, <1>10 DEF Whole
  <2>4. \A d \in base[0] : d.new # new
    BY <1>7, <2>3 DEF Events
  <2>5. Explained(rows2, new)
    BY <1>2, <2>2, <2>4 DEF Explained
  <2>6. ASSUME NEW r \in Versions!Inserted(base) \ {1} PROVE Explained(rows2, r)
    <3>1. Explained(base, r) /\ r # new
      BY <1>7, <2>3 DEF Events
    <3> QED
      BY <2>2, <3>1 DEF Explained
  <2> QED
    BY <1>7, <2>2, <2>3, <2>5, <2>6 DEF Events
<1> QED
  BY <1>8, <1>9, <1>10 DEF Whole

\* A resolved event is still the one of its version.
LEMMA Resolved ==
  ASSUME NEW rows, NEW h, NEW event \in rows[0], NEW resolved, NEW rows2,
         TableOK(rows), Whole(rows, h),
         resolved = [event EXCEPT !.status = "resolved"],
         rows2 = [r \in DOMAIN rows |-> IF r = 0 THEN (rows[0] \ {event}) \union {resolved} ELSE rows[r]]
  PROVE  TableOK(rows2) /\ Whole(rows2, h)
<1>1. DOMAIN rows = Versions!Row \union {0}
  BY DEF TableOK
<1>2. event \in Event
  BY DEF TableOK
<1>3. resolved \in Event /\ resolved.new = event.new /\ resolved.practice = event.practice
  BY <1>2 DEF Event
<1>4. rows2[0] = (rows[0] \ {event}) \union {resolved} /\ \A r \in Versions!Row : rows2[r] = rows[r]
  BY <1>1, RowNumbers
<1>5. Versions!Inserted(rows2) = Versions!Inserted(rows) /\ Versions!Current(rows2) = Versions!Current(rows)
  BY <1>4 DEF Versions!Inserted, Versions!Current
<1>6. TableOK(rows2)
  <2>1. rows2[0] \subseteq Event /\ rows2 = [r \in Versions!Row \union {0} |-> rows2[r]]
    BY <1>1, <1>3, <1>4 DEF TableOK
  <2>2. ASSUME NEW r \in Versions!Row, rows2[r] # Absent, rows2[r].superseded_by # 0
        PROVE  rows2[rows2[r].superseded_by] # Absent
    <3>1. rows2[r] = rows[r] /\ rows[r] \in VersionRow /\ rows[rows[r].superseded_by] # Absent
      BY <1>4, <2>2 DEF TableOK
    <3> QED
      BY <1>4, <2>2, <3>1 DEF VersionRow
  <2> QED
    BY <1>4, <1>5, <2>1, <2>2 DEF TableOK
<1>7. ASSUME ~h.branched PROVE Chain(rows2)
  <2>1. Chain(rows) /\ \A r \in Versions!Inserted(rows) : r \in Versions!Row /\ rows2[r] = rows[r]
    BY <1>4, <1>7 DEF Whole, Versions!Inserted
  <2> QED
    BY ZenonT(60), <1>5, <2>1 DEF Chain
<1>8. ASSUME h.table = "practices" PROVE Events(rows2)
  <2>1. Events(rows)
    BY <1>8 DEF Whole
  <2>2. ASSUME NEW r \in Versions!Inserted(rows) \ {1} PROVE Explained(rows2, r)
    <3>1. PICK e \in rows[0] : /\ e.new = r /\ e.practice # r
                               /\ \A other \in rows[0] : other.new = r => other = e
      BY <2>1 DEF Events, Explained
    <3>2. CASE e = event
      <4>1. resolved \in rows2[0] /\ resolved.new = r /\ resolved.practice # r
        BY <1>3, <1>4, <3>1, <3>2
      <4>2. \A other \in rows2[0] : other.new = r => other = resolved
        BY <1>4, <3>1, <3>2
      <4> QED
        BY <4>1, <4>2 DEF Explained
    <3>3. CASE e # event
      <4>1. e \in rows2[0] /\ event.new # r
        BY <1>4, <3>1, <3>3
      <4>2. \A other \in rows2[0] : other.new = r => other = e
        BY <1>3, <1>4, <3>1, <4>1
      <4> QED
        BY <3>1, <4>1, <4>2 DEF Explained
    <3> QED
      BY <3>2, <3>3
  <2>3. \A d \in rows2[0] : d.new \in Versions!Inserted(rows2)
    BY <1>3, <1>4, <1>5, <2>1 DEF Events
  <2> QED
    BY <1>5, <2>2, <2>3 DEF Events
<1> QED
  BY <1>6, <1>7, <1>8 DEF Whole

\* A copy has the version of the row seen, and no pointer to the next key.
LEMMA VersionCopy ==
  ASSUME VersionRows, VersionCopies, NEW s \in Session, NEW r \in Versions!Row,
         Versions!Sees(s)[r] # Absent
  PROVE  /\ Versions!Copy(s, r) \in VersionRow
         /\ Versions!Copy(s, r).version = Versions!Sees(s)[r].version
         /\ \A new \in Versions!Row : Versions!Sees(s)[new] = Absent =>
              Versions!Copy(s, r).superseded_by # new
<1>1. TableOK(Versions!Sees(s))
  BY VersionSees
<1>2. CASE cache[s][r] = NotLoaded
  <2>1. Versions!Copy(s, r) = Versions!Sees(s)[r]
    BY <1>2 DEF Versions!Copy
  <2> QED
    BY <1>1, <2>1, RowNumbers DEF TableOK
<1>3. CASE cache[s][r] # NotLoaded
  <2>1. Versions!Copy(s, r) = cache[s][r]
    BY <1>3 DEF Versions!Copy
  <2>2. /\ cache[s][r] \in VersionRow
        /\ cache[s][r].version = Versions!Sees(s)[r].version
        /\ cache[s][r].superseded_by # 0 => Versions!Sees(s)[cache[s][r].superseded_by] # Absent
    BY <1>3 DEF VersionCopies
  <2> QED
    BY <2>1, <2>2, RowNumbers
<1> QED
  BY <1>2, <1>3

\* Somebody in a call holds the lock.
LEMMA VersionWriter ==
  ASSUME VersionInv, NEW s \in Session, writer \in {NoSession, s}, call[s] = [op |-> "idle"]
  PROVE  (\A t \in Session : call[t] = [op |-> "idle"]) /\ Whole(work, history)
<1>1. \A t \in Session : call[t].op = "supersede" => writer = t
  BY DEF VersionInv, VersionChanges
<1>2. ASSUME NEW t \in Session PROVE call[t] = [op |-> "idle"]
  <2>1. call[t] = [op |-> "idle"] \/ call[t] \in Supersession
    BY DEF VersionInv, VersionRows
  <2>2. call[t] \in Supersession => call[t].op = "supersede"
    BY DEF Supersession
  <2>3. call[t].op = "supersede" => t = s
    BY <1>1, SessionAssumption
  <2> QED
    BY <2>1, <2>2, <2>3
<1> QED
  BY <1>2 DEF VersionInv, VersionChanges

\* The first flush of a change keeps the invariant.
LEMMA VersionInsert ==
  ASSUME VersionInv, NEW s \in Session, NEW old \in Versions!Row, Versions!InsertVersion(s, old)
  PROVE  VersionInv'
<1>1. VersionRows /\ VersionCopies /\ VersionChanges
  BY DEF VersionInv
<1>2. PICK new : new = Versions!NextRow(Versions!Sees(s))
  OBVIOUS
<1>3. /\ call[s] = [op |-> "idle"] /\ Versions!Sees(s)[old] # Absent /\ new \in Versions!Row
      /\ writer \in {NoSession, s} /\ writer' = s
      /\ call' = [call EXCEPT ![s] = [op |-> "supersede", old |-> old, new |-> new]]
      /\ history' = [history EXCEPT !.branched = @ \/ old \notin Versions!Current(Versions!Sees(s))]
      /\ UNCHANGED <<db, cache>>
  BY <1>2 DEF Versions!InsertVersion, Versions!Begin, Versions!Write, Versions!Idle
<1>4. Versions!Sees(s) = work /\ TableOK(work) /\ TableOK(db) /\ new = Versions!NextRow(work)
  BY <1>1, <1>2, <1>3, VersionSees DEF VersionRows
<1>5. work[new] = Absent /\ db[new] = Absent /\ old # new /\ new # 0
  BY <1>1, <1>3, <1>4, NextKey, RowNumbers DEF VersionRows
<1>6. PICK terms \in Treatment :
        work' = Versions!Replaced(work, Versions!Only(new, Versions!NewVersion(Versions!Copy(s, old), terms)))
  BY <1>2, <1>4 DEF Versions!InsertVersion, Versions!Write
<1>7. PICK row : row = Versions!NewVersion(Versions!Copy(s, old), terms)
  OBVIOUS
<1>8. row \in VersionRow /\ row.superseded_by = 0 /\ row.version = work[old].version + 1
  <2>1. Versions!Copy(s, old) \in VersionRow /\ Versions!Copy(s, old).version = work[old].version
    BY <1>1, <1>3, <1>4, VersionCopy
  <2> QED
    BY <1>7, <2>1 DEF Versions!NewVersion, Versions!NoRow, VersionRow
<1>9. work' = [r \in DOMAIN work |-> IF r = new THEN row ELSE work[r]]
  BY <1>6, <1>7 DEF Versions!Replaced, Versions!Only
<1>10. Whole(work, history) /\ \A t \in Session : call[t] = [op |-> "idle"]
  BY <1>3, VersionWriter
<1>11. /\ history' \in [table : {"contracts", "practices"}, branched : BOOLEAN]
       /\ history'.table = history.table
       /\ ~history'.branched => ~history.branched /\ work[old].superseded_by = 0
  <2>1. history \in [table : {"contracts", "practices"}, branched : BOOLEAN]
    BY <1>1 DEF VersionRows
  <2>2. history'.table = history.table
    BY <1>3, <2>1
  <2>3. history'.branched = (history.branched \/ old \notin Versions!Current(work))
    BY <1>3, <1>4, <2>1
  <2>4. history' \in [table : {"contracts", "practices"}, branched : BOOLEAN]
    BY <1>3, <1>4, <2>1
  <2> QED
    BY <2>2, <2>3, <2>4 DEF Versions!Current, Versions!NoRow
<1>12. TableOK(work') /\ Half(work', history', old, new)
  BY <1>2, <1>3, <1>4, <1>8, <1>9, <1>10, <1>11, HalfMade
<1>13. /\ DOMAIN call' = Session
       /\ call'[s] = [op |-> "supersede", old |-> old, new |-> new]
       /\ \A t \in Session : t # s => call'[t] = [op |-> "idle"]
  BY <1>1, <1>3, <1>10 DEF VersionRows
<1>14. \A r \in Versions!Row : work[r] # Absent => work'[r] = work[r] /\ r # new
  BY <1>4, <1>5, <1>9 DEF TableOK
<1>15. VersionRows'
  <2>1. \A r \in Versions!Row : db'[r] # Absent => work'[r] # Absent /\ work'[r].version = db'[r].version
    BY <1>1, <1>3, <1>14 DEF VersionRows
  <2>2. call'[s] \in Supersession
    BY <1>3, <1>13 DEF Supersession
  <2>3. writer' \in Session /\ writer' # NoSession
    BY <1>3, SessionAssumption
  <2>4. TableOK(db)' /\ TableOK(work)'
    BY <1>3, <1>4, <1>12 DEF TableOK, Versions!Inserted
  <2> QED
    BY <1>11, <1>13, <2>1, <2>2, <2>3, <2>4 DEF VersionRows
<1>16. VersionCopies'
  <2>1. ASSUME NEW t \in Session, NEW r \in Versions!Row, Versions!Sees(t)[r] # Absent
        PROVE  Versions!Sees(t)'[r] = Versions!Sees(t)[r]
    BY <1>3, <1>4, <1>14, <2>1, SessionAssumption DEF Versions!Sees
  <2>2. \A t \in Session : \A r \in Versions!Row : cache[t][r] # NotLoaded /\ cache[t][r].superseded_by # 0 =>
          cache[t][r].superseded_by \in Versions!Row
    BY <1>1 DEF VersionCopies, VersionRow
  <2> QED
    BY <1>1, <1>3, <2>1, <2>2 DEF VersionCopies
<1>17. VersionChanges'
  <2>1. Whole(db, history)'
    <3>1. Whole(db, history')
      BY <1>1, <1>11 DEF VersionChanges, Whole
    <3> QED
      BY <1>3, <3>1 DEF Whole, Chain, Events, Explained, Versions!Inserted, Versions!Current
  <2>2. call'[s] # [op |-> "idle"] /\ call'[s].old = old /\ call'[s].new = new
    <3>1. call'[s].op = "supersede"
      BY <1>13
    <3> QED
      BY <1>13, <3>1
  <2>3. Half(work, history, call[s].old, call[s].new)'
    <3>1. Half(work', history', call'[s].old, call'[s].new)
      BY <1>12, <2>2
    <3> QED
      BY <3>1
  <2>4. Versions!Copy(s, old)'.superseded_by # new
    <3>1. Versions!Copy(s, old)' = Versions!Copy(s, old)
      BY <1>3, <1>4, <1>14 DEF Versions!Copy, Versions!Sees
    <3> QED
      BY <1>1, <1>3, <1>4, <1>5, <3>1, VersionCopy
  <2>5. \A t \in Session : call'[t].op = "supersede" => t = s
    BY <1>13
  <2> QED
    BY <1>3, <2>1, <2>2, <2>3, <2>4, <2>5 DEF VersionChanges
<1> QED
  BY <1>15, <1>16, <1>17 DEF VersionInv

\* The second flush of a change keeps the invariant.
LEMMA VersionPoint ==
  ASSUME VersionInv, NEW s \in Session, Versions!PointToVersion(s)
  PROVE  VersionInv'
<1>1. VersionRows /\ VersionCopies /\ VersionChanges
  BY DEF VersionInv
<1>2. call[s].op = "supersede" /\ writer = s
  BY DEF Versions!PointToVersion
<1>3. call[s] \in Supersession
  <2>1. call[s] \in {[op |-> "idle"]} \union Supersession
    BY <1>1 DEF VersionRows
  <2>2. call[s] # [op |-> "idle"]
    BY <1>2
  <2> QED
    BY <2>1, <2>2
<1>4. PICK old \in Versions!Row, new \in Versions!Row : old = call[s].old /\ new = call[s].new
  BY <1>3 DEF Supersession
<1>5. Versions!Sees(s) = work /\ TableOK(work) /\ TableOK(db)
  BY <1>1, <1>2, VersionSees DEF VersionRows
<1>6. Half(work, history, old, new) /\ Versions!Copy(s, old).superseded_by # new
  BY <1>1, <1>2, <1>4 DEF VersionChanges
<1>7. work[old] # Absent /\ work[new] # Absent /\ old # new /\ work[old] \in VersionRow
  BY <1>5, <1>6 DEF Half, TableOK
<1>8. PICK copy : copy = [Versions!Copy(s, old) EXCEPT !.superseded_by = new]
  OBVIOUS
<1>9. /\ Versions!Copy(s, old) \in VersionRow
      /\ Versions!Copy(s, old).version = work[old].version
  BY <1>1, <1>5, <1>7, VersionCopy
<1>10. /\ copy \in VersionRow /\ copy.superseded_by = new /\ copy.version = work[old].version
       /\ copy.terms = Versions!Copy(s, old).terms /\ copy.version = Versions!Copy(s, old).version
  BY <1>4, <1>8, <1>9 DEF VersionRow
<1>11. Versions!Set(work[old], Versions!Copy(s, old), copy)
         = [version |-> work[old].version, terms |-> work[old].terms, superseded_by |-> new]
  <2>1. work[old] = [version |-> work[old].version, terms |-> work[old].terms,
                     superseded_by |-> work[old].superseded_by]
    BY <1>7 DEF VersionRow
  <2>2. DOMAIN work[old] = {"version", "terms", "superseded_by"}
    BY <2>1
  <2>3. Versions!Set(work[old], Versions!Copy(s, old), copy)
          = [c \in {"version", "terms", "superseded_by"} |->
               IF copy[c] = Versions!Copy(s, old)[c] THEN work[old][c] ELSE copy[c]]
    BY <1>7, <2>2 DEF Versions!Set
  <2>4. /\ copy["version"] = Versions!Copy(s, old)["version"]
        /\ copy["terms"] = Versions!Copy(s, old)["terms"]
        /\ copy["superseded_by"] # Versions!Copy(s, old)["superseded_by"]
        /\ copy["superseded_by"] = new
    BY <1>6, <1>10
  <2> QED
    BY <2>3, <2>4
<1>12. PICK events : events = IF history.table = "practices"
                              THEN work[0] \union Versions!ChangeEvent(old, new) ELSE work[0]
  OBVIOUS
<1>13. /\ work' = [Versions!Flushed(s, Versions!Only(old, copy)) EXCEPT ![0] = events]
       /\ cache' = Versions!Keep(s, Versions!Only(old, copy))
       /\ call' = [call EXCEPT ![s] = [op |-> "idle"]]
       /\ UNCHANGED <<db, writer, calls, history>>
  BY <1>4, <1>5, <1>8, <1>12 DEF Versions!PointToVersion, Versions!Idle, Versions!Events
<1>14. DOMAIN db = Versions!Row \union {0} /\ DOMAIN work = Versions!Row \union {0}
  BY <1>5 DEF TableOK
<1>15. Versions!Flushed(s, Versions!Only(old, copy))
         = [r \in Versions!Row \union {0} |->
              IF r = old THEN [version |-> work[old].version, terms |-> work[old].terms, superseded_by |-> new]
                         ELSE work[r]]
  BY <1>5, <1>11, <1>14 DEF Versions!Flushed, Versions!Only
<1>16. /\ work' = [r \in Versions!Row \union {0} |-> work'[r]]
       /\ \A r \in Versions!Row : r # old => work'[r] = work[r]
       /\ work'[old] = [version |-> work[old].version, terms |-> work[old].terms, superseded_by |-> new]
       /\ work'[0] = events
  BY <1>13, <1>15, RowNumbers
<1>17. TableOK(work') /\ Whole(work', history)
  <2>1. events = IF history.table = "practices"
                 THEN work[0] \union {[practice |-> old, new |-> new, status |-> "flagged"]} ELSE work[0]
    BY <1>12 DEF Versions!ChangeEvent
  <2>2. DOMAIN work' = DOMAIN work /\ work' = [r \in DOMAIN work |-> work'[r]]
    BY <1>14, <1>16
  <2>3. work'[0] = IF history.table = "practices"
                   THEN work[0] \union {[practice |-> old, new |-> new, status |-> "flagged"]} ELSE work[0]
    BY <1>16, <2>1
  <2>4. /\ \A r \in Versions!Row : r # old => work'[r] = work[r]
        /\ work'[old] = [version |-> work[old].version, terms |-> work[old].terms, superseded_by |-> new]
    BY <1>16
  <2>5. PICK rows2 : rows2 = work'
    OBVIOUS
  <2>6. DOMAIN rows2 = DOMAIN work
    BY <2>2, <2>5
  <2>7. rows2 = [r \in DOMAIN work |-> rows2[r]]
    BY <2>2, <2>5
  <2>8. \A r \in Versions!Row : r # old => rows2[r] = work[r]
    BY <2>4, <2>5
  <2>9. rows2[old] = [version |-> work[old].version, terms |-> work[old].terms, superseded_by |-> new]
    BY <2>4, <2>5
  <2>10. rows2[0] = IF history.table = "practices"
                    THEN work[0] \union {[practice |-> old, new |-> new, status |-> "flagged"]} ELSE work[0]
    BY <2>3, <2>5
  <2>11. TableOK(work)
    BY <1>5
  <2>12. TableOK(rows2) /\ Whole(rows2, history)
    BY <1>6, <2>6, <2>7, <2>8, <2>9, <2>10, <2>11, HalfDone
  <2> QED
    BY <2>5, <2>12
<1>18. \A r \in Versions!Row : work[r] # Absent => work'[r] # Absent /\ work'[r].version = work[r].version
  <2>1. work'[old] \in VersionRow /\ work'[old].version = work[old].version
    BY <1>7, <1>16 DEF VersionRow
  <2> QED
    BY <1>16, <2>1, NullVersions
<1>19. call'[s] = [op |-> "idle"] /\ \A t \in Session : call'[t] = [op |-> "idle"]
  <2>1. \A t \in Session : t # s => call[t] \notin Supersession
    BY <1>1, <1>2 DEF VersionChanges, Supersession
  <2> QED
    BY <1>1, <1>13, <2>1 DEF VersionRows
<1>20. VersionRows'
  <2>1. \A r \in Versions!Row : db'[r] # Absent => work'[r] # Absent /\ work'[r].version = db'[r].version
    BY <1>1, <1>13, <1>18 DEF VersionRows
  <2>2. writer' \in Session /\ writer' # NoSession
    BY <1>2, <1>13, SessionAssumption
  <2>3. TableOK(db)' /\ TableOK(work)'
    <3>1. TableOK(db') /\ TableOK(work')
      BY <1>5, <1>13, <1>17
    <3> QED
      BY <3>1
  <2>4. DOMAIN call' = Session
    BY <1>1, <1>13 DEF VersionRows
  <2> QED
    BY <1>1, <1>13, <1>19, <2>1, <2>2, <2>3, <2>4 DEF VersionRows
<1>21. VersionCopies'
  <2>1. DOMAIN cache' = Session /\ cache'[s] = Versions!Replaced(cache[s], Versions!Only(old, copy))
        /\ \A t \in Session : t # s => cache'[t] = cache[t]
    BY <1>1, <1>13 DEF VersionCopies, Versions!Keep
  <2>2. DOMAIN cache[s] = Versions!Row \union {0}
    BY <1>1 DEF VersionCopies
  <2>3. cache'[s] = [r \in Versions!Row \union {0} |-> IF r = old THEN copy ELSE cache[s][r]]
    BY <2>1, <2>2 DEF Versions!Replaced, Versions!Only
  <2>4. /\ Versions!Sees(s)' = work'
        /\ \A t \in Session : t # s => Versions!Sees(t)' = Versions!Sees(t)
    BY <1>2, <1>13 DEF Versions!Sees
  <2>5. ASSUME NEW t \in Session, NEW r \in Versions!Row, cache'[t][r] # NotLoaded
        PROVE  /\ cache'[t][r] \in VersionRow
               /\ Versions!Sees(t)'[r] # Absent
               /\ cache'[t][r].version = Versions!Sees(t)'[r].version
               /\ cache'[t][r].superseded_by # 0 => Versions!Sees(t)'[cache'[t][r].superseded_by] # Absent
    <3>1. CASE t # s
      BY <1>1, <2>1, <2>4, <2>5, <3>1 DEF VersionCopies
    <3>2. CASE t = s /\ r = old
      BY <1>7, <1>10, <1>18, <2>3, <2>4, <3>2
    <3>3. CASE t = s /\ r # old
      <4>1. cache'[s][r] = cache[s][r] /\ cache[s][r] # NotLoaded
        BY <2>3, <2>5, <3>3
      <4>2. /\ cache[s][r] \in VersionRow /\ work[r] # Absent
            /\ cache[s][r].version = work[r].version
            /\ cache[s][r].superseded_by # 0 => work[cache[s][r].superseded_by] # Absent
        BY <1>1, <1>5, <4>1 DEF VersionCopies
      <4>3. cache[s][r].superseded_by # 0 => cache[s][r].superseded_by \in Versions!Row
        BY <4>2 DEF VersionRow
      <4> QED
        BY <1>18, <2>4, <3>3, <4>1, <4>2, <4>3
    <3> QED
      BY <3>1, <3>2, <3>3
  <2>6. \A t \in Session : DOMAIN cache'[t] = Versions!Row \union {0}
    BY <1>1, <2>1, <2>3 DEF VersionCopies
  <2> QED
    BY <2>1, <2>5, <2>6 DEF VersionCopies
<1>22. VersionChanges'
  <2>1. Whole(db, history)' /\ Whole(work, history)'
    <3>1. Whole(db', history') /\ Whole(work', history')
      BY <1>1, <1>13, <1>17 DEF VersionChanges
    <3> QED
      BY <3>1
  <2>2. \A t \in Session : call'[t].op # "supersede"
    BY <1>19
  <2> QED
    BY <2>1, <2>2 DEF VersionChanges
<1> QED
  BY <1>20, <1>21, <1>22 DEF VersionInv

\* resolve_change_event keeps the invariant.
LEMMA VersionResolve ==
  ASSUME VersionInv, NEW s \in Session, Versions!ResolveChangeEvent(s)
  PROVE  VersionInv'
<1>1. VersionRows /\ VersionCopies /\ VersionChanges
  BY DEF VersionInv
<1>2. /\ call[s] = [op |-> "idle"] /\ writer \in {NoSession, s} /\ writer' = s
      /\ UNCHANGED <<db, cache, call, history>>
  BY DEF Versions!ResolveChangeEvent, Versions!Begin, Versions!Write, Versions!Idle
<1>3. Versions!Sees(s) = work /\ TableOK(work) /\ TableOK(db)
  BY <1>1, <1>2, VersionSees DEF VersionRows
<1>4. PICK event \in work[0] :
        work' = Versions!Replaced(work, Versions!Only(0, (work[0] \ {event})
                                                   \union {[event EXCEPT !.status = "resolved"]}))
  BY <1>3 DEF Versions!ResolveChangeEvent, Versions!Write, Versions!Events
<1>5. PICK resolved : resolved = [event EXCEPT !.status = "resolved"]
  OBVIOUS
<1>6. work' = [r \in DOMAIN work |-> IF r = 0 THEN (work[0] \ {event}) \union {resolved} ELSE work[r]]
  BY <1>4, <1>5 DEF Versions!Replaced, Versions!Only
<1>7. Whole(work, history) /\ \A t \in Session : call[t] = [op |-> "idle"]
  BY <1>2, VersionWriter
<1>8. TableOK(work') /\ Whole(work', history)
  BY <1>3, <1>5, <1>6, <1>7, Resolved
<1>9. \A r \in Versions!Row : work'[r] = work[r]
  BY <1>3, <1>6, RowNumbers DEF TableOK
<1>10. VersionRows'
  <2>1. TableOK(db)' /\ TableOK(work)'
    <3>1. TableOK(db') /\ TableOK(work')
      BY <1>2, <1>3, <1>8
    <3> QED
      BY <3>1
  <2>2. writer' \in Session /\ writer' # NoSession
    BY <1>2, SessionAssumption
  <2> QED
    BY <1>1, <1>2, <1>9, <2>1, <2>2 DEF VersionRows
<1>11. VersionCopies'
  <2>1. \A t \in Session : \A r \in Versions!Row : Versions!Sees(t)'[r] = Versions!Sees(t)[r]
    BY <1>2, <1>3, <1>9, SessionAssumption DEF Versions!Sees
  <2>2. \A t \in Session : \A r \in Versions!Row : cache[t][r] # NotLoaded /\ cache[t][r].superseded_by # 0 =>
          cache[t][r].superseded_by \in Versions!Row
    BY <1>1 DEF VersionCopies, VersionRow
  <2> QED
    BY <1>1, <1>2, <2>1, <2>2 DEF VersionCopies
<1>12. VersionChanges'
  <2>1. Whole(db, history)' /\ Whole(work, history)'
    <3>1. Whole(db', history') /\ Whole(work', history')
      BY <1>1, <1>2, <1>8 DEF VersionChanges
    <3> QED
      BY <3>1
  <2> QED
    BY <1>2, <1>7, <2>1 DEF VersionChanges
<1> QED
  BY <1>10, <1>11, <1>12 DEF VersionInv

\* What happens between service calls keeps the invariant.
LEMMA VersionSession ==
  ASSUME VersionInv, Versions!SessionStep(Versions!Row)
  PROVE  VersionInv'
<1>1. VersionRows /\ VersionCopies /\ VersionChanges
  BY DEF VersionInv
<1>2. PICK s \in Session : \/ \E r \in Versions!Row : Versions!Load(s, r)
                           \/ Versions!EndSession(s) \/ Versions!Commit(s) \/ Versions!Rollback(s)
  BY DEF Versions!SessionStep
<1>3. DOMAIN db = Versions!Row \union {0} /\ TableOK(db) /\ TableOK(work)
  BY <1>1 DEF VersionRows, TableOK
<1>4. CASE \E r \in Versions!Row : Versions!Load(s, r)
  <2>1. PICK r \in Versions!Row : Versions!Load(s, r)
    BY <1>4
  <2>2. /\ Versions!Sees(s)[r] # Absent /\ cache[s][r] = NotLoaded
        /\ call[s] = [op |-> "idle"]
        /\ cache' = [cache EXCEPT ![s][r] = Versions!Sees(s)[r]]
        /\ UNCHANGED <<db, work, writer, call, calls, history>>
    BY <2>1 DEF Versions!Load, Versions!Idle
  <2>3. TableOK(Versions!Sees(s))
    BY <1>1, VersionSees
  <2>4. VersionRows'
    BY <1>1, <2>2 DEF VersionRows, TableOK, Versions!Inserted
  <2>5. /\ DOMAIN cache' = Session /\ DOMAIN cache'[s] = Versions!Row \union {0}
        /\ cache'[s][r] = Versions!Sees(s)[r]
        /\ \A k \in Versions!Row : k # r => cache'[s][k] = cache[s][k]
        /\ \A t \in Session : t # s => cache'[t] = cache[t]
    BY <1>1, <2>2 DEF VersionCopies
  <2>6. \A t \in Session : Versions!Sees(t)' = Versions!Sees(t)
    BY <2>2 DEF Versions!Sees
  <2>7. /\ Versions!Sees(s)[r] \in VersionRow
        /\ Versions!Sees(s)[r].superseded_by # 0 => Versions!Sees(s)[Versions!Sees(s)[r].superseded_by] # Absent
    BY <2>2, <2>3 DEF TableOK
  <2>8. VersionCopies'
    BY <1>1, <2>5, <2>6, <2>7, <2>2 DEF VersionCopies
  <2>9. VersionChanges'
    <3>1. \A t \in Session : call[t].op = "supersede" => t # s
      BY <2>2
    <3>2. \A t \in Session : t # s => \A k \in Versions!Row : Versions!Copy(t, k)' = Versions!Copy(t, k)
      BY <2>5, <2>6 DEF Versions!Copy
    <3>3. \A t \in Session : call[t].op = "supersede" => call[t].old \in Versions!Row
      BY <1>1 DEF VersionRows, Supersession
    <3>4. /\ Whole(db, history)' <=> Whole(db, history)
          /\ Whole(work, history)' <=> Whole(work, history)
      BY <2>2 DEF Whole, Chain, Events, Explained, Versions!Inserted, Versions!Current
    <3>5. \A t \in Session : Half(work, history, call[t].old, call[t].new)
                              <=> Half(work', history', call'[t].old, call'[t].new)
      BY <2>2
    <3> QED
      BY <1>1, <2>2, <3>1, <3>2, <3>3, <3>4, <3>5 DEF VersionChanges
  <2> QED
    BY <2>4, <2>8, <2>9 DEF VersionInv
<1>5. CASE Versions!EndSession(s)
  <2>1. /\ call[s] = [op |-> "idle"]
        /\ cache' = [cache EXCEPT ![s] = [k \in DOMAIN db |-> NotLoaded]]
        /\ UNCHANGED <<db, work, writer, call, calls, history>>
    BY <1>5 DEF Versions!EndSession, Versions!Idle
  <2>2. VersionRows'
    BY <1>1, <2>1 DEF VersionRows, TableOK, Versions!Inserted
  <2>3. /\ DOMAIN cache' = Session /\ cache'[s] = [k \in Versions!Row \union {0} |-> NotLoaded]
        /\ \A t \in Session : t # s => cache'[t] = cache[t]
    BY <1>1, <1>3, <2>1 DEF VersionCopies
  <2>4. \A t \in Session : Versions!Sees(t)' = Versions!Sees(t)
    BY <2>1 DEF Versions!Sees
  <2>5. VersionCopies'
    BY <1>1, <2>3, <2>4 DEF VersionCopies
  <2>6. VersionChanges'
    <3>1. \A t \in Session : call[t].op = "supersede" => t # s
      BY <2>1
    <3>2. \A t \in Session : t # s => \A k \in Versions!Row : Versions!Copy(t, k)' = Versions!Copy(t, k)
      BY <2>3, <2>4 DEF Versions!Copy
    <3>3. \A t \in Session : call[t].op = "supersede" => call[t].old \in Versions!Row
      BY <1>1 DEF VersionRows, Supersession
    <3>4. /\ Whole(db, history)' <=> Whole(db, history)
          /\ Whole(work, history)' <=> Whole(work, history)
      BY <2>1 DEF Whole, Chain, Events, Explained, Versions!Inserted, Versions!Current
    <3>5. \A t \in Session : Half(work, history, call[t].old, call[t].new)
                              <=> Half(work', history', call'[t].old, call'[t].new)
      BY <2>1
    <3> QED
      BY <1>1, <2>1, <3>1, <3>2, <3>3, <3>4, <3>5 DEF VersionChanges
  <2> QED
    BY <2>2, <2>5, <2>6 DEF VersionInv
<1>6. CASE Versions!Commit(s)
  <2>1. /\ writer = s /\ call[s] = [op |-> "idle"] /\ db' = work /\ writer' = NoSession
        /\ UNCHANGED <<work, cache, call, calls, history>>
    BY <1>6 DEF Versions!Commit, Versions!Idle
  <2>2. Whole(work, history) /\ \A t \in Session : call[t] = [op |-> "idle"]
    BY <2>1, VersionWriter
  <2>3. VersionRows'
    <3>1. TableOK(db') /\ TableOK(work')
      BY <1>3, <2>1
    <3>2. TableOK(db)' /\ TableOK(work)'
      BY <3>1
    <3>3. \A r \in Versions!Row : db'[r] # Absent => work'[r] # Absent /\ work'[r].version = db'[r].version
      BY <2>1
    <3> QED
      BY <1>1, <2>1, <3>2, <3>3 DEF VersionRows
  <2>4. VersionCopies'
    <3>1. \A t \in Session : \A r \in Versions!Row : Versions!Sees(t)[r] # Absent =>
            Versions!Sees(t)'[r] # Absent /\ Versions!Sees(t)'[r].version = Versions!Sees(t)[r].version
      BY <1>1, <2>1, SessionAssumption DEF Versions!Sees, VersionRows
    <3>2. \A t \in Session : \A r \in Versions!Row : cache[t][r] # NotLoaded /\ cache[t][r].superseded_by # 0 =>
            cache[t][r].superseded_by \in Versions!Row
      BY <1>1 DEF VersionCopies, VersionRow
    <3> QED
      BY <1>1, <2>1, <3>1, <3>2 DEF VersionCopies
  <2>5. VersionChanges'
    <3>1. Whole(db', history') /\ Whole(work', history')
      BY <2>1, <2>2
    <3>2. Whole(db, history)' /\ Whole(work, history)'
      BY <3>1
    <3> QED
      BY <2>1, <2>2, <3>2 DEF VersionChanges
  <2> QED
    BY <2>3, <2>4, <2>5 DEF VersionInv
<1>7. CASE Versions!Rollback(s)
  <2>1. /\ work' = IF writer = s THEN db ELSE work
        /\ writer' = IF writer = s THEN NoSession ELSE writer
        /\ cache' = [cache EXCEPT ![s] = [k \in DOMAIN db |-> NotLoaded]]
        /\ call' = [call EXCEPT ![s] = [op |-> "idle"]]
        /\ UNCHANGED <<db, calls, history>>
    BY <1>7 DEF Versions!Rollback, Versions!Idle
  <2>2. writer = s
    <3>1. writer = s \/ call[s] # [op |-> "idle"]
      BY <1>7 DEF Versions!Rollback, Versions!Idle
    <3>2. call[s] \in Supersession => writer = s
      BY <1>1 DEF VersionChanges, Supersession
    <3> QED
      BY <1>1, <3>1, <3>2 DEF VersionRows
  <2>3. \A t \in Session : call'[t] = [op |-> "idle"]
    <3>1. \A t \in Session : t # s => call[t] \notin Supersession
      BY <1>1, <2>2 DEF VersionChanges, Supersession
    <3> QED
      BY <1>1, <2>1, <3>1 DEF VersionRows
  <2>4. VersionRows'
    <3>1. TableOK(db') /\ TableOK(work')
      BY <1>3, <2>1, <2>2
    <3>2. TableOK(db)' /\ TableOK(work)'
      BY <3>1
    <3>3. DOMAIN call' = Session
      BY <1>1, <2>1 DEF VersionRows
    <3> QED
      BY <1>1, <2>1, <2>2, <2>3, <3>2, <3>3 DEF VersionRows
  <2>5. /\ DOMAIN cache' = Session /\ cache'[s] = [k \in Versions!Row \union {0} |-> NotLoaded]
        /\ \A t \in Session : t # s => cache'[t] = cache[t]
    BY <1>1, <1>3, <2>1 DEF VersionCopies
  <2>6. \A t \in Session : t # s => Versions!Sees(t)' = Versions!Sees(t)
    BY <2>1, <2>2, SessionAssumption DEF Versions!Sees
  <2>7. VersionCopies'
    BY <1>1, <2>5, <2>6 DEF VersionCopies
  <2>8. VersionChanges'
    <3>1. Whole(db', history') /\ Whole(work', history')
      BY <1>1, <2>1, <2>2 DEF VersionChanges
    <3>2. Whole(db, history)' /\ Whole(work, history)'
      BY <3>1
    <3> QED
      BY <2>3, <3>2 DEF VersionChanges
  <2> QED
    BY <2>4, <2>7, <2>8 DEF VersionInv
<1> QED
  BY <1>2, <1>4, <1>5, <1>6, <1>7

\* Every step of a lineage keeps its invariant.
LEMMA VersionNext == VersionInv /\ Versions!Next => VersionInv'
BY VersionSession, VersionInsert, VersionPoint, VersionResolve DEF Versions!Next

\* Whole rows say what the properties say of them.
LEMMA VersionHistory == VersionInv => Versions!OneChain /\ Versions!EveryChangeHasItsEvent
<1> SUFFICES ASSUME VersionInv PROVE Versions!OneChain /\ Versions!EveryChangeHasItsEvent
  OBVIOUS
<1>1. Whole(db, history)
  BY DEF VersionInv, VersionChanges
<1> QED
  BY <1>1 DEF Whole, Chain, Events, Explained, Versions!OneChain, Versions!EveryChangeHasItsEvent,
              Versions!NoRow, Versions!Events

-----------------------------------------------------------------------------
(* The regulation watch *)

SuggestionRow == [status : {"new", "reviewed", "dismissed"}, rows : {1}]
Place == Watch!Places(DOMAIN Target)
Scan == [op : {"scan", "poisoned", "over"}, known : SUBSET Suggestion, todo : SUBSET Place,
         page : SUBSET (Suggestion \ {Malformed}), lost : SUBSET Suggestion]

\* A suggestion the transaction has in work is not less than what is committed:
\* it is there, once, and its verdict has not been taken back.
WatchRows ==
    /\ DOMAIN db = Suggestion /\ DOMAIN work = Suggestion
    /\ \A k \in Suggestion : /\ db[k] = Absent \/ db[k] \in SuggestionRow
                             /\ work[k] = Absent \/ work[k] \in SuggestionRow
    /\ writer \in Session \union {NoSession}
    /\ writer = NoSession => work = db
    /\ DOMAIN cache = Session
    /\ \A s \in Session : /\ DOMAIN cache[s] = Suggestion
                          /\ \A k \in Suggestion : cache[s][k] # NotLoaded => cache[s][k] \in SuggestionRow
    /\ \A k \in Suggestion : db[k] # Absent =>
          work[k] # Absent /\ (db[k].status # "new" => work[k].status # "new")

\* A document a scan has found is one it still has to look at, or it is recorded.
Scanning(s) ==
    call[s].op = "scan" =>
        /\ \A k \in call[s].known : Watch!Sees(s)[k] # Absent
        /\ \A k \in call[s].page : Watch!Sees(s)[k] # Absent \/ \E p \in call[s].todo : Watch!At(p) = k

\* After a clash it may also be one that the transaction had recorded and lost.
Poisoned(s) ==
    call[s].op \in {"poisoned", "over"} =>
        /\ \A k \in call[s].known : k \in call[s].lost \/ db[k] # Absent
        /\ \A k \in call[s].page : k \in call[s].lost \/ db[k] # Absent \/ \E p \in call[s].todo : Watch!At(p) = k
        /\ call[s].op = "over" => call[s].todo = {}

ScanOK(s) == Scanning(s) /\ Poisoned(s)
WatchScans ==
    /\ DOMAIN call = Session
    /\ \A s \in Session : (call[s] = [op |-> "idle"] \/ call[s] \in Scan) /\ ScanOK(s)
    /\ \A k \in history.reported : k \in Suggestion /\ db[k] # Absent
    /\ DOMAIN history = {"reported"}

WatchInv == WatchRows /\ WatchScans

\* A session goes on seeing the suggestions it saw.
GoesOnSeeing(s) ==
    \A k \in Suggestion : Watch!Sees(s)[k] # Absent => (Watch!Sees(s)[k] # Absent)'
StaysCommitted == \A k \in Suggestion : db[k] # Absent => db'[k] # Absent
Grows == StaysCommitted /\ \A s \in Session : GoesOnSeeing(s)

\* What stands for no row is no suggestion.
LEMMA NullRows == Absent \notin SuggestionRow /\ NotLoaded \notin SuggestionRow
BY NullAssumption DEF SuggestionRow

\* At every place of a scan is a suggestion or something malformed.
LEMMA PlaceAt ==
    ASSUME NEW p \in Place PROVE Watch!At(p) \in Suggestion \union {Malformed}
BY DocumentAssumption DEF Place, Watch!Places, Watch!At

\* A watch starts without suggestions.
LEMMA WatchInit == Watch!Init => WatchInv
<1> SUFFICES ASSUME Watch!Init PROVE WatchInv
  OBVIOUS
<1>1. WatchRows
  BY DEF Watch!Init, Watch!Start, Watch!Keys, WatchRows
<1>2. WatchScans
  BY DEF Watch!Init, Watch!Start, Watch!Keys, Watch!Idle, WatchScans, ScanOK, Scanning, Poisoned
<1> QED
  BY <1>1, <1>2 DEF WatchInv

\* Writing a suggestion, whole or changed, on top of what the session sees.
LEMMA WatchWrite ==
    ASSUME WatchRows, NEW s \in Session, NEW k \in Suggestion, NEW row \in SuggestionRow,
           Watch!Sees(s)[k] # Absent /\ Watch!Sees(s)[k].status # "new" => row.status # "new",
           writer \in {NoSession, s}, writer' = s, DOMAIN work' = Suggestion,
           \A j \in Suggestion : work'[j] = IF j = k THEN row ELSE Watch!Sees(s)[j],
           db' = db, DOMAIN cache' = Session,
           \A t \in Session : /\ DOMAIN cache'[t] = Suggestion
                              /\ \A j \in Suggestion : cache'[t][j] # NotLoaded => cache'[t][j] \in SuggestionRow
    PROVE  WatchRows' /\ Grows
<1>1. \A j \in Suggestion : /\ Watch!Sees(s)[j] = work[j]
                            /\ work'[j] = IF j = k THEN row ELSE work[j]
  BY DEF WatchRows, Watch!Sees
<1>2. WatchRows'
  BY <1>1, SessionAssumption, NullRows DEF WatchRows
<1>3. Grows
  BY <1>1, NullRows DEF Grows, StaysCommitted, GoesOnSeeing, Watch!Sees, WatchRows
<1> QED
  BY <1>2, <1>3

\* Scans are not disturbed by what grows.
LEMMA ScansGrow ==
    ASSUME WatchScans, Grows, call' = call, history' = history, db' = db
    PROVE  WatchScans'
<1>1. ASSUME NEW s \in Session PROVE ScanOK(s)'
  BY <1>1 DEF WatchScans, ScanOK, Scanning, Poisoned, Grows, StaysCommitted, GoesOnSeeing, Scan
<1> QED
  BY <1>1 DEF WatchScans

\* review_suggestion keeps the invariant.
LEMMA ReviewWatch ==
    ASSUME WatchInv, NEW s \in Session, NEW k \in Suggestion, Watch!ReviewSuggestion(s, k)
    PROVE  WatchInv'
<1>1. PICK verdict \in {"reviewed", "dismissed"} :
          Watch!Flush(s, Watch!Only(k, [Watch!Copy(s, k) EXCEPT !.status = verdict]))
  BY DEF Watch!ReviewSuggestion
<1>2. PICK new : new = [Watch!Copy(s, k) EXCEPT !.status = verdict]
  OBVIOUS
<1>3. /\ WatchRows /\ WatchScans /\ Watch!Sees(s)[k] \in SuggestionRow
      /\ Watch!Copy(s, k) \in SuggestionRow
      /\ call' = call /\ history' = history
  BY NullRows DEF WatchInv, WatchRows, Watch!ReviewSuggestion, Watch!Sees, Watch!Copy
<1>4. new \in SuggestionRow /\ new.status = verdict /\ new.rows = Watch!Copy(s, k).rows
  BY <1>2, <1>3 DEF SuggestionRow
<1>5. PICK rows : rows = Watch!Only(k, new)
  OBVIOUS
<1>6. DOMAIN rows = {k} /\ rows[k] = new /\ Watch!Flush(s, rows)
  BY <1>1, <1>2, <1>5 DEF Watch!Only
<1>7. /\ cache' = [cache EXCEPT ![s] = Watch!Replaced(@, rows)]
      /\ DOMAIN cache' = Session
      /\ \A t \in Session : /\ DOMAIN cache'[t] = Suggestion
                            /\ \A j \in Suggestion : cache'[t][j] # NotLoaded => cache'[t][j] \in SuggestionRow
  BY <1>3, <1>4, <1>6 DEF Watch!Flush, Watch!Keep, Watch!Replaced, WatchRows
<1>8. CASE UNCHANGED <<db, work, writer>>
  <2>1. WatchRows' /\ Grows
    BY <1>3, <1>7, <1>8 DEF WatchRows, Grows, StaysCommitted, GoesOnSeeing, Watch!Sees
  <2> QED
    BY <2>1, <1>3, <1>8, ScansGrow DEF WatchInv
<1>9. CASE ~UNCHANGED <<db, work, writer>>
  <2>1. writer \in {NoSession, s} /\ writer' = s /\ work' = Watch!Flushed(s, rows) /\ db' = db
    BY <1>6, <1>9 DEF Watch!Flush
  <2>2. PICK row : row = Watch!Set(Watch!Sees(s)[k], Watch!Copy(s, k), new)
    OBVIOUS
  <2>3. row \in SuggestionRow /\ (Watch!Sees(s)[k].status # "new" => row.status # "new")
    BY <1>3, <1>4, <2>2, NullRows DEF Watch!Set, SuggestionRow
  <2>4. /\ DOMAIN work' = Suggestion
        /\ \A j \in Suggestion : work'[j] = IF j = k THEN row ELSE Watch!Sees(s)[j]
    BY <1>3, <1>6, <2>1, <2>2 DEF Watch!Flushed, WatchRows
  <2>5. WatchRows' /\ Grows
    BY <1>3, <1>7, <2>1, <2>3, <2>4, WatchWrite
  <2> QED
    BY <2>5, <1>3, <2>1, ScansGrow DEF WatchInv
<1> QED
  BY <1>8, <1>9

\* A suggestion that is recorded keeps the invariant.
LEMMA RecordWatch ==
    ASSUME WatchInv, NEW s \in Session, Watch!RecordDocument(s)
    PROVE  WatchInv'
<1>1. PICK p \in call[s].todo :
        /\ Watch!At(p) \notin call[s].known \union {Malformed}
        /\ ~Watch!Clashes(s, Watch!At(p))
        /\ Watch!Write(s, Watch!Only(Watch!At(p), Watch!New(Watch!Sees(s)[Watch!At(p)])))
        /\ call' = [call EXCEPT ![s].todo = @ \ {p}, ![s].known = @ \union {Watch!At(p)}]
  BY DEF Watch!RecordDocument
<1>2. PICK k : k = Watch!At(p)
  OBVIOUS
<1>3. /\ WatchRows /\ WatchScans /\ call[s] \in Scan /\ p \in Place /\ call[s].op = "scan"
      /\ history' = history
  BY <1>1 DEF WatchInv, WatchScans, Scan, Watch!RecordDocument
<1>4. k \in Suggestion /\ Watch!Sees(s)[k] = Absent
  BY <1>1, <1>2, <1>3, PlaceAt DEF Watch!Clashes
<1>5. PICK row : row = Watch!New(Watch!Sees(s)[k])
  OBVIOUS
<1>6. row \in SuggestionRow
  BY <1>4, <1>5 DEF Watch!New, SuggestionRow
<1>7. /\ writer \in {NoSession, s} /\ writer' = s /\ db' = db /\ cache' = cache
      /\ work' = Watch!Replaced(Watch!Sees(s), Watch!Only(k, row))
  BY <1>1, <1>2, <1>5 DEF Watch!Write
<1>8. /\ DOMAIN work' = Suggestion
      /\ \A j \in Suggestion : work'[j] = IF j = k THEN row ELSE Watch!Sees(s)[j]
  BY <1>3, <1>4, <1>7 DEF Watch!Replaced, Watch!Only, Watch!Sees, WatchRows
<1>9. /\ DOMAIN cache' = Session
      /\ \A t \in Session : /\ DOMAIN cache'[t] = Suggestion
                            /\ \A j \in Suggestion : cache'[t][j] # NotLoaded => cache'[t][j] \in SuggestionRow
  BY <1>3, <1>7 DEF WatchRows
<1>10. Watch!Sees(s)[k] # Absent /\ Watch!Sees(s)[k].status # "new" => row.status # "new"
  BY <1>4
<1>11. WatchRows' /\ Grows
  BY <1>3, <1>4, <1>6, <1>7, <1>8, <1>9, <1>10, WatchWrite
<1>12. /\ (Watch!Sees(s)[k] # Absent)'
       /\ DOMAIN call' = Session
       /\ \A t \in Session : t # s => call'[t] = call[t]
  BY <1>1, <1>3, <1>4, <1>6, <1>7, <1>8, NullRows DEF Watch!Sees, WatchScans
<1>13. call'[s] = [op |-> "scan", known |-> call[s].known \union {k}, todo |-> call[s].todo \ {p},
                   page |-> call[s].page, lost |-> call[s].lost]
  BY <1>1, <1>2, <1>3 DEF Scan, WatchScans
<1>14. call'[s] \in Scan /\ ScanOK(s)'
  <2>1. \A j \in call[s].page : j \in Suggestion
    BY <1>3 DEF Scan
  <2>2. \A j \in call[s].known : (Watch!Sees(s)[j] # Absent)'
    BY <1>3, <1>11 DEF ScanOK, Scanning, Poisoned, WatchScans, Grows, StaysCommitted, GoesOnSeeing, Scan
  <2>3. \A j \in call[s].page : (Watch!Sees(s)[j] # Absent)' \/ \E q \in call[s].todo \ {p} : Watch!At(q) = j
    BY <1>2, <1>3, <1>11, <1>12, <2>1 DEF ScanOK, Scanning, Poisoned, WatchScans, Grows, StaysCommitted, GoesOnSeeing
  <2>4. call'[s] \in Scan
    BY <1>3, <1>4, <1>13 DEF Scan
  <2> QED
    BY <1>12, <1>13, <2>2, <2>3, <2>4 DEF ScanOK, Scanning, Poisoned, Watch!At
<1>15. ASSUME NEW t \in Session, t # s PROVE ScanOK(t)'
  BY <1>3, <1>11, <1>12, <1>15 DEF WatchScans, ScanOK, Scanning, Poisoned, Grows, StaysCommitted, GoesOnSeeing, Scan, Watch!At
<1> QED
  BY <1>3, <1>7, <1>11, <1>12, <1>14, <1>15 DEF WatchInv, WatchScans

\* Steps of a scan that write nothing.
LEMMA ReadWatch ==
    ASSUME WatchInv, NEW s \in Session,
           Watch!StartScan(s) \/ Watch!SkipDocument(s) \/ Watch!FinishScan(s)
    PROVE  WatchInv'
<1>1. /\ WatchRows /\ WatchScans /\ UNCHANGED <<db, work, writer, cache>>
      /\ DOMAIN call' = Session /\ \A t \in Session : t # s => call'[t] = call[t]
  BY DEF WatchInv, WatchScans, Watch!StartScan, Watch!SkipDocument, Watch!FinishScan,
         Watch!ReturnScan, Watch!ReturnPoisoned
<1>2. WatchRows' /\ \A t \in Session : Watch!Sees(t)' = Watch!Sees(t)
  BY <1>1 DEF WatchRows, Watch!Sees
<1>3. ASSUME NEW t \in Session, t # s PROVE (call[t] = [op |-> "idle"] \/ call[t] \in Scan)' /\ ScanOK(t)'
  BY <1>1, <1>2, <1>3 DEF WatchScans, ScanOK, Scanning, Poisoned, Watch!At
<1>4. CASE Watch!StartScan(s)
  <2>1. PICK up \in SUBSET (DOMAIN Target) :
          call'[s] = [op |-> "scan", known |-> Watch!Known(s), todo |-> Watch!Places(up),
                      page |-> {Watch!At(p) : p \in Watch!Places(up)} \ {Malformed},
                      lost |-> {}]
    BY <1>1, <1>4 DEF Watch!StartScan, WatchScans
  <2>2. Watch!Places(up) \subseteq Place
    BY DEF Watch!Places, Place
  <2>3. call'[s] \in Scan /\ ScanOK(s)' /\ history' = history
    <3> DEFINE known == Watch!Known(s)
               todo == Watch!Places(up)
               page == {Watch!At(p) : p \in todo} \ {Malformed}
    <3>1. known \subseteq Suggestion /\ \A k \in known : Watch!Sees(s)[k] # Absent
      BY DEF Watch!Known
    <3>2. page \subseteq Suggestion \ {Malformed} /\ \A k \in page : \E p \in todo : Watch!At(p) = k
      BY <2>2, PlaceAt
    <3>3. history' = history
      BY <1>4 DEF Watch!StartScan
    <3> HIDE DEF known, todo, page
    <3>4. call'[s] = [op |-> "scan", known |-> known, todo |-> todo, page |-> page, lost |-> {}]
      BY <2>1 DEF known, todo, page
    <3>5. call'[s] \in Scan
      BY <2>2, <3>1, <3>2, <3>4 DEF Scan, todo
    <3> QED
      BY <1>2, <3>1, <3>2, <3>3, <3>4, <3>5 DEF ScanOK, Scanning, Poisoned, Watch!At
  <2> QED
    BY <1>1, <1>2, <1>3, <2>3 DEF WatchInv, WatchScans
<1>5. CASE Watch!SkipDocument(s)
  <2>1. PICK p \in call[s].todo : /\ Watch!At(p) \in call[s].known \union {Malformed}
                                  /\ call' = [call EXCEPT ![s].todo = @ \ {p}]
    BY <1>5 DEF Watch!SkipDocument, Watch!Rest
  <2>2. call[s] \in Scan /\ history' = history /\ ScanOK(s)
    BY <1>1, <1>5 DEF WatchScans, Watch!SkipDocument
  <2>3. call'[s] = [op |-> call[s].op, known |-> call[s].known, todo |-> call[s].todo \ {p},
                    page |-> call[s].page, lost |-> call[s].lost]
    BY <1>1, <2>1, <2>2 DEF Scan, WatchScans
  <2>4. ASSUME NEW j \in call[s].page PROVE j \in call[s].known \/ Watch!At(p) # j
    BY <2>1, <2>2 DEF Scan
  <2>5. call[s].op = "scan" => Scanning(s)'
    BY <1>2, <2>2, <2>3, <2>4 DEF ScanOK, Scanning, Watch!At
  <2>6. call[s].op = "poisoned" => Poisoned(s)'
    BY <1>1, <2>2, <2>3, <2>4 DEF ScanOK, Poisoned, Watch!At
  <2>7. call[s].op \in {"scan", "poisoned"}
    BY <1>5 DEF Watch!SkipDocument
  <2>8. call'[s] \in Scan /\ ScanOK(s)'
    BY <2>2, <2>3, <2>5, <2>6, <2>7 DEF Scan, ScanOK, Scanning, Poisoned
  <2> QED
    BY <1>1, <1>2, <1>3, <2>2, <2>8 DEF WatchInv, WatchScans
<1>6. CASE Watch!ReturnScan(s)
  <2>1. call'[s] = [op |-> "idle"]
    BY <1>1, <1>6 DEF Watch!ReturnScan, Watch!Idle, WatchScans
  <2>2. ScanOK(s)'
    BY <2>1 DEF ScanOK, Scanning, Poisoned
  <2>3. (\A k \in history.reported : k \in Suggestion /\ db[k] # Absent)' /\ DOMAIN history' = {"reported"}
    <3>1. CASE writer = s
      BY <1>1, <1>6, <3>1 DEF Watch!ReturnScan, WatchScans
    <3>2. CASE writer # s
      <4>1. history'.reported = history.reported \union call[s].page /\ DOMAIN history' = {"reported"}
        BY <1>1, <1>6, <3>2 DEF Watch!ReturnScan, WatchScans
      <4>2. \A k \in call[s].page : k \in Suggestion /\ db[k] # Absent
        BY <1>1, <1>6, <3>2 DEF Watch!ReturnScan, WatchScans, ScanOK, Scanning, Poisoned, Watch!Sees, Scan
      <4> QED
        BY <1>1, <4>1, <4>2 DEF WatchScans
    <3> QED
      BY <3>1, <3>2
  <2> QED
    BY <1>1, <1>2, <1>3, <2>1, <2>2, <2>3 DEF WatchInv, WatchScans
<1>7. CASE Watch!ReturnPoisoned(s)
  <2>1. call[s] \in Scan /\ ScanOK(s) /\ call[s].op = "poisoned" /\ call[s].todo = {} /\ history' = history
    BY <1>1, <1>7 DEF WatchScans, Watch!ReturnPoisoned
  <2>2. call'[s] = [op |-> "over", known |-> call[s].known, todo |-> call[s].todo,
                    page |-> call[s].page, lost |-> call[s].lost]
    BY <1>1, <1>7, <2>1 DEF Watch!ReturnPoisoned, WatchScans, Scan
  <2>3. call'[s] \in Scan /\ ScanOK(s)'
    BY <1>1, <2>1, <2>2 DEF Scan, ScanOK, Scanning, Poisoned, Watch!At
  <2> QED
    BY <1>1, <1>2, <1>3, <2>1, <2>3 DEF WatchInv, WatchScans
<1> QED
  BY <1>4, <1>5, <1>6, <1>7 DEF Watch!FinishScan

\* The transaction is undone, with the session's identity map or without.
LEMMA UndoWatch ==
    ASSUME WatchInv, NEW s \in Session, db' = db, history' = history,
           work' = IF writer = s THEN db ELSE work,
           writer' = IF writer = s THEN NoSession ELSE writer,
           cache' = cache \/ cache' = [cache EXCEPT ![s] = [k \in DOMAIN db |-> NotLoaded]],
           DOMAIN call' = Session, \A t \in Session : t # s => call'[t] = call[t],
           call'[s] = [op |-> "idle"] \/ call'[s] \in Scan, ScanOK(s)'
    PROVE  WatchInv'
<1>1. WatchRows /\ WatchScans
  BY DEF WatchInv
<1>2. WatchRows'
  BY <1>1, SessionAssumption DEF WatchRows
<1>4. ASSUME NEW t \in Session, t # s PROVE Watch!Sees(t)' = Watch!Sees(t)
  BY <1>1, <1>4, SessionAssumption DEF Watch!Sees, WatchRows
<1>5. ASSUME NEW t \in Session, t # s PROVE ScanOK(t)'
  BY <1>1, <1>4, <1>5 DEF ScanOK, Scanning, Poisoned, WatchScans, Watch!At
<1> QED
  BY <1>1, <1>2, <1>5 DEF WatchInv, WatchScans

\* A suggestion that somebody else recorded keeps the invariant.
LEMMA DuplicateWatch ==
    ASSUME WatchInv, NEW s \in Session, Watch!DuplicateDocument(s)
    PROVE  WatchInv'
<1>1. PICK p \in call[s].todo :
        /\ Watch!At(p) \notin call[s].known \union {Malformed}
        /\ Watch!Clashes(s, Watch!At(p))
        /\ call' = [call EXCEPT ![s].op = "poisoned", ![s].todo = @ \ {p},
                                ![s].known = @ \union {Watch!At(p)}, ![s].lost = Watch!Unsaved(s)]
  BY DEF Watch!DuplicateDocument
<1>2. WatchScans /\ call[s] \in Scan /\ p \in Place /\ history' = history /\ db' = db /\ cache' = cache
  BY <1>1 DEF WatchInv, WatchScans, Scan, Watch!DuplicateDocument
<1>3. call'[s] = [op |-> "poisoned", known |-> call[s].known \union {Watch!At(p)},
                  todo |-> call[s].todo \ {p}, page |-> call[s].page, lost |-> Watch!Unsaved(s)]
  BY <1>1, <1>2 DEF Scan, WatchScans
<1>4. call'[s] \in Scan /\ ScanOK(s)'
  <2>1. Watch!At(p) \in Suggestion
    BY <1>1, <1>2, PlaceAt
  <2>2. \A k \in Suggestion : Watch!Sees(s)[k] # Absent => k \in Watch!Unsaved(s) \/ db[k] # Absent
    BY DEF Watch!Unsaved
  <2>3. Watch!Sees(s)[Watch!At(p)] # Absent
    BY <1>1 DEF Watch!Clashes
  <2>4. Watch!Unsaved(s) \subseteq Suggestion
    BY DEF Watch!Unsaved
  <2>5. Scanning(s) /\ call[s].op = "scan"
    BY <1>2 DEF ScanOK, WatchScans, Watch!DuplicateDocument
  <2>6. Poisoned(s)'
    BY <1>2, <1>3, <2>1, <2>2, <2>3, <2>5 DEF Scanning, Poisoned, Scan, Watch!At
  <2> QED
    BY <1>2, <1>3, <2>1, <2>4, <2>6 DEF Scan, ScanOK, Scanning
<1>5. /\ writer' = IF writer = s THEN NoSession ELSE writer
      /\ work' = IF writer = s THEN db ELSE work
      /\ DOMAIN call' = Session /\ \A t \in Session : t # s => call'[t] = call[t]
  BY <1>1, <1>2 DEF Watch!DuplicateDocument, WatchScans
<1> QED
  BY <1>2, <1>4, <1>5, UndoWatch

\* A rollback keeps the invariant.
LEMMA RollbackWatch ==
    ASSUME WatchInv, NEW s \in Session, Watch!Rollback(s)
    PROVE  WatchInv'
<1>1. DOMAIN call = Session
  BY DEF WatchInv, WatchScans
<1>2. /\ db' = db /\ history' = history
      /\ work' = IF writer = s THEN db ELSE work
      /\ writer' = IF writer = s THEN NoSession ELSE writer
      /\ cache' = [cache EXCEPT ![s] = [k \in DOMAIN db |-> NotLoaded]]
      /\ DOMAIN call' = Session /\ \A t \in Session : t # s => call'[t] = call[t]
      /\ call'[s] = [op |-> "idle"]
  BY <1>1 DEF Watch!Rollback, Watch!Idle
<1>3. ScanOK(s)'
  BY <1>2 DEF ScanOK, Scanning, Poisoned
<1> QED
  BY <1>2, <1>3, UndoWatch

\* A commit keeps the invariant.
LEMMA CommitWatch ==
    ASSUME WatchInv, NEW s \in Session, Watch!Commit(s)
    PROVE  WatchInv'
<1>1. /\ WatchRows /\ WatchScans /\ writer = s /\ db' = work /\ work' = work /\ writer' = NoSession
      /\ UNCHANGED <<cache, call, history>>
  BY DEF WatchInv, Watch!Commit
<1>2. WatchRows' /\ Grows
  BY <1>1, SessionAssumption DEF WatchRows, Grows, StaysCommitted, GoesOnSeeing, Watch!Sees
<1>3. ASSUME NEW t \in Session PROVE ScanOK(t)'
  BY <1>1, <1>2, <1>3 DEF WatchScans, ScanOK, Scanning, Poisoned, Grows, StaysCommitted, GoesOnSeeing, Scan, Watch!At
<1> QED
  BY <1>1, <1>2, <1>3 DEF WatchInv, WatchScans, WatchRows

\* The end of a session keeps the invariant.
LEMMA EndWatch ==
    ASSUME WatchInv, NEW s \in Session, Watch!EndSession(s)
    PROVE  WatchInv'
<1>1. /\ WatchRows /\ WatchScans /\ UNCHANGED <<db, work, writer, call, history>>
      /\ cache' = [cache EXCEPT ![s] = [k \in DOMAIN db |-> NotLoaded]]
  BY DEF WatchInv, Watch!EndSession
<1>2. WatchRows'
  BY <1>1 DEF WatchRows
<1>3. WatchScans'
  BY <1>1 DEF WatchScans, ScanOK, Scanning, Poisoned, Watch!Sees, Watch!At
<1> QED
  BY <1>2, <1>3 DEF WatchInv

\* Every step of the regulation watch keeps its invariant.
LEMMA WatchNext == ASSUME WatchInv, Watch!Next PROVE WatchInv'
BY ReviewWatch, RecordWatch, ReadWatch, DuplicateWatch, RollbackWatch, CommitWatch, EndWatch
   DEF Watch!Next, Watch!SessionStep

\* regulation_watch: a suggestion is recorded once, never lost, and its verdict
\* outlives every scan, in any step a session makes.
LEMMA WatchKeeps == ASSUME WatchInv, Watch!Next PROVE Watch!VerdictsStay
<1>1. WatchRows
  BY DEF WatchInv
<1>2. db' = db \/ db' = work
  BY ZenonT(60) DEF Watch!Next, Watch!SessionStep, Watch!EndSession, Watch!Commit, Watch!Rollback,
         Watch!StartScan, Watch!SkipDocument, Watch!RecordDocument, Watch!DuplicateDocument,
         Watch!FinishScan, Watch!ReturnScan, Watch!ReturnPoisoned, Watch!ReviewSuggestion, Watch!Flush, Watch!Write
<1> QED
  BY <1>1, <1>2 DEF Watch!VerdictsStay, WatchRows, SuggestionRow

-----------------------------------------------------------------------------
(* The services *)

\* What is known of the service a behaviour is about.
ServicesInv ==
    /\ focus = "response" => ResponseInv
    /\ focus = "tina" => TinaInv
    /\ focus = "versions" => VersionInv
    /\ focus = "watch" => WatchInv

\* The invariant of the service a behaviour is about holds throughout.
THEOREM ServicesInductive == Spec => []ServicesInv
<1>1. Init => ServicesInv
  BY ResponseInit, TinaInit, VersionInit, WatchInit DEF Init, ServicesInv
<1>2. ServicesInv /\ [Next]_vars => ServicesInv'
  <2> SUFFICES ASSUME ServicesInv, [Next]_vars PROVE ServicesInv'
    OBVIOUS
  <2>1. CASE ResponseStep
    BY <2>1, ResponseNext DEF ServicesInv, ResponseStep
  <2>2. CASE WatchStep
    BY <2>2, WatchNext DEF ServicesInv, WatchStep
  <2>3. CASE TinaStep
    BY <2>3, TinaNext DEF ServicesInv, TinaStep
  <2>4. CASE VersionsStep
    BY <2>4, VersionNext DEF ServicesInv, VersionsStep
  <2>5. CASE ClaimStep \/ LedgerStep
    BY <2>5 DEF ServicesInv, ClaimStep, LedgerStep
  <2>6. CASE UNCHANGED vars
    <3>1. ResponseInv => ResponseInv'
      BY <2>6 DEF vars, ResponseInv, ResponseRows, ResponseCalls, AlertInv, TaskInv, NoteInv,
                  Complete, Signed, Forward, Response!Position, Response!Keys
    <3>2. WatchInv => WatchInv'
      BY <2>6 DEF vars, WatchInv, WatchRows, WatchScans, ScanOK, Scanning, Poisoned, Watch!Sees, Watch!At
    <3>3. TinaInv => TinaInv'
      <4>1. \A n \in Tina!Sweeps(work) \ Tina!Sweeps(db) : Logged(db, work, n) <=> Logged(db', work', n)
        BY <2>6 DEF vars
      <4>2. /\ Tina!Sweeps(db') = Tina!Sweeps(db) /\ Tina!Sweeps(work') = Tina!Sweeps(work)
            /\ Once(db') <=> Once(db)
            /\ Once(work') <=> Once(work)
        BY <2>6 DEF vars
      <4>3. TinaInv => SweepTrue' /\ CertifiesSwept' /\ SweepReports'
        BY <2>6 DEF vars, TinaInv, SweepTrue, CertifiesSwept, SweepReports, Tina!Sees
      <4> QED
        BY <2>6, <4>1, <4>2, <4>3 DEF vars, TinaInv, BaselineRows, SweepHolds, SweepFinds, SweepLogged, SweptOnce
    <3>4. VersionInv => VersionInv'
      <4>1. /\ TableOK(db') <=> TableOK(db)
            /\ TableOK(work') <=> TableOK(work)
            /\ Whole(db', history') <=> Whole(db, history)
            /\ Whole(work', history') <=> Whole(work, history)
            /\ \A s \in Session : Half(work', history', call'[s].old, call'[s].new)
                                <=> Half(work, history, call[s].old, call[s].new)
        BY <2>6 DEF vars
      <4>2. \A s \in Session : \A r : Versions!Sees(s)'[r] = Versions!Sees(s)[r] /\ Versions!Copy(s, r)' = Versions!Copy(s, r)
        BY <2>6 DEF vars, Versions!Sees, Versions!Copy
      <4> QED
        BY <2>6, <4>1, <4>2 DEF vars, VersionInv, VersionRows, VersionCopies, VersionChanges
    <3> QED
      BY <2>6, <3>1, <3>2, <3>3, <3>4 DEF ServicesInv, vars
  <2> QED
    BY <2>1, <2>2, <2>3, <2>4, <2>5, <2>6 DEF Next
<1> QED
  BY <1>1, <1>2, PTL DEF Spec

\* fire_due_alerts: a point fires at most once for a notification, unless two
\* sessions fired at the same time (AlertsFireOnce).
THEOREM AlertsOnlyFireOnce == Spec => []AlertsFireOnce
<1>1. ServicesInv => AlertsFireOnce
  BY DEF ServicesInv, AlertsFireOnce, Response!AlertsFireOnce, ResponseInv, ResponseRows, AlertInv, PointRow
<1> QED
  BY <1>1, ServicesInductive, PTL

\* advance_status, record_management_review and sweep_overdue_tasks: what is
\* committed only moves forward (WorkflowOnlyAdvances).
THEOREM WorkflowAdvances == Spec => WorkflowOnlyAdvances
<1>1. ServicesInv /\ ServicesInv' /\ [Next]_vars =>
        [focus = "response" => Response!OnlyForward /\ Response!CompletedStays]_vars
  <2> SUFFICES ASSUME ServicesInv, ServicesInv', [Next]_vars, focus = "response"
               PROVE  Response!OnlyForward /\ Response!CompletedStays
    OBVIOUS
  <2>1. focus' = "response" /\ (UNCHANGED db \/ (db' = work /\ UNCHANGED history))
    BY ResponseCommits DEF Next, ResponseStep, WatchStep, TinaStep, VersionsStep, ClaimStep, LedgerStep, vars
  <2> QED
    BY <2>1, ResponseAdvances DEF ServicesInv
<1> QED
  BY <1>1, ServicesInductive, PTL DEF Spec, WorkflowOnlyAdvances

\* scan and review_suggestion: a suggestion is recorded once, never lost, and a
\* verdict on it outlives every scan (VerdictsStay).
THEOREM VerdictsAlwaysStay == Spec => VerdictsStay
<1>1. ServicesInv /\ [Next]_vars => [focus = "watch" => Watch!VerdictsStay]_vars
  <2> SUFFICES ASSUME ServicesInv, Next, focus = "watch" PROVE Watch!VerdictsStay
    BY DEF vars
  <2> QED
    BY WatchKeeps DEF ServicesInv, Next, ResponseStep, WatchStep, TinaStep, VersionsStep, ClaimStep, LedgerStep
<1> QED
  BY <1>1, ServicesInductive, PTL DEF Spec, VerdictsStay

\* scan: what a scan that returned found is recorded, whichever searches failed
\* and whoever scanned at the same time (ScanIsComplete).
THEOREM ScansAreComplete == Spec => []ScanIsComplete
<1>1. ServicesInv => ScanIsComplete
  BY DEF ServicesInv, ScanIsComplete, Watch!ScanIsComplete, WatchInv, WatchScans, ScanOK, Scanning, Poisoned, Scan
<1> QED
  BY <1>1, ServicesInductive, PTL


\* run_sweep: the findings a transaction commits cover what is committed, though
\* they were read one by one, and a baseline is swept once (SweepsAreWhole).
THEOREM SweepsAreAlwaysWhole == Spec => SweepsAreWhole
<1>1. ServicesInv /\ ServicesInv' /\ [Next]_vars =>
        [focus = "tina" => Tina!SweepLogComplete /\ Tina!SweptOnce]_vars
  <2> SUFFICES ASSUME ServicesInv, ServicesInv', Next, focus = "tina"
               PROVE  Tina!SweepLogComplete /\ Tina!SweptOnce
    BY DEF vars
  <2>1. focus' = "tina" /\ (UNCHANGED db \/ db' = work)
    BY TinaCommits DEF Next, ResponseStep, WatchStep, TinaStep, VersionsStep, ClaimStep, LedgerStep
  <2> QED
    BY <2>1, TinaSweeps DEF ServicesInv
<1> QED
  BY <1>1, ServicesInductive, PTL DEF Spec, SweepsAreWhole

\* supersede_contract and record_practice_change: the versions are one chain, and every
\* change of a practice has its event, though each change takes two flushes
\* (OneHistory).
THEOREM HistoryIsOne == Spec => []OneHistory
<1>1. ServicesInv => OneHistory
  BY VersionHistory DEF ServicesInv, OneHistory
<1> QED
  BY <1>1, ServicesInductive, PTL
=============================================================================
