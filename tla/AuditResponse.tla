---------------------------- MODULE AuditResponse ---------------------------
(***************************************************************************)
(* The audit response workflow (govcon/services/audit_response.py): one    *)
(* notification, its alerts and its tasks, worked on by several sessions.  *)
(***************************************************************************)
EXTENDS UnitOfWork, FiniteSets

CONSTANTS
    Point,        \* alert points
    Task,         \* tasks that may be added
    DaysBefore,   \* ALERT_SCHEDULE: days before the deadline of each point
    Window,       \* response_deadline_days a notification may come with
    Day           \* dates, in days since the notification was received

Keys == {"notification"} \union Point \union Task

STATUS_ORDER == <<"notification_received", "document_collection", "management_review",
                  "submitted", "follow_up", "closed">>
Position(status) == CHOOSE i \in DOMAIN STATUS_ORDER : STATUS_ORDER[i] = status
ALERTS_STOP_AT == {"submitted", "follow_up", "closed"}

\* history is the set of things in which sessions got in each other's way.
Init ==
    /\ Start([k \in Keys |-> IF k \in Point THEN [fired |-> 0, acknowledged |-> 0]
                                            ELSE Absent])
    /\ history = {}

Exists(s) == Sees(s)["notification"] # Absent
Others(s) == Session \ {s}

\* create_notification: the deadline is the day count itself, since dates
\* are counted from the receipt.
CreateNotification(s) ==
    /\ call[s] = Idle
    /\ db["notification"] = Absent /\ work["notification"] = Absent
    /\ \E days \in Window :
          Flush(s, Only("notification", [status |-> STATUS_ORDER[1], days |-> days,
                                         reviewed |-> FALSE]))
    /\ UNCHANGED <<call, calls, history>>

\* Mutant: a point that has fired is not left out.
DueAgain(s, as_of) ==
    {p \in Point : /\ DaysBefore[p] <= Copy(s, "notification").days
                   /\ as_of >= Copy(s, "notification").days - DaysBefore[p]}

\* Points that fit the window, have not fired and whose day has come.
Due(s, as_of) ==
    {p \in Point : /\ DaysBefore[p] <= Copy(s, "notification").days
                   /\ Sees(s)[p].fired = 0
                   /\ as_of >= Copy(s, "notification").days - DaysBefore[p]}

\* fire_due_alerts up to its SELECT of the points already fired.
ReadAlerts(s) ==
    /\ Exists(s) /\ Begin(s)
    /\ Copy(s, "notification").status \notin ALERTS_STOP_AT
    /\ \E as_of \in Day : call' = [call EXCEPT ![s] = [op |-> "fire", due |-> Due(s, as_of)]]
    /\ history' = history \union
          IF \E t \in Others(s) : call[t].op = "fire" \/ \E p \in Point : Pending(s, p)
          THEN {"alerts"} ELSE {}
    /\ UNCHANGED <<db, work, writer, cache>>

\* Its flush: one audit_alert_log row per point.
InsertAlerts(s) ==
    /\ call[s].op = "fire"
    /\ \/ call[s].due = {} /\ UNCHANGED <<db, work, writer, cache>>
       \/ call[s].due # {}
          /\ Write(s, [p \in call[s].due |-> [Sees(s)[p] EXCEPT !.fired = @ + 1]])
    /\ call' = [call EXCEPT ![s] = Idle]
    /\ UNCHANGED <<calls, history>>

AcknowledgeAlert(s, p) ==
    /\ Begin(s)
    /\ Sees(s)[p].acknowledged < Sees(s)[p].fired
    /\ Write(s, Only(p, [Sees(s)[p] EXCEPT !.acknowledged = @ + 1]))
    /\ UNCHANGED <<call, history>>

AddTask(s, k) ==
    /\ Exists(s) /\ Begin(s)
    /\ db[k] = Absent /\ work[k] = Absent
    /\ \E due \in Day : Flush(s, Only(k, [status |-> "open", due |-> due]))
    /\ UNCHANGED <<call, history>>

CompleteTask(s, k) ==
    /\ Sees(s)[k] # Absent /\ Begin(s)
    /\ Flush(s, Only(k, [Copy(s, k) EXCEPT !.status = "complete"]))
    /\ history' = history \union
          IF \E t \in Others(s) : call[t].op = "sweep" /\ k \in call[t].tasks
          THEN {"tasks"} ELSE {}
    /\ UNCHANGED call

Overdue(s, as_of) ==
    {k \in Task : /\ Sees(s)[k] # Absent
                  /\ Sees(s)[k].status = "open"
                  /\ Sees(s)[k].due < as_of}

\* sweep_overdue_tasks: the SELECT of open tasks past their date, which adds
\* them to the identity map, ...
ReadOverdue(s) ==
    /\ Exists(s) /\ Begin(s)
    /\ \E as_of \in Day :
          /\ call' = [call EXCEPT ![s] = [op |-> "sweep", tasks |-> Overdue(s, as_of)]]
          /\ cache' = Keep(s, [k \in Overdue(s, as_of) |-> Copy(s, k)])
    /\ history' = history \union IF \E k \in Task : Pending(s, k) THEN {"tasks"} ELSE {}
    /\ UNCHANGED <<db, work, writer>>

\* ... and the flush of their new status.
MarkOverdue(s) ==
    /\ call[s].op = "sweep"
    /\ Flush(s, [k \in call[s].tasks |-> [Copy(s, k) EXCEPT !.status = "overdue"]])
    /\ call' = [call EXCEPT ![s] = Idle]
    /\ UNCHANGED <<calls, history>>

StatusRaced(s) == IF Stale(s, "notification") THEN {"status"} ELSE {}

\* record_management_review
RecordReview(s) ==
    /\ Exists(s) /\ Begin(s)
    /\ Copy(s, "notification").status = "management_review"
    /\ Flush(s, Only("notification", [Copy(s, "notification") EXCEPT !.reviewed = TRUE]))
    /\ history' = history \union StatusRaced(s)
    /\ UNCHANGED call

\* Mutant: any later stage is accepted.
FollowsAny(new, status) == Position(new) > Position(status)
Follows(new, status) == Position(new) = Position(status) + 1

\* trg_audit_notifications_review_gate
ReviewGate(row) == row.status = "submitted" => row.reviewed

AdvanceStatus(s) ==
    LET copy == Copy(s, "notification")
    IN  /\ Exists(s) /\ Begin(s)
        /\ \E new \in {STATUS_ORDER[i] : i \in DOMAIN STATUS_ORDER} :
              /\ Follows(new, copy.status)
              /\ new = "submitted" => copy.reviewed
              /\ Flush(s, Only("notification", [copy EXCEPT !.status = new]))
        /\ ReviewGate(work'["notification"])
        /\ history' = history \union StatusRaced(s)
        /\ UNCHANGED call

Next ==
    \/ SessionStep({"notification"} \union Task)
    \/ \E s \in Session :
        \/ CreateNotification(s)
        \/ ReadAlerts(s)
        \/ InsertAlerts(s)
        \/ \E p \in Point : AcknowledgeAlert(s, p)
        \/ \E k \in Task : AddTask(s, k) \/ CompleteTask(s, k)
        \/ ReadOverdue(s)
        \/ MarkOverdue(s)
        \/ RecordReview(s)
        \/ AdvanceStatus(s)

Spec == Init /\ [][Next]_vars

-----------------------------------------------------------------------------
(* Properties *)

\* "each point fires at most once per notification", unless two sessions were
\* firing at the same time.
AlertsFireOnce ==
    "alerts" \notin history => \A p \in Point : db[p].fired <= 1

\* A task reported complete is never shown as overdue again, unless the sweep
\* selected it before it was completed.
CompletedStays ==
    \A k \in Task : db[k] # Absent /\ db[k].status = "complete" /\ "tasks" \notin history'
        => db'[k].status = "complete"

\* "Forward-only": what is committed only moves on, and reaches the stages
\* from "submitted" on only with the sign-off of the review it passed through,
\* unless a session advanced or reviewed from a copy the row had left behind.
OnlyForward ==
    LET old == db["notification"]
        new == db'["notification"]
    IN  old # Absent /\ "status" \notin history' =>
          /\ Position(new.status) >= Position(old.status)
          /\ Position(new.status) > 3 => new.reviewed
          /\ new.reviewed # old.reviewed =>
                Position(old.status) <= 3 /\ Position(new.status) >= 3
=============================================================================
