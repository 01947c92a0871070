----------------------------- MODULE Jobs_proofs -----------------------------
(***************************************************************************)
(* Proofs about Jobs, for any set of jobs and any bounds, and about Zones, *)
(* what the jobs of zones and VMs do, for any number of requests and       *)
(* faults.                                                                 *)
(*                                                                         *)
(* TypeCorrect     Spec => []TypeOK                                        *)
(* OutcomeIsFinal  Spec => FinalOutcome, whatever mishaps strike           *)
(* LogIsOrdered    Spec => []LogInOrder, whatever mishaps strike           *)
(* AnnouncementsAreTrue, ReturnedIsTold, NothingLeftOver                   *)
(*                 the three properties of a daemon whose database answers *)
(* TellsOutcomes   Spec => []OutcomesAreTold, the four together            *)
(* Implements      Spec => ImplementsLifecycle                             *)
(*                                                                         *)
(* ZonesTyped         ZoneSpec => []ZoneTypeOK                             *)
(* InstalledIsBacked  ZoneSpec => []InstalledHasData                       *)
(* DataHasOwners      ZoneSpec => []DataIsOwned, the two together          *)
(* KeptDataOfZones    ZoneSpec => ZoneDataStays                            *)
(* PurgedStaysGone    ZoneSpec => []PurgedIsGone                           *)
(*                                                                         *)
(* None of those of Jobs is inductive: they speak of rows and logs, and    *)
(* what keeps a task from rewriting a finished row is where the task is.   *)
(* Place, Order and Course say that, for one job.                          *)
(*                                                                         *)
(* What those of Zones rest on is which job may be making a zone while     *)
(* which zone is there, Alone; and the last, that a zone that was deleted  *)
(* never returns under its id, Known and Gone.                             *)
(***************************************************************************)
EXTENDS Jobs, Zones, TLAPS

USE DEF trouble

\* A finished row belongs to a task that only has its last event to publish,
\* or to none: no UPDATE of that job is left.
Place(j) ==
    /\ pc[j] = "unborn" <=> row[j].state = "none"
    /\ row[j].state \in Outcomes =>
          \/ pc[j] \in {"find", "insert"} /\ doing[j] \in Outcomes
          \/ pc[j] \in {"done", "lost"}
    /\ ~up => pc[j] \in {"unborn", "done", "lost"}

PlaceInv == TypeOK /\ \A j \in Jobs : Place(j)

\* Nothing is told before the report of the start has been, and nothing after an
\* outcome, since only a task that has returned has told one.
Order(j) ==
    /\ pc[j] \in {"unborn", "handler"} => log[j] = <<>>
    /\ pc[j] \in {"update", "find", "insert"} /\ doing[j] = "running" => log[j] = <<>>
    /\ \A n \in 1 .. Len(log[j]) :
          /\ log[j][n].kind = "running" => n = 1
          /\ log[j][n].kind \in Outcomes => n = Len(log[j]) /\ pc[j] \in {"done", "lost"}

OrderInv == TypeOK /\ \A j \in Jobs : Order(j)

\* While the database answers, the row keeps up with the task, and only a task
\* that has returned has an outcome in the log.
Course(j) ==
    /\ pc[j] = "handler" => row[j].state = "queued"
    /\ pc[j] = "update" =>
          row[j].state = (IF doing[j] = "running" THEN "queued" ELSE "running")
    /\ pc[j] \in {"find", "insert"} =>
          row[j].state = (IF doing[j] \in Outcomes THEN doing[j] ELSE "running")
    /\ pc[j] = "insert" => snap[j] = row[j]
    /\ pc[j] = "work" => row[j].state = "running"
    /\ pc[j] = "done" =>
          /\ row[j].state \in Outcomes
          /\ log[j] # <<>>
          /\ log[j][Len(log[j])].kind = row[j].state
    /\ \A n \in 1 .. Len(log[j]) :
          log[j][n].kind \in Outcomes =>
             /\ pc[j] = "done"
             /\ log[j][n].kind = row[j].state
             /\ log[j][n].data = row[j]
    /\ up /\ pc[j] = "lost" => row[j].state \notin Active

CourseInv == PlaceInv /\ (DbSound => \A j \in Jobs : Course(j))

-----------------------------------------------------------------------------

\* What the UPDATE of a report writes is a row, its state the reported one.
LEMMA WrittenRows ==
    ASSUME NEW r \in Rows, NEW report \in Reports, NEW s \in Written(r, report)
    PROVE  /\ s \in Rows
           /\ report = "running" => s.state = "running"
           /\ report \in {"progress", "complete"} => s.state = r.state
           /\ report \in Outcomes => s.state = report
BY JobsAssumption DEF Rows, Reports, Written, Outcomes, Active

\* Recovery leaves no active row and keeps the others.
LEMMA RecoveredRows ==
    ASSUME NEW r \in Rows
    PROVE  /\ Recovered(r) \in Rows
           /\ r.state \in Active => Recovered(r).state = "failed"
           /\ r.state \notin Active => Recovered(r) = r
BY DEF Rows, Recovered, Outcomes, Active

LEMMA InitTypeOK == Init => TypeOK
BY JobsAssumption DEF Init, TypeOK, Rows, NoRow, Places, TaskSteps, Reports, Outcomes, Active

\* Where the task goes after a report is a place, and its report a report.
LEMMA AfterReportType ==
    ASSUME TypeOK, NEW j \in Jobs, AfterReport(j)
    PROVE  /\ pc' \in [Jobs -> Places]
           /\ doing' \in [Jobs -> Reports]
BY DEF TypeOK, AfterReport, Goto, Begin, Places, TaskSteps, Reports, Outcomes

\* Mishaps are of the kinds that may strike.
LEMMA MishapType ==
    ASSUME TypeOK, NEW kind, Mishap(kind)
    PROVE  mishaps' \in 0 .. MaxMishaps /\ struck' \subseteq Mishaps
BY JobsAssumption DEF TypeOK, Mishap

\* Every step preserves the type invariant.
LEMMA NextTypeOK == TypeOK /\ [Next]_vars => TypeOK'
<1> SUFFICES ASSUME TypeOK, [Next]_vars PROVE TypeOK'
    OBVIOUS
<1> USE JobsAssumption
<1>1. ASSUME NEW j \in Jobs, Submit(j) PROVE TypeOK'
    BY <1>1 DEF TypeOK, Submit, Goto, Rows, Places, Active
<1>2. ASSUME NEW j \in Jobs, Spawn(j) PROVE TypeOK'
    BY <1>2 DEF TypeOK, Spawn, Begin, Goto, Places, TaskSteps, Reports
<1>3. ASSUME NEW j \in Jobs, DropHandler(j) PROVE TypeOK'
    BY <1>3 DEF TypeOK, DropHandler, Goto, Mishap, Places
<1>4. ASSUME NEW j \in Jobs, Update(j) PROVE TypeOK'
  <2>1. row[j] \in Rows /\ doing[j] \in Reports
      BY DEF TypeOK
  <2>2. row' \in [Jobs -> Rows]
    <3>1. \A s \in Written(row[j], doing[j]) : s \in Rows
        BY <2>1, WrittenRows
    <3> QED
        BY <1>4, <3>1 DEF TypeOK, Update
  <2>3. pc' \in [Jobs -> Places] /\ mishaps' \in 0 .. MaxMishaps
         /\ struck' \subseteq Mishaps
      BY <1>4, MishapType DEF TypeOK, Update, Goto, Places, TaskSteps
  <2> QED
      BY <1>4, <2>2, <2>3 DEF TypeOK, Update
<1>5. ASSUME NEW j \in Jobs, Find(j) PROVE TypeOK'
  <2>1. pc' \in [Jobs -> Places] /\ doing' \in [Jobs -> Reports]
    <3>1. CASE AfterReport(j)
        BY <3>1, AfterReportType
    <3>2. CASE Goto(j, "insert") /\ UNCHANGED doing
        BY <3>2 DEF TypeOK, Goto, Places, TaskSteps
    <3> QED
        BY <1>5, <3>1, <3>2 DEF Find
  <2>2. snap' \in [Jobs -> Rows]
      BY <1>5 DEF TypeOK, Find
  <2>3. mishaps' \in 0 .. MaxMishaps /\ struck' \subseteq Mishaps
      BY <1>5, MishapType DEF TypeOK, Find
  <2> QED
      BY <1>5, <2>1, <2>2, <2>3 DEF TypeOK, Find
<1>6. ASSUME NEW j \in Jobs, Insert(j) PROVE TypeOK'
  <2>1. pc' \in [Jobs -> Places] /\ doing' \in [Jobs -> Reports]
    <3>1. AfterReport(j)
        BY <1>6 DEF Insert
    <3> QED
        BY <3>1, AfterReportType
  <2>2. [kind |-> EventKind(doing[j]), data |-> snap[j]] \in Events
      BY DEF TypeOK, Events, EventKind, EventKinds, Reports, Outcomes
  <2>3. log' \in [Jobs -> Seq(Events)]
    <3> DEFINE e == [kind |-> EventKind(doing[j]), data |-> snap[j]]
    <3>1. log[j] \in Seq(Events) /\ e \in Events
        BY <2>2 DEF TypeOK
    <3>2. log' = [log EXCEPT ![j] = Append(log[j], e)] \/ log' = log
        BY <1>6 DEF Insert
    <3> HIDE DEF e
    <3>3. Append(log[j], e) \in Seq(Events)
        BY <3>1
    <3> QED
        BY <3>2, <3>3 DEF TypeOK
  <2>4. mishaps' \in 0 .. MaxMishaps /\ struck' \subseteq Mishaps
      BY <1>6, MishapType DEF TypeOK, Insert
  <2>5. UNCHANGED <<row, snap, reports, up, crashes>>
      BY <1>6 DEF Insert
  <2> QED
      BY <2>1, <2>3, <2>4, <2>5 DEF TypeOK
<1>7. ASSUME NEW j \in Jobs, ReportProgress(j) PROVE TypeOK'
    BY <1>7 DEF TypeOK, ReportProgress, Begin, Goto, Places, TaskSteps, Reports
<1>8. ASSUME NEW j \in Jobs, EndWork(j) PROVE TypeOK'
    BY <1>8 DEF TypeOK, EndWork, Begin, Goto, Places, TaskSteps, Reports, Outcomes
<1>9. ASSUME NEW j \in Jobs, PanicWork(j) PROVE TypeOK'
    BY <1>9 DEF TypeOK, PanicWork, Goto, Mishap, Places
<1>10. CASE Crash
  <2>1. pc' \in [Jobs -> Places]
      BY <1>10 DEF TypeOK, Crash, Places
  <2>2. crashes' \in 0 .. MaxCrashes
      BY <1>10 DEF TypeOK, Crash
  <2>3. up' = FALSE /\ UNCHANGED <<row, log, doing, snap, reports, mishaps, struck>>
      BY <1>10 DEF Crash
  <2> QED
      BY <2>1, <2>2, <2>3 DEF TypeOK
<1>11. CASE Restart
  <2>1. \A j \in Jobs : Recovered(row[j]) \in Rows
      BY RecoveredRows DEF TypeOK
  <2>2. mishaps' \in 0 .. MaxMishaps /\ struck' \subseteq Mishaps
      BY <1>11, MishapType DEF TypeOK, Restart
  <2>3. row' \in [Jobs -> Rows]
    <3>1. row' = [j \in Jobs |-> Recovered(row[j])] \/ row' = row
        BY <1>11 DEF Restart
    <3> QED
        BY <2>1, <3>1 DEF TypeOK
  <2>4. up' /\ UNCHANGED <<log, pc, doing, snap, reports, crashes>>
      BY <1>11 DEF Restart
  <2> QED
      BY <2>2, <2>3, <2>4 DEF TypeOK
<1>12. CASE UNCHANGED vars
    BY <1>12 DEF TypeOK, vars
<1> QED
    BY <1>1, <1>2, <1>3, <1>4, <1>5, <1>6, <1>7, <1>8, <1>9, <1>10, <1>11, <1>12
       DEF Next, Handler, Task

\* The variables keep their types.
THEOREM TypeCorrect == Spec => []TypeOK
BY InitTypeOK, NextTypeOK, PTL DEF Spec

-----------------------------------------------------------------------------
(* Finished rows are final.                                                *)

LEMMA InitPlace == Init => PlaceInv
BY InitTypeOK DEF Init, PlaceInv, Place, NoRow, Outcomes

\* Where a task goes once its report is published.
LEMMA ReportLeads ==
    ASSUME TypeOK, NEW j \in Jobs, AfterReport(j)
    PROVE  /\ \A i \in Jobs \ {j} : pc'[i] = pc[i] /\ doing'[i] = doing[i]
           /\ \/ doing[j] \in {"running", "progress"} /\ pc'[j] = "work" /\ doing'[j] = doing[j]
              \/ doing[j] = "complete" /\ pc'[j] = "update" /\ doing'[j] = "succeeded"
              \/ doing[j] \in Outcomes /\ pc'[j] = "done" /\ doing'[j] = doing[j]
<1>1. doing[j] \in {"running", "progress", "complete"} \cup Outcomes
    BY DEF TypeOK, Reports
<1>2. CASE doing[j] \in {"running", "progress"}
    BY <1>2 DEF TypeOK, AfterReport, Goto
<1>3. CASE doing[j] = "complete"
    BY <1>3 DEF TypeOK, AfterReport, Begin, Goto
<1>4. CASE doing[j] \in Outcomes
    BY <1>4 DEF TypeOK, AfterReport, Goto, Outcomes
<1> QED
    BY <1>1, <1>2, <1>3, <1>4

\* A step of the task of job j leaves the other jobs' places alone.
LEMMA NextPlace == PlaceInv /\ [Next]_vars => PlaceInv'
<1> SUFFICES ASSUME PlaceInv, [Next]_vars PROVE PlaceInv'
    OBVIOUS
<1>0. TypeOK /\ TypeOK'
    BY NextTypeOK DEF PlaceInv
<1> SUFFICES ASSUME NEW i \in Jobs PROVE Place(i)'
    BY <1>0 DEF PlaceInv
<1> USE <1>0
<1>i. Place(i)
    BY DEF PlaceInv
<1>1. ASSUME NEW j \in Jobs, Submit(j) PROVE Place(i)'
    BY <1>1, <1>i DEF TypeOK, Place, Submit, Goto, Outcomes
<1>2. ASSUME NEW j \in Jobs, Spawn(j) PROVE Place(i)'
    BY <1>2, <1>i DEF TypeOK, Place, Spawn, Begin, Goto, Outcomes
<1>3. ASSUME NEW j \in Jobs, DropHandler(j) PROVE Place(i)'
    BY <1>3, <1>i DEF TypeOK, Place, DropHandler, Goto, Outcomes
<1>4. ASSUME NEW j \in Jobs, Update(j) PROVE Place(i)'
  <2>1. i # j => Place(i)'
      BY <1>4, <1>i DEF TypeOK, Place, Update, Goto
  <2>2. ASSUME i = j PROVE Place(i)'
    <3>1. row[j] \in Rows /\ doing[j] \in Reports /\ pc[j] = "update"
        BY <1>4 DEF TypeOK, Update
    <3>2. row[j].state # "none" /\ row[j].state \notin Outcomes
        BY <1>i, <2>2, <3>1 DEF Place
    <3>3. /\ row'[j].state # "none"
          /\ row'[j].state \in Outcomes => doing[j] \in Outcomes
        BY <1>4, <3>1, <3>2, WrittenRows DEF TypeOK, Update, Reports, Outcomes
    <3>4. pc'[j] = "find" /\ doing'[j] = doing[j] /\ up'
        BY <1>4 DEF TypeOK, Update, Goto
    <3> QED
        BY <2>2, <3>3, <3>4 DEF Place
  <2> QED
      BY <2>1, <2>2
<1>5. ASSUME NEW j \in Jobs, Find(j) PROVE Place(i)'
  <2>1. row' = row /\ up' /\ pc[j] = "find" /\ (AfterReport(j) \/ (Goto(j, "insert") /\ UNCHANGED doing))
      BY <1>5 DEF Find
  <2>2. CASE AfterReport(j)
    <3>1. CASE i # j
        BY <1>i, <2>1, <2>2, <3>1, ReportLeads DEF Place
    <3>2. CASE i = j
        BY <1>i, <2>1, <2>2, <3>2, ReportLeads DEF Place, Outcomes
    <3> QED
        BY <3>1, <3>2
  <2>3. CASE Goto(j, "insert") /\ UNCHANGED doing
      BY <1>i, <2>1, <2>3 DEF TypeOK, Place, Goto
  <2> QED
      BY <2>1, <2>2, <2>3
<1>6. ASSUME NEW j \in Jobs, Insert(j) PROVE Place(i)'
  <2>1. row' = row /\ up' /\ pc[j] = "insert" /\ AfterReport(j)
      BY <1>6 DEF Insert
  <2> QED
      BY <1>i, <2>1, ReportLeads DEF Place, Outcomes
<1>7. ASSUME NEW j \in Jobs, ReportProgress(j) PROVE Place(i)'
    BY <1>7, <1>i DEF TypeOK, Place, ReportProgress, Begin, Goto, Outcomes
<1>8. ASSUME NEW j \in Jobs, EndWork(j) PROVE Place(i)'
    BY <1>8, <1>i DEF TypeOK, Place, EndWork, Begin, Goto, Outcomes
<1>9. ASSUME NEW j \in Jobs, PanicWork(j) PROVE Place(i)'
    BY <1>9, <1>i DEF TypeOK, Place, PanicWork, Goto, Outcomes
<1>10. CASE Crash
    BY <1>10, <1>i DEF TypeOK, Place, Crash, Places
<1>11. CASE Restart
  <2>1. row'[i] = Recovered(row[i]) \/ row'[i] = row[i]
      BY <1>11 DEF TypeOK, Restart
  <2>2. Recovered(row[i]).state = "none" <=> row[i].state = "none"
      BY RecoveredRows DEF TypeOK, Rows, Active
  <2> QED
      BY <1>11, <1>i, <2>1, <2>2 DEF TypeOK, Place, Restart
<1>12. CASE UNCHANGED vars
    BY <1>12, <1>i DEF Place, vars
<1> QED
    BY <1>1, <1>2, <1>3, <1>4, <1>5, <1>6, <1>7, <1>8, <1>9, <1>10, <1>11, <1>12
       DEF Next, Handler, Task

\* No step rewrites a finished row, for any mishaps and any number of them.
THEOREM OutcomeIsFinal == Spec => FinalOutcome
<1>1. PlaceInv /\ [Next]_vars =>
          [\A j \in Jobs : row[j].state \in Outcomes => row'[j] = row[j]]_vars
  <2> SUFFICES ASSUME PlaceInv, Next, NEW i \in Jobs, row[i].state \in Outcomes
               PROVE  row'[i] = row[i]
      OBVIOUS
  <2>0. TypeOK /\ pc[i] \notin {"unborn", "update"}
      BY DEF PlaceInv, Place, Outcomes
  <2>1. ASSUME NEW j \in Jobs, Handler(j) PROVE row'[i] = row[i]
      BY <2>0, <2>1 DEF TypeOK, Handler, Submit, Spawn, DropHandler
  <2>2. ASSUME NEW j \in Jobs, Task(j) PROVE row'[i] = row[i]
      BY <2>0, <2>2 DEF TypeOK, Task, Update, Find, Insert, ReportProgress, EndWork, PanicWork
  <2>3. CASE Crash
      BY <2>3 DEF Crash
  <2>4. CASE Restart
    <3>1. Recovered(row[i]) = row[i]
        BY <2>0 DEF Recovered, Active, Outcomes
    <3> QED
        BY <2>4, <3>1 DEF Restart
  <2> QED
      BY <2>1, <2>2, <2>3, <2>4 DEF Next
<1> QED
    BY <1>1, InitPlace, NextPlace, PTL DEF Spec, FinalOutcome

-----------------------------------------------------------------------------
(* The log is in order, even while database calls fail.                    *)

LEMMA InitOrder == Init => OrderInv
BY InitTypeOK DEF Init, OrderInv, Order

\* A step that leaves the log of a job alone keeps its order, if the job neither begins
\* anew nor goes on from its end.
LEMMA OrderFrame ==
    ASSUME NEW i \in Jobs, Order(i), log'[i] = log[i],
           pc[i] \in {"done", "lost"} => pc'[i] \in {"done", "lost"},
           pc'[i] \in {"unborn", "handler"} => log[i] = <<>>,
           pc'[i] \in {"update", "find", "insert"} /\ doing'[i] = "running" => log[i] = <<>>
    PROVE  Order(i)'
BY DEF Order

LEMMA NextOrder == OrderInv /\ [Next]_vars => OrderInv'
<1> SUFFICES ASSUME OrderInv, [Next]_vars PROVE OrderInv'
    OBVIOUS
<1>0. TypeOK /\ TypeOK'
    BY NextTypeOK DEF OrderInv
<1> SUFFICES ASSUME NEW i \in Jobs PROVE Order(i)'
    BY <1>0 DEF OrderInv
<1>i. Order(i)
    BY DEF OrderInv
<1> USE <1>0, <1>i
<1>f. ASSUME NEW j \in Jobs, Handler(j) \/ Task(j), i # j PROVE Order(i)'
  <2>1. log'[i] = log[i]
      BY <1>f DEF TypeOK, Handler, Submit, Spawn, DropHandler, Task, Update, Find,
                  Insert, ReportProgress, EndWork, PanicWork
  <2>2. AfterReport(j) => pc'[i] = pc[i] /\ doing'[i] = doing[i]
      BY <1>f DEF TypeOK, AfterReport, Begin, Goto, Reports, Outcomes
  <2>3. pc'[i] = pc[i] /\ doing'[i] = doing[i]
      BY <1>f, <2>2 DEF TypeOK, Handler, Submit, Spawn, DropHandler, Task, Update,
                        Find, Insert, ReportProgress, EndWork, PanicWork, Begin, Goto
  <2> QED
      BY <2>1, <2>3 DEF Order
<1>1. CASE Handler(i)
    BY <1>1, OrderFrame DEF TypeOK, Order, Handler, Submit, Spawn, DropHandler, Begin, Goto
<1>2. CASE Update(i)
    BY <1>2, OrderFrame DEF TypeOK, Order, Update, Goto
<1>3. CASE Find(i)
  <2>1. log' = log /\ pc[i] = "find"
      BY <1>3 DEF Find
  <2>2. CASE AfterReport(i)
      BY <2>1, <2>2, OrderFrame, ReportLeads DEF Order, Outcomes
  <2>3. CASE Goto(i, "insert") /\ UNCHANGED doing
      BY <2>1, <2>3, OrderFrame DEF TypeOK, Order, Goto
  <2> QED
      BY <1>3, <2>2, <2>3 DEF Find
<1>4. CASE Insert(i)
  <2> DEFINE e == [kind |-> EventKind(doing[i]), data |-> snap[i]]
  <2>1. pc[i] = "insert" /\ AfterReport(i)
      BY <1>4 DEF Insert
  <2>2. /\ doing[i] \in Outcomes => pc'[i] = "done"
        /\ pc'[i] \in {"work", "update", "done"}
        /\ pc'[i] = "update" => doing'[i] = "succeeded"
      BY <2>1 DEF TypeOK, AfterReport, Begin, Goto, Reports, Outcomes
  <2>3. log'[i] = Append(log[i], e) \/ log'[i] = log[i]
      BY <1>4 DEF TypeOK, Insert
  <2>4. CASE log'[i] = log[i]
      BY <2>1, <2>2, <2>4, OrderFrame
  <2>5. CASE log'[i] = Append(log[i], e)
    <3>1. /\ e.kind = "running" => log[i] = <<>>
          /\ e.kind \in Outcomes => pc'[i] = "done"
        BY <2>1, <2>2 DEF Order, EventKind, Outcomes
    <3> HIDE DEF e
    <3>2. log[i] \in Seq(Events)
        BY DEF TypeOK
    <3>3. /\ Len(log'[i]) = Len(log[i]) + 1
          /\ log'[i][Len(log'[i])] = e
          /\ \A n \in 1 .. Len(log[i]) : log'[i][n] = log[i][n]
          /\ log[i] = <<>> => Len(log[i]) = 0
        BY <2>5, <3>2
    <3>4. \A n \in 1 .. Len(log[i]) : log[i][n].kind \notin Outcomes
        BY <2>1 DEF Order
    <3>5. ASSUME NEW n \in 1 .. Len(log'[i])
          PROVE  /\ log'[i][n].kind = "running" => n = 1
                 /\ log'[i][n].kind \in Outcomes => n = Len(log'[i]) /\ pc'[i] = "done"
      <4>1. CASE n \in 1 .. Len(log[i])
          BY <3>3, <3>4, <4>1 DEF Order
      <4>2. CASE n = Len(log'[i])
          BY <3>1, <3>3, <4>2
      <4> QED
          BY <3>2, <3>3, <4>1, <4>2
    <3> QED
        BY <2>2, <3>5 DEF Order
  <2> QED
      BY <2>3, <2>4, <2>5
<1>5. CASE ReportProgress(i) \/ EndWork(i) \/ PanicWork(i)
    BY <1>5, OrderFrame DEF TypeOK, Order, ReportProgress, EndWork, PanicWork, Begin, Goto
<1>6. CASE Crash
    BY <1>6, OrderFrame DEF TypeOK, Order, Crash
<1>7. CASE Restart
    BY <1>7, OrderFrame DEF Order, Restart
<1>8. CASE UNCHANGED vars
    BY <1>8, OrderFrame DEF Order, vars
<1> QED
    BY <1>f, <1>1, <1>2, <1>3, <1>4, <1>5, <1>6, <1>7, <1>8 DEF Next, Handler, Task

\* The log of a job begins with its start and ends with its outcome, for any mishaps.
THEOREM LogIsOrdered == Spec => []LogInOrder
<1>1. OrderInv => LogInOrder
    BY DEF OrderInv, Order, LogInOrder
<1> QED
    BY <1>1, InitOrder, NextOrder, PTL DEF Spec

-----------------------------------------------------------------------------
(* While the database answers: what the log says is so.                    *)

LEMMA InitCourse == Init => CourseInv
BY InitPlace DEF Init, CourseInv, Course, NoRow, Active

\* When no database call fails, the three calls of a report all succeed.
LEMMA CleanSteps ==
    ASSUME TypeOK, DbSound', NEW j \in Jobs
    PROVE  /\ Update(j) =>
                 \E r \in Written(row[j], doing[j]) : row' = [row EXCEPT ![j] = r]
           /\ Find(j) => /\ snap' = [snap EXCEPT ![j] = row[j]]
                         /\ Goto(j, "insert")
                         /\ UNCHANGED doing
           /\ Insert(j) =>
                 log' = [log EXCEPT ![j] =
                           Append(@, [kind |-> EventKind(doing[j]), data |-> snap[j]])]
BY DEF DbSound, Update, Find, Insert, Mishap

\* Nor does the UPDATE of the recovery fail.
LEMMA CleanRestart ==
    ASSUME DbSound', Restart
    PROVE  row' = [i \in Jobs |-> Recovered(row[i])]
BY DEF DbSound, Restart, Mishap

\* A database that is sound was so before.
LEMMA SoundBefore ==
    ASSUME [Next]_vars, DbSound'
    PROVE  DbSound
BY DEF DbSound, Next, Handler, Task, Submit, Spawn, DropHandler, Update, Find, Insert,
       ReportProgress, EndWork, PanicWork, Crash, Restart, Mishap, vars

\* A step concerns one job: what it leaves alone keeps its course.
LEMMA CourseFrame ==
    ASSUME TypeOK, NEW i \in Jobs, Course(i),
           row'[i] = row[i], log'[i] = log[i], pc'[i] = pc[i],
           doing'[i] = doing[i], snap'[i] = snap[i], up' = up
    PROVE  Course(i)'
BY DEF Course

LEMMA NextCourse == CourseInv /\ [Next]_vars => CourseInv'
<1> SUFFICES ASSUME CourseInv, [Next]_vars PROVE CourseInv'
    OBVIOUS
<1>0. PlaceInv /\ PlaceInv' /\ TypeOK /\ TypeOK'
    BY NextPlace DEF CourseInv, PlaceInv
<1> SUFFICES ASSUME DbSound', NEW i \in Jobs PROVE Course(i)'
    BY <1>0 DEF CourseInv
<1>i. Course(i) /\ Place(i)
    BY <1>0, SoundBefore DEF CourseInv, PlaceInv
<1> USE <1>0, <1>i
<1>f. ASSUME NEW j \in Jobs, Handler(j) \/ Task(j), i # j PROVE Course(i)'
  <2>1. row'[i] = row[i] /\ log'[i] = log[i] /\ up' = up
      BY <1>f DEF TypeOK, Handler, Submit, Spawn, DropHandler, Task, Update, Find,
                  Insert, ReportProgress, EndWork, PanicWork
  <2>2. AfterReport(j) => pc'[i] = pc[i] /\ doing'[i] = doing[i]
      BY <1>f DEF TypeOK, AfterReport, Begin, Goto, Reports, Outcomes
  <2>3. pc'[i] = pc[i] /\ doing'[i] = doing[i]
      BY <1>f, <2>2 DEF TypeOK, Handler, Submit, Spawn, DropHandler, Task, Update,
                        Find, Insert, ReportProgress, EndWork, PanicWork, Begin, Goto
  <2>4. snap'[i] = snap[i]
      BY <1>f DEF TypeOK, Handler, Submit, Spawn, DropHandler, Task, Update, Find,
                  Insert, ReportProgress, EndWork, PanicWork
  <2> QED
      BY <2>1, <2>3, <2>4, CourseFrame
<1>1. CASE Submit(i)
    BY <1>1 DEF TypeOK, Course, Place, Submit, Goto, Active, Outcomes
<1>2. CASE Spawn(i)
    BY <1>2 DEF TypeOK, Course, Spawn, Begin, Goto
<1>3. CASE DropHandler(i)
    BY <1>3 DEF TypeOK, Course, DropHandler, Goto
<1>4. CASE Update(i)
  <2>1. PICK r \in Written(row[i], doing[i]) : row' = [row EXCEPT ![i] = r]
      BY <1>4, CleanSteps
  <2>2. /\ doing[i] = "running" => r.state = "running"
        /\ doing[i] \in {"progress", "complete"} => r.state = row[i].state
        /\ doing[i] \in Outcomes => r.state = doing[i]
      BY WrittenRows DEF TypeOK
  <2>3. /\ row'[i] = r /\ pc[i] = "update" /\ pc'[i] = "find"
        /\ UNCHANGED <<log, doing, snap, up>>
      BY <1>4, <2>1 DEF TypeOK, Update, Goto
  <2> QED
      BY <2>2, <2>3 DEF TypeOK, Course, Reports, Outcomes
<1>5. CASE Find(i)
  <2>1. snap' = [snap EXCEPT ![i] = row[i]] /\ Goto(i, "insert") /\ UNCHANGED doing
      BY <1>5, CleanSteps
  <2>2. snap'[i] = row[i] /\ pc'[i] = "insert"
      BY <2>1 DEF TypeOK, Goto
  <2>3. pc[i] = "find" /\ UNCHANGED <<row, log, up>>
      BY <1>5 DEF Find
  <2> QED
      BY <2>1, <2>2, <2>3 DEF Course
<1>6. CASE Insert(i)
  <2> DEFINE e == [kind |-> EventKind(doing[i]), data |-> snap[i]]
  <2>1. log'[i] = Append(log[i], e)
      BY <1>6, CleanSteps DEF TypeOK
  <2>2. /\ e.data = row[i]
        /\ e.kind \in Outcomes => doing[i] \in Outcomes /\ e.kind = row[i].state
        /\ doing[i] \in Outcomes => e.kind = row[i].state
      BY <1>6 DEF Insert, Course, EventKind, Outcomes
  <2>3. UNCHANGED <<row, snap, up>> /\ pc[i] = "insert"
      BY <1>6 DEF Insert
  <2>4. log[i] \in Seq(Events)
      BY DEF TypeOK
  <2> HIDE DEF e
  <2>5. /\ log'[i] # <<>>
        /\ Len(log'[i]) = Len(log[i]) + 1
        /\ log'[i][Len(log'[i])] = e
        /\ \A n \in 1 .. Len(log[i]) : log'[i][n] = log[i][n]
      BY <2>1, <2>4
  <2>6. \A n \in 1 .. Len(log[i]) : log[i][n].kind \notin Outcomes
      BY <2>3 DEF Course
  <2>7. \A n \in 1 .. Len(log'[i]) : log'[i][n].kind \in Outcomes => log'[i][n] = e
      BY <2>4, <2>5, <2>6
  <2>8. AfterReport(i)
      BY <1>6 DEF Insert
  <2>9. CASE doing[i] \in Outcomes
    <3>1. pc'[i] = "done"
        BY <2>8, <2>9 DEF TypeOK, AfterReport, Goto, Outcomes
    <3>2. row[i].state = doing[i]
        BY <2>3, <2>9 DEF Course
    <3> QED
        BY <2>2, <2>3, <2>5, <2>7, <2>9, <3>1, <3>2 DEF Course
  <2>10. CASE doing[i] \notin Outcomes
    <3>1. /\ pc'[i] \in {"work", "update"}
          /\ pc'[i] = "update" => doing'[i] = "succeeded"
        BY <2>8, <2>10 DEF TypeOK, AfterReport, Begin, Goto, Reports, Outcomes
    <3>2. row[i].state = "running"
        BY <2>3, <2>10 DEF Course
    <3> QED
        BY <2>2, <2>3, <2>7, <2>10, <3>1, <3>2 DEF Course
  <2> QED
      BY <2>9, <2>10
<1>7. CASE ReportProgress(i)
    BY <1>7 DEF TypeOK, Course, ReportProgress, Begin, Goto, Outcomes
<1>8. CASE EndWork(i)
    BY <1>8 DEF TypeOK, Course, EndWork, Begin, Goto, Outcomes
<1>9. CASE PanicWork(i)
    BY <1>9 DEF TypeOK, Course, PanicWork, Goto
<1>10. CASE Crash
    BY <1>10 DEF TypeOK, Course, Crash
<1>11. CASE Restart
  <2>1. row'[i] = Recovered(row[i])
      BY <1>11, CleanRestart DEF TypeOK
  <2>2. row'[i].state \notin Active /\ (row[i].state \in Outcomes => row'[i] = row[i])
      BY <2>1, RecoveredRows DEF TypeOK, Active, Outcomes
  <2>3. ~up /\ UNCHANGED <<log, pc, doing, snap>>
      BY <1>11 DEF Restart
  <2>4. pc[i] \in {"unborn", "done", "lost"}
      BY <2>3 DEF Place
  <2> QED
      BY <2>2, <2>3, <2>4 DEF Course
<1>12. CASE UNCHANGED vars
    BY <1>12, CourseFrame DEF vars
<1> QED
    BY <1>f, <1>1, <1>2, <1>3, <1>4, <1>5, <1>6, <1>7, <1>8, <1>9, <1>10, <1>11, <1>12
       DEF Next, Handler, Task

\* The inductive invariant implies the three properties.
LEMMA CourseImplies ==
    CourseInv => AnnouncedIsRecorded /\ DoneIsTold /\ NoLeftovers
BY DEF CourseInv, PlaceInv, Course, AnnouncedIsRecorded, DoneIsTold, NoLeftovers

LEMMA CourseAlways == Spec => []CourseInv
BY InitCourse, NextCourse, PTL DEF Spec

\* Whoever reads an outcome in the event log finds it in the row, however the
\* daemon dies and whichever handlers and tasks are lost.
THEOREM AnnouncementsAreTrue == Spec => []AnnouncedIsRecorded
BY CourseAlways, CourseImplies, PTL

\* A task that has returned has recorded its outcome and told it.
THEOREM ReturnedIsTold == Spec => []DoneIsTold
BY CourseAlways, CourseImplies, PTL

\* A restarted daemon shows no job of an earlier one as active.
THEOREM NothingLeftOver == Spec => []NoLeftovers
BY CourseAlways, CourseImplies, PTL

\* What the log tells of a job's outcome is in order, true and told in time.
THEOREM TellsOutcomes == Spec => []OutcomesAreTold
BY LogIsOrdered, AnnouncementsAreTrue, ReturnedIsTold, NothingLeftOver, PTL
   DEF OutcomesAreTold

-----------------------------------------------------------------------------
(* Refinement.                                                             *)

LEMMA InitRefines == Init => Lifecycle!Init
BY DEF Init, Lifecycle!Init, Phase, Told, NoRow, DbSound

\* A step that changes neither the row's state nor the log is a stutter.
LEMMA StutterRefines ==
    ASSUME \A i \in Jobs : row'[i].state = row[i].state, log' = log, DbSound' = DbSound
    PROVE  UNCHANGED Lifecycle!vars
BY DEF Lifecycle!vars, Phase, Told

\* The row of one job takes a new state; the log stays.
LEMMA PhaseStep ==
    ASSUME TypeOK, NEW j \in Jobs, NEW r,
           row' = [row EXCEPT ![j] = r], log' = log
    PROVE  Phase' = [Phase EXCEPT ![j] = r.state] /\ Told' = Told
<1>1. Told' = Told
    BY DEF Told
<1>2. \A i \in Jobs : row'[i].state = IF i = j THEN r.state ELSE row[i].state
    BY DEF TypeOK
<1> QED
    BY <1>1, <1>2 DEF Phase

\* A sound step keeps or stutters.
LEMMA SoundStepKeeps ==
    ASSUME CourseInv, [Next]_vars, DbSound'
    PROVE  (Lifecycle!Keep /\ DbSound' = DbSound) \/ UNCHANGED Lifecycle!vars
<1>0. TypeOK /\ TypeOK' /\ DbSound /\ \A j \in Jobs : Course(j) /\ Place(j)
    BY NextPlace, SoundBefore DEF CourseInv, PlaceInv
<1>s. DbSound' = DbSound
    BY <1>0, DbSound' = TRUE DEF DbSound
<1> USE <1>0, <1>s
<1>1. ASSUME NEW j \in Jobs, Submit(j) PROVE Lifecycle!Keep
  <2>1. row[j].state = "none"
      BY <1>1 DEF Submit, Place
  <2>2. Phase' = [Phase EXCEPT ![j] = "queued"] /\ Told' = Told
    <3> DEFINE r == [state |-> "queued", progress |-> 0]
    <3>1. row' = [row EXCEPT ![j] = r] /\ log' = log
        BY <1>1 DEF Submit
    <3>2. r.state = "queued"
        OBVIOUS
    <3> HIDE DEF r
    <3> QED
        BY <3>1, <3>2, PhaseStep
  <2>3. Phase[j] = "none"
      BY <2>1 DEF Phase
  <2> QED
      BY <2>2, <2>3 DEF Lifecycle!Keep, Lifecycle!Create
<1>2. ASSUME NEW j \in Jobs, Spawn(j) \/ DropHandler(j)
      PROVE UNCHANGED Lifecycle!vars
    BY <1>2, StutterRefines DEF Spawn, DropHandler
<1>3. ASSUME NEW j \in Jobs, Update(j)
      PROVE Lifecycle!Keep \/ UNCHANGED Lifecycle!vars
  <2>1. PICK r \in Written(row[j], doing[j]) : row' = [row EXCEPT ![j] = r]
      BY <1>3, CleanSteps
  <2>2. /\ doing[j] = "running" => r.state = "running"
        /\ doing[j] \in {"progress", "complete"} => r.state = row[j].state
        /\ doing[j] \in Outcomes => r.state = doing[j]
      BY WrittenRows DEF TypeOK
  <2>3. row[j].state = (IF doing[j] = "running" THEN "queued" ELSE "running")
      BY <1>3 DEF Update, Course
  <2>4. Phase' = [Phase EXCEPT ![j] = r.state] /\ Told' = Told
      BY <1>3, <2>1, PhaseStep DEF Update
  <2>5. Phase[j] = row[j].state
      BY DEF Phase
  <2>6. CASE doing[j] = "running"
      BY <2>2, <2>3, <2>4, <2>5, <2>6 DEF Lifecycle!Keep, Lifecycle!Start
  <2>7. CASE doing[j] \in {"progress", "complete"}
    <3>1. \A i \in Jobs : row'[i].state = row[i].state
        BY <2>1, <2>2, <2>7 DEF TypeOK
    <3> QED
        BY <1>3, <3>1, StutterRefines DEF Update
  <2>8. CASE doing[j] \in Outcomes
      BY <2>2, <2>3, <2>4, <2>5, <2>8
         DEF Lifecycle!Keep, Lifecycle!Finish, Lifecycle!Outcomes, Outcomes
  <2> QED
      BY <2>6, <2>7, <2>8 DEF TypeOK, Reports
<1>4. ASSUME NEW j \in Jobs, Find(j) PROVE UNCHANGED Lifecycle!vars
    BY <1>4, StutterRefines DEF Find
<1>5. ASSUME NEW j \in Jobs, Insert(j)
      PROVE Lifecycle!Keep \/ UNCHANGED Lifecycle!vars
  <2> DEFINE e == [kind |-> EventKind(doing[j]), data |-> snap[j]]
  <2>1. log' = [log EXCEPT ![j] = Append(log[j], e)]
      BY <1>5, CleanSteps
  <2>2. e.kind = EventKind(doing[j])
      OBVIOUS
  <2> HIDE DEF e
  <2>3. pc[j] = "insert" /\ UNCHANGED row
      BY <1>5 DEF Insert
  <2>4. log[j] \in Seq(Events)
      BY DEF TypeOK
  <2>5. /\ Append(log[j], e) # <<>>
        /\ Append(log[j], e)[Len(Append(log[j], e))] = e
      BY <2>4
  <2>6. \A n \in 1 .. Len(log[j]) : log[j][n].kind \notin Outcomes
      BY <2>3 DEF Course
  <2>7. log[j] = <<>> \/ Len(log[j]) \in 1 .. Len(log[j])
      BY <2>4
  <2>8. Told[j] \in {"nothing", "underway"}
      BY <2>6, <2>7 DEF Told
  <2>9. /\ Phase' = Phase
        /\ Told' = [Told EXCEPT ![j] =
                       IF e.kind \in Outcomes THEN e.kind ELSE "underway"]
    <3>1. \A i \in Jobs : log'[i] = IF i = j THEN Append(log[j], e) ELSE log[i]
        BY <2>1 DEF TypeOK
    <3> QED
        BY <2>3, <2>5, <3>1 DEF Phase, Told
  <2>10. Phase[j] = row[j].state
      BY DEF Phase
  <2>11. row[j].state = (IF doing[j] \in Outcomes THEN doing[j] ELSE "running")
      BY <2>3 DEF Course
  <2>12. CASE doing[j] \in Outcomes
    <3>1. e.kind = doing[j] /\ e.kind \in Outcomes
        BY <2>2, <2>12 DEF EventKind, Outcomes
    <3> QED
        BY <2>8, <2>9, <2>10, <2>11, <2>12, <3>1
           DEF Lifecycle!Keep, Lifecycle!TellOutcome, Lifecycle!Outcomes, Outcomes
  <2>13. CASE doing[j] \notin Outcomes
    <3>1. e.kind \notin Outcomes
        BY <2>2, <2>13 DEF EventKind, Outcomes, TypeOK, Reports
    <3> QED
        BY <2>8, <2>9, <2>10, <2>11, <2>13, <3>1
           DEF Lifecycle!Keep, Lifecycle!TellUnderway
  <2> QED
      BY <2>12, <2>13
<1>6. ASSUME NEW j \in Jobs, ReportProgress(j) \/ EndWork(j) \/ PanicWork(j)
      PROVE UNCHANGED Lifecycle!vars
    BY <1>6, StutterRefines DEF ReportProgress, EndWork, PanicWork
<1>7. CASE Crash
    BY <1>7, StutterRefines DEF Crash
<1>8. CASE Restart
  <2>1. row' = [j \in Jobs |-> Recovered(row[j])] /\ log' = log
      BY <1>8, CleanRestart DEF Restart
  <2>2. \A j \in Jobs : row'[j].state = IF row[j].state \in Active
                                        THEN "failed" ELSE row[j].state
      BY <2>1 DEF Recovered, TypeOK, Rows
  <2>3. Told' = Told
      BY <2>1 DEF Told
  <2>4. Phase' = [j \in Jobs |-> IF Phase[j] \in {"queued", "running"}
                                 THEN "failed" ELSE Phase[j]]
      BY <2>2 DEF Phase, Active
  <2> QED
      BY <2>3, <2>4 DEF Lifecycle!Keep, Lifecycle!FailAll
<1>9. CASE UNCHANGED vars
    BY <1>9, StutterRefines DEF vars
<1> QED
    BY <1>1, <1>2, <1>3, <1>4, <1>5, <1>6, <1>7, <1>8, <1>9 DEF Next, Handler, Task

\* Every step is one of JobLifecycle, or a stutter; one that leaves the database
\* broken may be anything there.
LEMMA StepRefines ==
    ASSUME CourseInv, [Next]_vars
    PROVE  [Lifecycle!Next]_(Lifecycle!vars)
<1>1. CASE DbSound'
    BY <1>1, SoundStepKeeps DEF Lifecycle!Next
<1>2. CASE ~DbSound'
    BY <1>2 DEF Lifecycle!Next
<1> QED
    BY <1>1, <1>2

\* The rows and the log behave as JobLifecycle says, until the database fails.
THEOREM Implements == Spec => ImplementsLifecycle
<1>1. Spec => []CourseInv
    BY CourseAlways
<1>2. CourseInv /\ [Next]_vars => [Lifecycle!Next]_(Lifecycle!vars)
    BY StepRefines
<1> QED
    BY <1>1, <1>2, InitRefines, PTL DEF Spec, ImplementsLifecycle, Lifecycle!Spec

-----------------------------------------------------------------------------
(* Zones.  One name, and whose it is.                                      *)

Making(j) == job[j].step \in {"dataset", "install", "undo"}
Usable == {"installed", "running", "shutting_down"}

\* While no zone has been made among jobs for an earlier one: one job at most is
\* making a zone; the zone that is there, if any, is that job's, not installed,
\* and has its data once there is some; a purge comes after its zone has gone; and
\* a zone's create finds its own data at its place or none.
Alone ==
    /\ \A j, k \in Requests : Making(j) /\ Making(k) => j = k
    /\ \A j \in Requests : Making(j) /\ zone.state # "absent" =>
          /\ zone.id = j /\ zone.family = job[j].family
          /\ zone.state \in {"configured", "incomplete"}
          /\ At(j, "install") => data[job[j].family] = j
    /\ \A j \in Requests : At(j, "purge") => zone.state = "absent"
    /\ \A j \in Requests : job[j].family = "zone" /\ job[j].step \in {"install", "undo"} =>
          data["zone"] \in {j, Nobody}

Inv == ZoneTypeOK /\ (~overlapped => Alone) /\ InstalledHasData

-----------------------------------------------------------------------------
(* Types.                                                                  *)

\* A job that goes to its next step changes nothing else.
LEMMA Moves ==
    ASSUME ZoneTypeOK, NEW j \in Requests, NEW step \in Steps, GoesTo(j, step)
    PROVE  /\ job' \in [Requests -> JobRecords]
           /\ job'[j].step = step
           /\ \A k \in Requests : k # j => job'[k] = job[k]
           /\ \A k \in Requests : job'[k].op = job[k].op /\ job'[k].family = job[k].family
           /\ \A k \in Requests : job'[k].target = job[k].target /\ job'[k].flag = job[k].flag
BY DEF ZoneTypeOK, GoesTo, JobRecords

\* A zone that is there remains there, whatever state it is made to take.
LEMMA Becomes ==
    ASSUME ZoneTypeOK, zone.state # "absent", NEW state \in States \ {"absent"}, Become(state)
    PROVE  /\ zone' \in ZoneRecords
           /\ zone'.state = state /\ zone'.id = zone.id /\ zone'.family = zone.family
           /\ zone'.id # Nobody
BY DEF ZoneTypeOK, Become, ZoneRecords

\* Whom a request finds is somebody or nobody.
LEMMA ListingType == ZoneTypeOK => Listing \in ZoneRecords
BY DEF ZoneTypeOK, Listing

LEMMA AcceptTypeOK ==
    ASSUME ZoneTypeOK, NEW j \in Requests, NEW op \in Ops, NEW family \in Families,
           NEW target \in Requests \cup {Nobody}, NEW flag \in BOOLEAN, NEW step \in Steps,
           Accept(j, op, family, target, flag, step)
    PROVE  ZoneTypeOK'
<1>1. job' \in [Requests -> JobRecords]
    BY DEF ZoneTypeOK, Accept, JobRecords
<1>2. cache' \in ZoneRecords \cup {Unknown}
    BY ListingType DEF Accept
<1> QED
    BY <1>1, <1>2 DEF ZoneTypeOK, Accept, JobRecords, Counters

LEMMA NoZoneType ==
    NoZone \in ZoneRecords /\ NoZone.state = "absent" /\ NoZone.id = Nobody
BY DEF NoZone, ZoneRecords, States, Families

LEMMA ZoneInitTypeOK == ZoneInit => ZoneTypeOK
<1> SUFFICES ASSUME ZoneInit PROVE ZoneTypeOK
    OBVIOUS
<1>1. NoZone \in ZoneRecords /\ NoZone.state = "absent" /\ NoZone.id = Nobody
    BY NoZoneType
<1>2. NoJob \in JobRecords
    BY DEF NoJob, JobRecords, Ops, Families, Steps
<1> QED
  <2>1. zone \in ZoneRecords /\ cache \in ZoneRecords \cup {Unknown}
      BY <1>1 DEF ZoneInit
  <2>2. zone.state = "absent" <=> zone.id = Nobody
      BY <1>1 DEF ZoneInit
  <2>3. job \in [Requests -> JobRecords] /\ data \in [Families -> Requests \cup {Nobody}]
      BY <1>2 DEF ZoneInit
  <2>4. faults \in 0 .. MaxFaults
      BY ZonesAssumption DEF ZoneInit, ZonesAssumption
  <2>5. overlapped \in BOOLEAN
      BY DEF ZoneInit
  <2> QED
      BY <2>1, <2>2, <2>3, <2>4, <2>5 DEF ZoneTypeOK

LEMMA RequestTypeOK ==
    ASSUME ZoneTypeOK, NEW j \in Requests, Request(j)
    PROVE  ZoneTypeOK'
<1> USE DEF Ops, Steps, Underway, Waits
<1>1. ASSUME NEW family \in Families, NEW boot \in BOOLEAN, Create(j, family, boot)
      PROVE  ZoneTypeOK'
    BY <1>1, AcceptTypeOK DEF Create
<1>2. ASSUME NEW op \in DOMAIN FirstStep, Change(j, op)
      PROVE  ZoneTypeOK'
  <2>1. op \in Ops /\ FirstStep[op] \in Steps
      BY DEF FirstStep
  <2>2. Listing.family \in Families /\ Listing.id \in Requests \cup {Nobody}
      BY ListingType DEF ZoneRecords
  <2> QED
      BY <1>2, <2>1, <2>2, AcceptTypeOK DEF Change
<1>3. ASSUME NEW purge \in BOOLEAN, Delete(j, purge)
      PROVE  ZoneTypeOK'
  <2>1. Listing.family \in Families /\ Listing.id \in Requests \cup {Nobody}
      BY ListingType DEF ZoneRecords
  <2> QED
      BY <1>3, <2>1, AcceptTypeOK DEF Delete
<1> QED
    BY <1>1, <1>2, <1>3 DEF Request

\* Every step preserves the type invariant.
LEMMA ZoneNextTypeOK == ZoneTypeOK /\ [ZoneNext]_zoneVars => ZoneTypeOK'
<1> SUFFICES ASSUME ZoneTypeOK, [ZoneNext]_zoneVars PROVE ZoneTypeOK'
    OBVIOUS
<1> USE DEF Steps, Underway, Waits, Over, Counters
<1>1. ASSUME NEW j \in Requests, Request(j) PROVE ZoneTypeOK'
    BY <1>1, RequestTypeOK
<1>2. ASSUME NEW j \in Requests, JobStep(j) PROVE ZoneTypeOK'
  <2>1. CASE Configure(j)
    <3>1. job' \in [Requests -> JobRecords]
        BY <2>1, Moves DEF Configure, Obeyed
    <3>2. zone' \in ZoneRecords /\ zone'.state # "absent" /\ zone'.id # Nobody
        BY <2>1 DEF Configure, ZoneTypeOK, ZoneRecords, JobRecords, States, Requests, Nobody
    <3>3. faults' \in 0 .. MaxFaults /\ overlapped' \in BOOLEAN
        BY <2>1, ZonesAssumption DEF Configure, ZoneTypeOK, ZonesAssumption
    <3> QED
        BY <2>1, <3>1, <3>2, <3>3 DEF Configure, ZoneTypeOK
  <2>2. CASE MakeData(j) \/ Undo(j) \/ Purge(j)
    <3>1. job' \in [Requests -> JobRecords]
        BY <2>2, Moves DEF MakeData, Obeyed, Undo, Purge
    <3> QED
        BY <2>2, <3>1 DEF MakeData, Undo, Purge, ZoneTypeOK
  <2>3. CASE Install(j) \/ Boot(j) \/ Halt(j) \/ Uninstall(j)
    <3>1. job' \in [Requests -> JobRecords]
        BY <2>3, Moves DEF Install, Boot, Halt, Uninstall, Obeyed
    <3>2. zone.state # "absent"
        BY <2>3 DEF Install, Boot, Halt, Uninstall, Obeyed, Refused, Needs, At
    <3>3. zone' \in ZoneRecords /\ zone'.state # "absent" /\ zone'.id # Nobody
        BY <2>3, <3>2, Becomes DEF Install, Boot, Halt, Uninstall, States
    <3>4. cache' \in ZoneRecords \cup {Unknown}
        BY <2>3 DEF Install, Boot, Halt, Uninstall, ZoneTypeOK
    <3> QED
        BY <2>3, <3>1, <3>3, <3>4 DEF Install, Boot, Halt, Uninstall, ZoneTypeOK
  <2>4. CASE Shutdown(j)
    <3>1. job' \in [Requests -> JobRecords]
        BY <2>4, Moves DEF Shutdown, Obeyed
    <3>2. zone.state # "absent"
        BY <2>4 DEF Shutdown, Obeyed, Refused, Needs, At
    <3>3. zone' \in ZoneRecords /\ zone'.state # "absent" /\ zone'.id # Nobody
        BY <2>4, <3>2 DEF Shutdown, ZoneTypeOK, ZoneRecords, States
    <3> QED
        BY <2>4, <3>1, <3>3 DEF Shutdown, ZoneTypeOK
  <2>5. CASE Reached(j) \/ TimeOut(j) \/ Look(j) \/ Relook(j)
    <3>1. job' \in [Requests -> JobRecords]
        BY <2>5, Moves DEF Reached, TimeOut, Look, Relook
    <3> QED
        BY <2>5, <3>1 DEF Reached, TimeOut, Look, Relook, ZoneTypeOK
  <2>6. CASE Unconfigure(j)
    <3>1. job' \in [Requests -> JobRecords]
        BY <2>6, Moves DEF Unconfigure, Obeyed
    <3> QED
        BY <2>6, <3>1, NoZoneType DEF Unconfigure, ZoneTypeOK
  <2>7. CASE Fail(j)
    <3>1. job' \in [Requests -> JobRecords]
        BY <2>7, Moves DEF Fail, OnFailure
    <3>2. zone' \in ZoneRecords /\ (zone'.state = "absent" <=> zone'.id = Nobody)
        BY <2>7, Becomes DEF Fail, ZoneTypeOK, States
    <3>3. faults' \in 0 .. MaxFaults
        BY <2>7, ZonesAssumption DEF Fail, ZoneTypeOK, ZonesAssumption
    <3>4. cache' \in ZoneRecords \cup {Unknown}
        BY <2>7 DEF Fail, ZoneTypeOK
    <3> QED
        BY <2>7, <3>1, <3>2, <3>3, <3>4 DEF Fail, ZoneTypeOK
  <2> QED
      BY <1>2, <2>1, <2>2, <2>3, <2>4, <2>5, <2>6, <2>7 DEF JobStep
<1>3. CASE List \/ Expire
    BY <1>3 DEF List, Expire, ZoneTypeOK
<1>4. CASE Settle \/ PowerOff
  <2>1. zone' \in ZoneRecords /\ zone'.state # "absent" /\ zone'.id # Nobody
      BY <1>4 DEF Settle, PowerOff, Become, ZoneTypeOK, ZoneRecords, States
  <2> QED
      BY <1>4, <2>1 DEF Settle, PowerOff, ZoneTypeOK
<1>5. CASE ZoneCrash
  <2>1. job' \in [Requests -> JobRecords]
      BY <1>5 DEF ZoneCrash, ZoneTypeOK, JobRecords
  <2>2. zone' \in ZoneRecords /\ (zone'.state = "absent" <=> zone'.id = Nobody)
      BY <1>5, Becomes DEF ZoneCrash, ZoneTypeOK, States
  <2>3. faults' \in 0 .. MaxFaults
      BY <1>5, ZonesAssumption DEF ZoneCrash, ZoneTypeOK, ZonesAssumption
  <2> QED
      BY <1>5, <2>1, <2>2, <2>3 DEF ZoneCrash, ZoneTypeOK
<1>6. CASE UNCHANGED zoneVars
    BY <1>6 DEF zoneVars, ZoneTypeOK
<1> QED
    BY <1>1, <1>2, <1>3, <1>4, <1>5, <1>6 DEF ZoneNext

\* Whatever requests come and whatever fails, the variables keep their types.
THEOREM ZonesTyped == ZoneSpec => []ZoneTypeOK
<1> QED
    BY ZoneInitTypeOK, ZoneNextTypeOK, PTL DEF ZoneSpec

-----------------------------------------------------------------------------
(* The invariant.                                                          *)

Unready == {"configured", "incomplete"}
Delicate == {"dataset", "install", "undo", "purge"}

\* A step that makes no zone and touches no data: jobs move, but into no step of
\* which Alone speaks unless the zone is gone, and the zone stays, usable or not
\* as it was, becomes unready, or goes.
Calm ==
    /\ data' = data /\ overlapped' = overlapped
    /\ \A k \in Requests :
          \/ job'[k].step = job[k].step /\ job'[k].family = job[k].family
          \/ job'[k].step \notin Delicate
          \/ job'[k].step = "purge" /\ zone'.state = "absent"
    /\ zone'.state # "absent" =>
          /\ zone.state # "absent"
          /\ zone'.id = zone.id /\ zone'.family = zone.family
          /\ zone.state \in Unready => zone'.state \in Unready
          /\ zone'.state \in Usable => zone.state \in Usable

LEMMA CalmKeepsAlone ==
    ASSUME Alone, Calm
    PROVE  Alone'
<1>1. \A k \in Requests : Making(k)' => /\ Making(k) /\ job'[k].step = job[k].step
                                       /\ job'[k].family = job[k].family
    BY DEF Calm, Making, Delicate
<1>2. \A j, k \in Requests : Making(j)' /\ Making(k)' => j = k
    BY <1>1 DEF Alone
<1>3. ASSUME NEW j \in Requests, Making(j)', zone'.state # "absent"
      PROVE  /\ zone'.id = j /\ zone'.family = job'[j].family
             /\ zone'.state \in {"configured", "incomplete"}
             /\ At(j, "install")' => data'[job'[j].family] = j
    BY <1>1, <1>3 DEF Alone, Calm, At, Unready
<1>4. ASSUME NEW j \in Requests, At(j, "purge")'
      PROVE  zone'.state = "absent"
    BY <1>4 DEF Alone, Calm, At, Delicate
<1>5. ASSUME NEW j \in Requests, job'[j].family = "zone", job'[j].step \in {"install", "undo"}
      PROVE  data'["zone"] \in {j, Nobody}
    BY <1>5 DEF Alone, Calm, Delicate
<1> QED
    BY <1>2, <1>3, <1>4, <1>5 DEF Alone

LEMMA CalmKeepsInv ==
    ASSUME Inv, ZoneTypeOK', Calm
    PROVE  Inv'
<1>1. ~overlapped' => Alone'
    BY CalmKeepsAlone DEF Inv, Calm
<1>2. InstalledHasData'
    BY DEF Inv, InstalledHasData, Calm, Usable
<1> QED
    BY <1>1, <1>2 DEF Inv

\* A job that goes on to a step of no consequence, while the zone stays.
LEMMA CalmJob ==
    ASSUME Inv, ZoneTypeOK', NEW j \in Requests, NEW step \in Steps \ Delicate, GoesTo(j, step),
           UNCHANGED <<zone, data, overlapped>>
    PROVE  Inv'
<1>1. \A k \in Requests : \/ job'[k].step = job[k].step /\ job'[k].family = job[k].family
                          \/ job'[k].step \notin Delicate
    BY Moves DEF Inv
<1>2. Calm
    BY <1>1 DEF Calm
<1> QED
    BY <1>2, CalmKeepsInv

\* The same, while a zone that is usable takes a state, or one that is not yet
\* takes another such.
LEMMA CalmBoth ==
    ASSUME Inv, ZoneTypeOK', NEW j \in Requests, NEW step \in Steps \ Delicate, GoesTo(j, step),
           zone'.id = zone.id, zone'.family = zone.family,
           \/ zone.state \in Usable /\ zone'.state \in Usable \cup Unready
           \/ zone.state \in Unready /\ zone'.state \in Unready,
           UNCHANGED <<data, overlapped>>
    PROVE  Inv'
<1>1. \A k \in Requests : \/ job'[k].step = job[k].step /\ job'[k].family = job[k].family
                          \/ job'[k].step \notin Delicate
    BY Moves DEF Inv
<1>2. Calm
    BY <1>1 DEF Calm, Usable, Unready
<1> QED
    BY <1>2, CalmKeepsInv

LEMMA InitInv == ZoneInit => Inv
<1> SUFFICES ASSUME ZoneInit PROVE Inv
    OBVIOUS
<1>1. zone.state = "absent"
    BY NoZoneType DEF ZoneInit
<1>2. \A j \in Requests : job[j].step = "idle"
    BY DEF ZoneInit, NoJob
<1> QED
    BY <1>1, <1>2, ZoneInitTypeOK DEF Inv, Alone, InstalledHasData, Making, At

LEMMA RequestInv ==
    ASSUME Inv, ZoneTypeOK', NEW j \in Requests, Request(j)
    PROVE  Inv'
<1>1. UNCHANGED <<zone, data, overlapped>>
    BY DEF Request, Create, Change, Delete, Accept, Counters
<1>2. ASSUME NEW op, NEW family, NEW target, NEW flag, NEW step,
             step \notin Delicate, Accept(j, op, family, target, flag, step)
      PROVE  \A k \in Requests : \/ job'[k].step = job[k].step /\ job'[k].family = job[k].family
                                 \/ job'[k].step \notin Delicate
    BY <1>2 DEF Accept, Inv, ZoneTypeOK
<1>3. \A k \in Requests : \/ job'[k].step = job[k].step /\ job'[k].family = job[k].family
                          \/ job'[k].step \notin Delicate
  <2>1. "named" \notin Delicate /\ "look" \notin Delicate
      BY DEF Delicate
  <2>2. \A op \in DOMAIN FirstStep : FirstStep[op] \notin Delicate
      BY DEF Delicate, FirstStep
  <2> QED
      BY <1>2, <2>1, <2>2 DEF Request, Create, Change, Delete
<1>4. Calm
    BY <1>1, <1>3 DEF Calm
<1> QED
    BY <1>4, CalmKeepsInv

-----------------------------------------------------------------------------
(* The steps that make a zone or touch its data.                           *)

\* A zone is made when there is none; if another job is under way, it is not alone.
LEMMA ConfigureInv ==
    ASSUME Inv, ZoneTypeOK', NEW j \in Requests, Configure(j)
    PROVE  Inv'
<1>1. zone'.state = "configured" /\ zone'.id = j /\ zone'.family = job[j].family
    BY DEF Configure
<1>2. InstalledHasData'
    BY <1>1 DEF InstalledHasData
<1>3. /\ job'[j].step \in {"dataset", "failed"} /\ job'[j].family = job[j].family
      /\ \A k \in Requests : k # j => job'[k] = job[k]
    BY Moves DEF Configure, Obeyed, Steps, Underway, Over, Inv
<1>4. ASSUME ~overlapped'
      PROVE  Alone'
  <2>1. \A k \in Requests : k # j => job'[k].step \notin Underway
      BY <1>3, <1>4 DEF Configure
  <2>2. \A k \in Requests : Making(k)' => k = j
      BY <2>1 DEF Making, Underway
  <2>3. \A k \in Requests : job'[k].step \notin {"install", "undo", "purge"}
      BY <1>3, <2>1 DEF Underway
  <2> QED
      BY <1>1, <1>3, <2>2, <2>3 DEF Alone, At
<1> QED
    BY <1>2, <1>4 DEF Inv

\* Its data is made when there is none at the place.
LEMMA MakeDataInv ==
    ASSUME Inv, ZoneTypeOK', NEW j \in Requests, MakeData(j)
    PROVE  Inv'
<1>1. /\ job'[j].step = "install" /\ job'[j].family = job[j].family
      /\ \A k \in Requests : k # j => job'[k] = job[k]
    BY Moves DEF MakeData, Obeyed, Steps, Underway, Inv
<1>2. Making(j)
    BY DEF MakeData, Obeyed, At, Making
<1>3. zone' = zone /\ overlapped' = overlapped /\ data'[job[j].family] = j
  <2>1. job[j].family \in Families
      BY DEF Inv, ZoneTypeOK, JobRecords
  <2> QED
      BY <2>1 DEF MakeData, Counters, Inv, ZoneTypeOK
<1>4. CASE ~overlapped
  <2>1. Alone
      BY <1>4 DEF Inv
  <2>2. \A k \in Requests : Making(k)' => k = j
      BY <1>1, <1>2, <2>1 DEF Alone, Making
  <2>3. zone.state # "absent" =>
           /\ zone.id = j /\ zone.family = job[j].family
           /\ zone.state \in {"configured", "incomplete"}
      BY <1>2, <2>1 DEF Alone
  <2>4. \A k \in Requests : At(k, "purge")' => zone'.state = "absent"
      BY <1>1, <1>3, <2>1 DEF Alone, At
  <2>5. \A k \in Requests : job'[k].family = "zone" /\ job'[k].step \in {"install", "undo"}
                            => data'["zone"] \in {k, Nobody}
      BY <1>1, <1>3, <2>2 DEF Making
  <2>6. Alone'
      BY <1>1, <1>3, <2>2, <2>3, <2>4, <2>5 DEF Alone
  <2>7. InstalledHasData'
      BY <1>3, <2>3 DEF InstalledHasData
  <2> QED
      BY <2>6, <2>7 DEF Inv
<1>5. CASE overlapped
    BY <1>3, <1>5 DEF Inv, InstalledHasData
<1> QED
    BY <1>4, <1>5

\* The zone that is installed is the job's, and so is the data.
LEMMA InstallInv ==
    ASSUME Inv, ZoneTypeOK', NEW j \in Requests, Install(j)
    PROVE  Inv'
<1>1. /\ job'[j].step \in {"boot", "done"}
      /\ \A k \in Requests : k # j => job'[k] = job[k]
    BY Moves DEF Install, Obeyed, Steps, Underway, Over, Inv
<1>2. At(j, "install") /\ Making(j) /\ zone.state # "absent"
    BY DEF Install, Obeyed, Refused, Needs, At, Making
<1>3. /\ zone'.state = "installed" /\ zone'.id = zone.id /\ zone'.family = zone.family
      /\ data' = data /\ overlapped' = overlapped
    BY <1>2, Becomes DEF Install, Counters, Inv, States
<1>4. CASE ~overlapped
  <2>1. Alone
      BY <1>4 DEF Inv
  <2>2. \A k \in Requests : ~Making(k)'
      BY <1>1, <1>2, <2>1 DEF Alone, Making
  <2>3. \A k \in Requests : ~At(k, "purge")'
      BY <1>1, <1>2, <2>1 DEF Alone, At
  <2>4. Alone'
      BY <2>2, <2>3 DEF Alone, Making
  <2>5. data[zone.family] = zone.id
      BY <1>2, <2>1 DEF Alone
  <2> QED
      BY <1>3, <2>4, <2>5 DEF Inv, InstalledHasData
<1>5. CASE overlapped
    BY <1>3, <1>5 DEF Inv, InstalledHasData
<1> QED
    BY <1>4, <1>5

\* While a job removes what it made, no zone is usable.
LEMMA UndoInv ==
    ASSUME Inv, ZoneTypeOK', NEW j \in Requests, Undo(j)
    PROVE  Inv'
<1>1. /\ job'[j].step = "failed"
      /\ \A k \in Requests : k # j => job'[k] = job[k]
    BY Moves DEF Undo, Steps, Over, Inv
<1>2. Making(j)
    BY DEF Undo, At, Making
<1>3. zone' = zone /\ overlapped' = overlapped
    BY DEF Undo, Counters
<1>4. CASE ~overlapped
  <2>1. Alone
      BY <1>4 DEF Inv
  <2>2. \A k \in Requests : ~Making(k)'
      BY <1>1, <1>2, <2>1 DEF Alone, Making
  <2>3. \A k \in Requests : At(k, "purge")' => zone'.state = "absent"
      BY <1>1, <1>3, <2>1 DEF Alone, At
  <2>4. Alone'
      BY <2>2, <2>3 DEF Alone, Making
  <2>5. zone.state \notin Usable
      BY <1>2, <2>1 DEF Alone, Usable
  <2> QED
      BY <1>3, <2>4, <2>5 DEF Inv, InstalledHasData, Usable
<1>5. CASE overlapped
    BY <1>3, <1>5 DEF Inv, InstalledHasData
<1> QED
    BY <1>4, <1>5

\* A purge comes after the zone has gone.
LEMMA PurgeInv ==
    ASSUME Inv, ZoneTypeOK', NEW j \in Requests, Purge(j)
    PROVE  Inv'
<1>1. /\ job'[j].step = "done"
      /\ \A k \in Requests : k # j => job'[k] = job[k]
    BY Moves DEF Purge, Steps, Over, Inv
<1>2. zone' = zone /\ overlapped' = overlapped
    BY DEF Purge, Counters
<1>3. data'["zone"] \in {data["zone"], Nobody}
    BY DEF Purge, Inv, ZoneTypeOK, Families
<1>4. CASE ~overlapped
  <2>1. Alone
      BY <1>4 DEF Inv
  <2>2. zone'.state = "absent"
      BY <1>2, <2>1 DEF Alone, Purge
  <2>3. \A k \in Requests : Making(k)' => Making(k)
      BY <1>1 DEF Making
  <2>4. \A k, l \in Requests : Making(k)' /\ Making(l)' => k = l
      BY <2>1, <2>3 DEF Alone
  <2>5. \A k \in Requests : job'[k].family = "zone" /\ job'[k].step \in {"install", "undo"}
                            => data'["zone"] \in {k, Nobody}
      BY <1>1, <1>3, <2>1 DEF Alone
  <2>6. Alone'
      BY <2>2, <2>4, <2>5 DEF Alone
  <2> QED
      BY <2>2, <2>6 DEF Inv, InstalledHasData
<1>5. CASE overlapped
    BY <1>2, <1>5 DEF Inv, InstalledHasData
<1> QED
    BY <1>4, <1>5

-----------------------------------------------------------------------------
(* Failures.                                                               *)

\* What the zone is after a failure: as it was, or incomplete by a failed install.
LEMMA FailZone ==
    ASSUME ZoneTypeOK, NEW j \in Requests, Fail(j)
    PROVE  /\ zone'.id = zone.id /\ zone'.family = zone.family
           /\ \/ zone' = zone
              \/ zone.state = "configured" /\ zone'.state = "incomplete"
           /\ UNCHANGED <<data, overlapped>>
<1>1. CASE UNCHANGED zone
    BY <1>1 DEF Fail
<1>2. CASE zone.state = "configured" /\ Become("incomplete")
    BY <1>2, Becomes DEF Fail, States
<1> QED
    BY <1>1, <1>2 DEF Fail

LEMMA FailInv ==
    ASSUME Inv, ZoneTypeOK', NEW j \in Requests, Fail(j)
    PROVE  Inv'
<1>1. /\ zone'.id = zone.id /\ zone'.family = zone.family
      /\ \/ zone' = zone
         \/ zone.state = "configured" /\ zone'.state = "incomplete"
      /\ UNCHANGED <<data, overlapped>>
    BY FailZone DEF Inv
<1>2. OnFailure(j) \in Steps /\ GoesTo(j, OnFailure(j))
    BY DEF Fail, OnFailure, Steps, Underway, Over
<1>3. /\ job'[j].step = OnFailure(j)
      /\ \A k \in Requests : k # j => job'[k] = job[k]
      /\ \A k \in Requests : job'[k].family = job[k].family
    BY <1>2, Moves DEF Inv
<1>4. CASE OnFailure(j) # "undo"
  <2>1. OnFailure(j) \notin Delicate
      BY <1>4 DEF OnFailure, Delicate
  <2>2. Calm
      BY <1>1, <1>3, <2>1 DEF Calm, Usable, Unready
  <2> QED
      BY <2>2, CalmKeepsInv
<1>5. CASE OnFailure(j) = "undo"
  <2>1. Making(j) /\ (At(j, "install") \/ job[j].family = "vm")
      BY <1>5 DEF OnFailure, Making, At
  <2>2. CASE ~overlapped
    <3>1. Alone
        BY <2>2 DEF Inv
    <3>2. \A k \in Requests : Making(k)' => k = j
        BY <1>3, <2>1, <3>1 DEF Alone, Making
    <3>3. zone'.state # "absent" =>
             /\ zone'.id = j /\ zone'.family = job'[j].family
             /\ zone'.state \in {"configured", "incomplete"}
        BY <1>1, <1>3, <2>1, <3>1 DEF Alone
    <3>4. \A k \in Requests : At(k, "purge")' => zone'.state = "absent"
        BY <1>1, <1>3, <1>5, <3>1 DEF Alone, At
    <3>5. \A k \in Requests : job'[k].family = "zone" /\ job'[k].step \in {"install", "undo"}
                              => data'["zone"] \in {k, Nobody}
        BY <1>1, <1>3, <2>1, <3>1 DEF Alone, At
    <3>6. Alone'
        BY <1>3, <1>5, <3>2, <3>3, <3>4, <3>5 DEF Alone, At
    <3>7. zone'.state \notin Usable
        BY <3>3 DEF Usable
    <3> QED
        BY <3>6, <3>7 DEF Inv, InstalledHasData, Usable
  <2>3. CASE overlapped
      BY <1>1, <2>3 DEF Inv, InstalledHasData
  <2> QED
      BY <2>2, <2>3
<1> QED
    BY <1>4, <1>5

\* When the daemon dies, every job under way is lost, and an install may stop half way.
LEMMA CrashInv ==
    ASSUME Inv, ZoneTypeOK', ZoneCrash
    PROVE  Inv'
<1>1. /\ zone'.id = zone.id /\ zone'.family = zone.family
      /\ \/ zone' = zone
         \/ zone.state = "configured" /\ zone'.state = "incomplete"
  <2>1. CASE UNCHANGED zone
      BY <2>1
  <2>2. CASE zone.state = "configured" /\ Become("incomplete")
      BY <2>2, Becomes DEF Inv, States
  <2> QED
      BY <2>1, <2>2 DEF ZoneCrash
<1>2. \A k \in Requests : job'[k] = job[k] \/ job'[k].step = "lost"
    BY DEF ZoneCrash, Inv, ZoneTypeOK, JobRecords
<1>3. Calm
    BY <1>1, <1>2 DEF Calm, ZoneCrash, Delicate, Usable, Unready
<1> QED
    BY <1>3, CalmKeepsInv

-----------------------------------------------------------------------------
(* Every step.                                                             *)

LEMMA NextInv == Inv /\ [ZoneNext]_zoneVars => Inv'
<1> SUFFICES ASSUME Inv, [ZoneNext]_zoneVars PROVE Inv'
    OBVIOUS
<1>0. ZoneTypeOK /\ ZoneTypeOK'
    BY ZoneNextTypeOK DEF Inv
<1>1. ASSUME NEW j \in Requests, Request(j) PROVE Inv'
    BY <1>0, <1>1, RequestInv
<1>2. ASSUME NEW j \in Requests, JobStep(j) PROVE Inv'
  <2>1. CASE Configure(j)
      BY <1>0, <2>1, ConfigureInv
  <2>2. CASE MakeData(j)
      BY <1>0, <2>2, MakeDataInv
  <2>3. CASE Install(j)
      BY <1>0, <2>3, InstallInv
  <2>4. CASE Undo(j)
      BY <1>0, <2>4, UndoInv
  <2>5. CASE Purge(j)
      BY <1>0, <2>5, PurgeInv
  <2>6. CASE Fail(j)
      BY <1>0, <2>6, FailInv
  <2>7. CASE Boot(j) \/ Halt(j) \/ Uninstall(j)
    <3>1. zone.state \in Usable \cup Unready
        BY <1>0, <2>7 DEF Boot, Halt, Uninstall, Obeyed, Refused, Needs, At,
                          Usable, Unready
    <3>2. PICK step \in Steps \ Delicate : GoesTo(j, step)
        BY <2>7 DEF Boot, Halt, Uninstall, Obeyed, Steps, Underway, Waits, Delicate
    <3>3. zone'.id = zone.id /\ zone'.family = zone.family
        BY <1>0, <2>7, <3>1, Becomes DEF Boot, Halt, Uninstall, States, Usable, Unready
    <3>4. \/ zone.state \in Usable /\ zone'.state \in Usable \cup Unready
          \/ zone.state \in Unready /\ zone'.state \in Unready
      <4>1. CASE Boot(j) \/ Halt(j)
        <5>1. zone.state \in Usable
            BY <4>1 DEF Boot, Halt, Obeyed, Refused, Needs, At, Usable
        <5>2. zone'.state \in Usable
            BY <1>0, <4>1, <5>1, Becomes DEF Boot, Halt, States, Usable
        <5> QED
            BY <5>1, <5>2
      <4>2. CASE Uninstall(j)
        <5>1. zone'.state = "configured"
            BY <1>0, <3>1, <4>2, Becomes DEF Uninstall, States, Usable, Unready
        <5> QED
            BY <3>1, <5>1 DEF Unready
      <4> QED
          BY <2>7, <4>1, <4>2
    <3>5. UNCHANGED <<data, overlapped>>
        BY <2>7 DEF Boot, Halt, Uninstall, Counters
    <3> QED
        BY <1>0, <3>2, <3>3, <3>4, <3>5, CalmBoth
  <2>8. CASE Shutdown(j)
    <3>1. zone.state = "running"
        BY <2>8 DEF Shutdown, Obeyed, Refused, Needs, At
    <3>2. PICK step \in Steps \ Delicate : GoesTo(j, step)
        BY <2>8 DEF Shutdown, Obeyed, Steps, Underway, Waits, Delicate
    <3>3. /\ zone'.id = zone.id /\ zone'.family = zone.family
          /\ zone'.state = "shutting_down"
        BY <1>0, <2>8 DEF Shutdown, ZoneTypeOK, ZoneRecords
    <3>4. UNCHANGED <<data, overlapped>>
        BY <2>8 DEF Shutdown, Counters
    <3> QED
        BY <1>0, <3>1, <3>2, <3>3, <3>4, CalmBoth DEF Usable
  <2>9. CASE Reached(j) \/ TimeOut(j) \/ Look(j) \/ Relook(j)
    <3>1. PICK step \in Steps \ Delicate : GoesTo(j, step)
        BY <2>9 DEF Reached, TimeOut, Look, Relook, Steps, Underway, Over, Delicate
    <3>2. UNCHANGED <<zone, data, overlapped>>
        BY <2>9 DEF Reached, TimeOut, Look, Relook, Counters
    <3> QED
        BY <1>0, <3>1, <3>2, CalmJob
  <2>10. CASE Unconfigure(j)
    <3>1. PICK step \in {"purge", "done"} : GoesTo(j, step)
        BY <2>10 DEF Unconfigure, Obeyed
    <3>2. zone'.state = "absent"
        BY <2>10, NoZoneType DEF Unconfigure
    <3>3. \A k \in Requests : \/ job'[k].step = job[k].step /\ job'[k].family = job[k].family
                              \/ job'[k].step \in {"purge", "done"}
        BY <1>0, <3>1, Moves DEF Steps, Underway, Over
    <3>4. Calm
        BY <2>10, <3>2, <3>3 DEF Calm, Delicate, Unconfigure, Counters
    <3> QED
        BY <1>0, <3>4, CalmKeepsInv
  <2> QED
      BY <1>2, <2>1, <2>2, <2>3, <2>4, <2>5, <2>6, <2>7, <2>8, <2>9, <2>10 DEF JobStep
<1>3. CASE List \/ Expire \/ UNCHANGED zoneVars
  <2>1. Calm
      BY <1>3 DEF List, Expire, zoneVars, Calm, Counters
  <2> QED
      BY <1>0, <2>1, CalmKeepsInv
<1>4. CASE Settle \/ PowerOff
  <2>1. /\ zone'.id = zone.id /\ zone'.family = zone.family
        /\ zone.state \in Usable /\ zone'.state \in Usable
      BY <1>0, <1>4 DEF Settle, PowerOff, Become, ZoneTypeOK, ZoneRecords, Usable
  <2>2. Calm
      BY <1>4, <2>1 DEF Settle, PowerOff, Calm, Counters, Usable, Unready
  <2> QED
      BY <1>0, <2>2, CalmKeepsInv
<1>5. CASE ZoneCrash
    BY <1>0, <1>5, CrashInv
<1> QED
    BY <1>1, <1>2, <1>3, <1>4, <1>5 DEF ZoneNext

\* A zone that is installed, running or shutting down has its own data, however
\* requests and jobs of one name meet: zonecfg and zoneadm refuse what a job may
\* not do, and a create that finds its dataset's place taken stops there.
THEOREM InstalledIsBacked == ZoneSpec => []InstalledHasData
<1>1. Inv => InstalledHasData
    BY DEF Inv
<1> QED
    BY <1>1, InitInv, NextInv, PTL DEF ZoneSpec

\* The variables keep their types, and installed zones their own data.
THEOREM DataHasOwners == ZoneSpec => []DataIsOwned
BY ZonesTyped, InstalledIsBacked, PTL DEF DataIsOwned

\* Only what makes, undoes or purges touches the data of a zone; and undo, by the
\* invariant, finds its own data or none.
LEMMA DataStep ==
    ASSUME Inv, [ZoneNext]_zoneVars
    PROVE  DataGoesByAsking("zone")
<1> SUFFICES ASSUME NEW i \in Requests, data["zone"] = i, data'["zone"] # i, ~overlapped
             PROVE  \/ At(i, "undo")
                    \/ \E j \in Requests : /\ At(j, "purge") /\ job[j].family = "zone"
                                           /\ ~(At(j, "purge"))'
    BY DEF DataGoesByAsking
<1>1. Alone /\ ZoneTypeOK /\ i # Nobody
    BY DEF Inv, Requests, Nobody
<1>2. PICK j \in Requests : MakeData(j) \/ Undo(j) \/ Purge(j)
  <2>1. data' # data
      OBVIOUS
  <2>2. ASSUME NEW j \in Requests, Request(j) PROVE FALSE
      BY <2>1, <2>2 DEF Request, Create, Change, Delete, Accept
  <2>3. ASSUME NEW j \in Requests, JobStep(j) PROVE MakeData(j) \/ Undo(j) \/ Purge(j)
      BY <2>1, <2>3 DEF JobStep, Configure, Install, Boot, Halt, Shutdown, Reached,
                        TimeOut, Look, Relook, Uninstall, Unconfigure, Fail
  <2> QED
      BY <2>1, <2>2, <2>3 DEF ZoneNext, List, Expire, Settle, PowerOff, ZoneCrash, zoneVars
<1>3. job[j].family = "zone"
    BY <1>1, <1>2 DEF MakeData, Undo, Purge, ZoneTypeOK, Families
<1>4. CASE MakeData(j)
    BY <1>1, <1>3, <1>4 DEF MakeData, Obeyed, Refused
<1>5. CASE Undo(j)
    BY <1>1, <1>3, <1>5 DEF Undo, At, Alone
<1>6. CASE Purge(j)
  <2>1. At(j, "purge") /\ job'[j].step = "done"
      BY <1>1, <1>6, Moves DEF Purge, Steps, Over
  <2> QED
      BY <1>3, <2>1 DEF At
<1> QED
    BY <1>2, <1>4, <1>5, <1>6

\* The data of a zone goes only by its own create's failing or by a delete that
\* purges, whatever is created, deleted and created again under the name.
THEOREM KeptDataOfZones == ZoneSpec => ZoneDataStays
<1>1. Inv /\ [ZoneNext]_zoneVars => [DataGoesByAsking("zone")]_zoneVars
    BY DataStep
<1> QED
    BY <1>1, InitInv, NextInv, PTL DEF ZoneSpec, ZoneDataStays
-----------------------------------------------------------------------------
(* What was purged.                                                        *)

\* The create of a zone that is or was there has got as far as making the zone.
Born(i) == job[i].step \notin {"idle", "named"}

\* The steps of a create from where it has made the data, and those of a delete.
Stocked == {"install", "undo", "boot", "running"} \cup Over
DeleteSteps == {"look", "halt", "halted", "relook", "uninstall", "unconfigure", "purge",
                "done", "failed", "lost"}

\* Zones that are there, listed or to be deleted have been made; data is where its
\* own create has put it.
Known ==
    /\ \A i \in Requests : zone.id = i \/ cache.id = i => Born(i)
    /\ \A j, i \in Requests : job[j].op = "delete" /\ job[j].target = i => Born(i)
    /\ \A j \in Requests : job[j].op = "delete" => job[j].step \in DeleteSteps
    /\ \A f \in Families, i \in Requests :
          data[f] = i => job[i].family = f /\ job[i].step \in Stocked

Purged(j) == job[j].op = "delete" /\ job[j].flag /\ At(j, "done")

\* A zone that was purged is not there; its data, if there is any, is its create's,
\* which has still to find out, or could not remove it, or died.
Gone ==
    \A j, i \in Requests : Purged(j) /\ job[j].target = i =>
       /\ zone.id # i
       /\ data[job[j].family] = i => job[i].step \in {"install", "undo", "left", "lost"}

PurgeInvariant == Inv /\ Known /\ (~overlapped => Gone)

\* How one step of a job moves it on.
LEMMA MovesOn ==
    ASSUME ZoneTypeOK, NEW j \in Requests, JobStep(j)
    PROVE  /\ \A k \in Requests : k # j => job'[k] = job[k]
           /\ \A k \in Requests : /\ job'[k].op = job[k].op /\ job'[k].family = job[k].family
                                  /\ job'[k].target = job[k].target
                                  /\ job'[k].flag = job[k].flag
           /\ job[j].step \notin {"idle"} \cup Over
           /\ job'[j].step \notin {"idle", "named"}
           /\ job[j].step \in Stocked => job'[j].step \in Stocked
           /\ job[j].op = "delete" /\ job[j].step \in DeleteSteps
                 => job'[j].step \in DeleteSteps
<1> DEFINE Legal(step) ==
        /\ job[j].step \notin {"idle"} \cup Over
        /\ step \notin {"idle", "named"}
        /\ job[j].step \in Stocked => step \in Stocked
        /\ job[j].op = "delete" /\ job[j].step \in DeleteSteps => step \in DeleteSteps
<1> USE DEF Steps, Underway, Waits, Over, Stocked, DeleteSteps, At
<1>1. CASE Configure(j) \/ MakeData(j) \/ Install(j) \/ Undo(j) \/ Boot(j)
  <2>1. CASE Configure(j)
      BY <2>1, Moves DEF Configure, Obeyed
  <2>2. CASE MakeData(j) \/ Undo(j)
      BY <2>2, Moves DEF MakeData, Undo, Obeyed
  <2>3. CASE Install(j) \/ Boot(j)
      BY <2>3, Moves DEF Install, Boot, Obeyed
  <2> QED
      BY <1>1, <2>1, <2>2, <2>3
<1>2. CASE Halt(j) \/ Shutdown(j) \/ Uninstall(j) \/ Unconfigure(j) \/ Purge(j)
    BY <1>2, Moves DEF Halt, Shutdown, Uninstall, Unconfigure, Purge, Obeyed
<1>3. CASE Reached(j) \/ TimeOut(j) \/ Look(j) \/ Relook(j)
    BY <1>3, Moves DEF Reached, TimeOut, Look, Relook
<1>4. CASE Fail(j)
    BY <1>4, Moves DEF Fail, OnFailure
<1> QED
    BY <1>1, <1>2, <1>3, <1>4 DEF JobStep

\* A job's step makes a zone only when it configures its own, and data likewise.
LEMMA MakesOwn ==
    ASSUME ZoneTypeOK, NEW j \in Requests, JobStep(j)
    PROVE  /\ zone'.id \in {zone.id, Nobody} \/ (Configure(j) /\ zone'.id = j)
           /\ cache'.id \in {cache.id, Nobody}
           /\ \A f \in Families : \/ data'[f] \in {data[f], Nobody}
                                  \/ MakeData(j) /\ f = job[j].family /\ data'[f] = j
<1>1. cache'.id \in {cache.id, Nobody}
    BY DEF JobStep, Configure, MakeData, Install, Undo, Boot, Halt, Shutdown, Reached,
           TimeOut, Look, Relook, Uninstall, Unconfigure, Purge, Fail, Unknown, NoZone
<1>2. zone'.id \in {zone.id, Nobody} \/ (Configure(j) /\ zone'.id = j)
  <2>1. ASSUME NEW state, Become(state) PROVE zone'.id = zone.id
      BY <2>1 DEF Become, ZoneTypeOK, ZoneRecords
  <2>2. CASE Shutdown(j)
      BY <2>2 DEF Shutdown, ZoneTypeOK, ZoneRecords
  <2>3. CASE Configure(j) \/ Unconfigure(j)
      BY <2>3, NoZoneType DEF Configure, Unconfigure
  <2>4. CASE Install(j) \/ Boot(j) \/ Halt(j) \/ Uninstall(j) \/ Fail(j)
      BY <2>1, <2>4 DEF Install, Boot, Halt, Uninstall, Fail
  <2> QED
      BY <2>2, <2>3, <2>4 DEF JobStep, MakeData, Undo, Reached, TimeOut, Look, Relook, Purge
<1>3. ASSUME NEW f \in Families
      PROVE  \/ data'[f] \in {data[f], Nobody}
             \/ MakeData(j) /\ f = job[j].family /\ data'[f] = j
  <2>1. CASE MakeData(j) \/ Undo(j) \/ Purge(j)
      BY <2>1 DEF MakeData, Undo, Purge, ZoneTypeOK
  <2> QED
      BY <2>1 DEF JobStep, Configure, Install, Boot, Halt, Shutdown, Reached,
                  TimeOut, Look, Relook, Uninstall, Unconfigure, Fail
<1> QED
    BY <1>1, <1>2, <1>3

LEMMA JobStepKnown ==
    ASSUME ZoneTypeOK, Known, NEW j \in Requests, JobStep(j)
    PROVE  Known'
<1>1. \A k \in Requests : k # j => job'[k] = job[k]
    BY MovesOn
<1>2. \A k \in Requests : /\ job'[k].op = job[k].op /\ job'[k].family = job[k].family
                          /\ job'[k].target = job[k].target
    BY MovesOn
<1>3. \A k \in Requests : Born(k) \/ k = j => Born(k)'
    BY <1>1, MovesOn DEF Born
<1>4. \A i \in Requests : zone'.id = i \/ cache'.id = i => Born(i)'
  <2>1. \A i \in Requests : i # Nobody
      BY DEF Requests, Nobody
  <2> QED
      BY <1>3, <2>1, MakesOwn DEF Known
<1>5. \A k, i \in Requests : job'[k].op = "delete" /\ job'[k].target = i => Born(i)'
    BY <1>2, <1>3 DEF Known
<1>6. \A k \in Requests : job'[k].op = "delete" => job'[k].step \in DeleteSteps
    BY <1>1, <1>2, MovesOn DEF Known
<1>7. ASSUME NEW f \in Families, NEW i \in Requests, data'[f] = i
      PROVE  job'[i].family = f /\ job'[i].step \in Stocked
  <2>1. i # Nobody
      BY DEF Requests, Nobody
  <2>2. CASE data'[f] = data[f]
      BY <1>1, <1>2, <1>7, <2>2, MovesOn DEF Known
  <2>3. CASE MakeData(j) /\ f = job[j].family /\ i = j
    <3>1. job'[j].step = "install"
        BY <2>3, Moves DEF MakeData, Obeyed, Steps, Underway
    <3> QED
        BY <1>2, <2>3, <3>1 DEF Stocked
  <2> QED
      BY <1>7, <2>1, <2>2, <2>3, MakesOwn
<1> QED
    BY <1>4, <1>5, <1>6, <1>7 DEF Known

LEMMA JobStepGone ==
    ASSUME Inv, Known, Gone, ~overlapped, NEW j \in Requests, JobStep(j)
    PROVE  Gone'
<1> SUFFICES ASSUME NEW k \in Requests, NEW i \in Requests, Purged(k)', job'[k].target = i
             PROVE  /\ zone'.id # i
                    /\ data'[job'[k].family] = i
                          => job'[i].step \in {"install", "undo", "left", "lost"}
    BY DEF Gone
<1>1. /\ ZoneTypeOK /\ Alone /\ i # Nobody
      /\ \A l \in Requests : l # j => job'[l] = job[l]
      /\ \A l \in Requests : /\ job'[l].op = job[l].op /\ job'[l].family = job[l].family
                             /\ job'[l].target = job[l].target /\ job'[l].flag = job[l].flag
    BY MovesOn DEF Inv, Requests, Nobody
<1>2. job[k].family \in Families
    BY <1>1 DEF ZoneTypeOK, JobRecords
<1>3. Born(i) /\ job[k].target = i /\ job[k].op = "delete" /\ job[k].flag
    BY <1>1 DEF Known, Purged
<1>4. CASE Purged(k)
  <2>1. /\ zone.id # i
        /\ data[job[k].family] = i => job[i].step \in {"install", "undo", "left", "lost"}
      BY <1>3, <1>4 DEF Gone
  <2>2. zone'.id # i
      BY <1>1, <1>3, <2>1, MakesOwn DEF Configure, Obeyed, At, Born
  <2>3. ASSUME data'[job[k].family] = i
        PROVE  job'[i].step \in {"install", "undo", "left", "lost"}
    <3>1. CASE MakeData(j) /\ i = j
        BY <1>1, <3>1, Moves DEF MakeData, Obeyed, Steps, Underway
    <3>2. CASE data[job[k].family] = i /\ i # j
        BY <1>1, <2>1, <3>2
    <3>3. CASE data[job[k].family] = i /\ i = j
      <4>1. job[j].step \in {"install", "undo"} /\ job[j].family = job[k].family
          BY <1>1, <1>2, <2>1, <3>3, MovesOn DEF Known, Over
      <4>2. ~Install(j)
        <5>1. Install(j) => zone.state # "absent" /\ Making(j)
            BY DEF Install, Obeyed, Refused, Needs, At, Making
        <5> QED
            BY <1>1, <2>1, <3>3, <5>1 DEF Alone
      <4>3. ~Undo(j)
          BY <1>1, <1>2, <2>3, <4>1 DEF Undo, ZoneTypeOK
      <4>4. Fail(j)
          BY <4>1, <4>2, <4>3 DEF JobStep, Configure, MakeData, Boot, Halt, Shutdown,
                Reached, TimeOut, Look, Relook, Uninstall, Unconfigure, Purge, Obeyed,
                At, Waits
      <4>5. OnFailure(j) \in {"undo", "left"}
          BY <1>1, <3>3, <4>1 DEF OnFailure, At
      <4> QED
          BY <1>1, <3>3, <4>4, <4>5, Moves DEF Fail, Steps, Underway, Over
    <3> QED
        BY <1>1, <1>2, <2>3, <3>1, <3>2, <3>3, MakesOwn
  <2> QED
      BY <1>1, <2>2, <2>3
<1>5. CASE ~Purged(k)
  <2>1. k = j /\ job'[j].step = "done"
      BY <1>1, <1>5 DEF Purged, At
  <2>2. Purge(j)
    <3>1. job[j].step \in DeleteSteps
        BY <1>3, <2>1 DEF Known
    <3>2. ~(Reached(j) \/ TimeOut(j) \/ Look(j) \/ Relook(j))
        BY <1>1, <2>1, <3>1, Moves DEF Reached, TimeOut, Look, Relook, DeleteSteps,
             Waits, At, Steps, Underway, Over
    <3>3. ~(Halt(j) \/ Uninstall(j) \/ Unconfigure(j) \/ Shutdown(j))
        BY <1>1, <1>3, <2>1, <3>1, Moves DEF Halt, Uninstall, Unconfigure, Shutdown,
             Obeyed, DeleteSteps, At, Steps, Underway, Over, Waits
    <3>4. ~Fail(j)
        BY <1>1, <2>1, Moves DEF Fail, OnFailure, Steps, Underway, Over
    <3> QED
        BY <3>1, <3>2, <3>3, <3>4 DEF JobStep, Configure, MakeData, Install, Undo, Boot,
             Obeyed, At, DeleteSteps
  <2>3. zone'.id = Nobody
      BY <1>1, <2>2 DEF Purge, Alone, ZoneTypeOK
  <2>4. data'[job[k].family] = Nobody
      BY <1>1, <1>2, <2>1, <2>2 DEF Purge, ZoneTypeOK
  <2> QED
      BY <1>1, <2>3, <2>4
<1> QED
    BY <1>4, <1>5

\* A request finds a zone that was made, and does nothing to one that is done.
LEMMA RequestKnown ==
    ASSUME ZoneTypeOK, Known, NEW j \in Requests, Request(j)
    PROVE  Known' /\ (Gone => Gone')
<1>1. PICK op \in Ops, family \in Families, target \in Requests \cup {Nobody},
           flag \in BOOLEAN, step \in Steps :
         /\ Accept(j, op, family, target, flag, step)
         /\ op = "delete" => target = Listing.id /\ step = "look"
         /\ step \notin Over
  <2>1. Listing.family \in Families /\ Listing.id \in Requests \cup {Nobody}
      BY ListingType DEF ZoneRecords
  <2>2. CASE \E family \in Families, boot \in BOOLEAN : Create(j, family, boot)
      BY <2>2 DEF Create, Ops, Steps, Over
  <2>3. CASE \E op \in DOMAIN FirstStep : Change(j, op)
    <3>1. PICK op \in DOMAIN FirstStep : Change(j, op)
        BY <2>3
    <3>2. op \in Ops \ {"delete"} /\ FirstStep[op] \in Steps \ Over
        BY DEF FirstStep, Ops, Steps, Underway, Over
    <3> QED
        BY <2>1, <3>1, <3>2 DEF Change
  <2>4. CASE \E purge \in BOOLEAN : Delete(j, purge)
      BY <2>1, <2>4 DEF Delete, Ops, Steps, Underway, Over
  <2> QED
      BY <2>2, <2>3, <2>4 DEF Request
<1>2. /\ At(j, "idle") /\ zone' = zone /\ data' = data /\ cache' = Listing
      /\ job'[j] = [op |-> op, family |-> family, target |-> target, flag |-> flag,
                    step |-> step]
      /\ \A k \in Requests : k # j => job'[k] = job[k]
    BY <1>1 DEF Accept, ZoneTypeOK
<1>3. \A k \in Requests : Born(k) => k # j /\ Born(k)'
    BY <1>2 DEF Born, At
<1>4. \A i \in Requests : Listing.id = i => Born(i)
    BY DEF Listing, Known
<1>5. \A f \in Families, i \in Requests : data[f] = i => i # j
    BY <1>2 DEF Known, Stocked, Over, At
<1>6. Known'
  <2>1. \A i \in Requests : zone'.id = i \/ cache'.id = i => Born(i)'
      BY <1>2, <1>3, <1>4 DEF Known
  <2>2. \A k, i \in Requests : job'[k].op = "delete" /\ job'[k].target = i => Born(i)'
      BY <1>1, <1>2, <1>3, <1>4 DEF Known
  <2>3. \A k \in Requests : job'[k].op = "delete" => job'[k].step \in DeleteSteps
      BY <1>1, <1>2 DEF Known, DeleteSteps
  <2>4. \A f \in Families, i \in Requests :
            data'[f] = i => job'[i].family = f /\ job'[i].step \in Stocked
      BY <1>2, <1>5 DEF Known
  <2> QED
      BY <2>1, <2>2, <2>3, <2>4 DEF Known
<1>7. ASSUME Gone, NEW k \in Requests, NEW i \in Requests, Purged(k)', job'[k].target = i
      PROVE  /\ zone'.id # i
             /\ data'[job'[k].family] = i
                   => job'[i].step \in {"install", "undo", "left", "lost"}
  <2>1. k # j
      BY <1>1, <1>2, <1>7 DEF Purged, At, Over
  <2>2. Purged(k) /\ job[k].target = i
      BY <1>2, <1>7, <2>1 DEF Purged, At
  <2>3. i # j
      BY <1>3, <2>2 DEF Known, Purged
  <2> QED
      BY <1>2, <1>7, <2>1, <2>2, <2>3 DEF Gone
<1> QED
    BY <1>6, <1>7 DEF Gone

\* Nor do the guest, the host and a daemon that dies.
LEMMA OthersKnown ==
    ASSUME ZoneTypeOK, Known,
           List \/ Expire \/ Settle \/ PowerOff \/ ZoneCrash \/ UNCHANGED zoneVars
    PROVE  Known' /\ (Gone => Gone')
<1>1. zone'.id = zone.id /\ data' = data
  <2>1. ASSUME NEW state, Become(state) PROVE zone'.id = zone.id
      BY <2>1 DEF Become, ZoneTypeOK, ZoneRecords
  <2> QED
      BY <2>1 DEF List, Expire, Settle, PowerOff, ZoneCrash, zoneVars
<1>2. cache'.id \in {zone.id, cache.id, Nobody}
    BY DEF List, Expire, Settle, PowerOff, ZoneCrash, zoneVars, Unknown, NoZone
<1>3. \A k \in Requests : \/ job'[k] = job[k]
                          \/ /\ job'[k].op = job[k].op /\ job'[k].family = job[k].family
                             /\ job'[k].target = job[k].target /\ job'[k].step = "lost"
                             /\ job[k].step \in {"named"} \cup Underway
    BY DEF List, Expire, Settle, PowerOff, ZoneCrash, zoneVars, ZoneTypeOK, JobRecords
<1>4. \A i \in Requests : i # Nobody /\ (Born(i) => Born(i)')
    BY <1>3 DEF Born, Requests, Nobody
<1>5. Known'
  <2>1. \A i \in Requests : zone'.id = i \/ cache'.id = i => Born(i)'
      BY <1>1, <1>2, <1>4 DEF Known
  <2>2. \A k, i \in Requests : job'[k].op = "delete" /\ job'[k].target = i => Born(i)'
      BY <1>3, <1>4 DEF Known
  <2>3. \A k \in Requests : job'[k].op = "delete" => job'[k].step \in DeleteSteps
      BY <1>3 DEF Known, DeleteSteps
  <2>4. \A f \in Families, i \in Requests :
            data'[f] = i => job'[i].family = f /\ job'[i].step \in Stocked
      BY <1>1, <1>3 DEF Known, Stocked, Over
  <2> QED
      BY <2>1, <2>2, <2>3, <2>4 DEF Known
<1>6. \A k \in Requests : Purged(k)' => Purged(k) /\ job'[k] = job[k]
    BY <1>3 DEF Purged, At
<1>7. \A i \in Requests : job[i].step \in {"install", "undo", "left", "lost"}
                          => job'[i].step \in {"install", "undo", "left", "lost"}
    BY <1>3
<1> QED
    BY <1>1, <1>5, <1>6, <1>7 DEF Gone

LEMMA InitKnown == ZoneInit => PurgeInvariant
<1> SUFFICES ASSUME ZoneInit PROVE Known /\ Gone
    BY InitInv DEF PurgeInvariant
<1>1. \A j \in Requests : job[j] = NoJob /\ j # Nobody
    BY DEF ZoneInit, Requests, Nobody
<1>2. zone.id = Nobody /\ cache.id = Nobody /\ \A f \in Families : data[f] = Nobody
    BY DEF ZoneInit, Unknown, NoZone
<1> QED
    BY <1>1, <1>2 DEF Known, Gone, Purged, NoJob

LEMMA NextKnown == PurgeInvariant /\ [ZoneNext]_zoneVars => PurgeInvariant'
<1> SUFFICES ASSUME PurgeInvariant, [ZoneNext]_zoneVars PROVE Known' /\ (~overlapped' => Gone')
    BY NextInv DEF PurgeInvariant
<1>1. ZoneTypeOK /\ Inv /\ Known /\ (~overlapped => Gone)
    BY DEF PurgeInvariant, Inv
<1>2. overlapped => overlapped'
  <2>1. ASSUME NEW j \in Requests, Request(j) PROVE overlapped' = overlapped
      BY <2>1 DEF Request, Create, Change, Delete, Accept, Counters
  <2>2. ASSUME NEW j \in Requests, JobStep(j), overlapped PROVE overlapped'
      BY <2>2 DEF JobStep, Configure, MakeData, Install, Undo, Boot, Halt, Shutdown,
             Reached, TimeOut, Look, Relook, Uninstall, Unconfigure, Purge, Fail, Counters
  <2> QED
      BY <2>1, <2>2 DEF ZoneNext, List, Expire, Settle, PowerOff, ZoneCrash, zoneVars, Counters
<1>3. ASSUME NEW j \in Requests, Request(j) PROVE Known' /\ (~overlapped' => Gone')
    BY <1>1, <1>2, <1>3, RequestKnown
<1>4. ASSUME NEW j \in Requests, JobStep(j) PROVE Known' /\ (~overlapped' => Gone')
    BY <1>1, <1>2, <1>4, JobStepKnown, JobStepGone
<1>5. CASE List \/ Expire \/ Settle \/ PowerOff \/ ZoneCrash \/ UNCHANGED zoneVars
    BY <1>1, <1>2, <1>5, OthersKnown
<1> QED
    BY <1>3, <1>4, <1>5 DEF ZoneNext

\* What a delete with purge removed is gone for good once the zone's create is over
\* too, even if the delete overtook the create and the create made the data after
\* the purge: the create finds its zone gone, fails and removes what it made; only
\* if that fails or the daemon dies does the data remain.
THEOREM PurgedStaysGone == ZoneSpec => []PurgedIsGone
<1>1. PurgeInvariant => PurgedIsGone
    BY DEF PurgeInvariant, Gone, Purged, PurgedIsGone
<1> QED
    BY <1>1, InitKnown, NextKnown, PTL DEF ZoneSpec
=============================================================================
