------------------------ MODULE EffectJournalProofs ------------------------
(***************************************************************************)
(* The effect journal for every value of the constants, in three parts:    *)
(* its types, at-most-once execution (which makes it an implementation of  *)
(* EffectOnce), and what the records of a run say.                         *)
(***************************************************************************)
EXTENDS EffectJournal, FiniteSetTheorems, TLAPS

-----------------------------------------------------------------------------
(***************************************************************************)
(* Type correctness of EffectJournal, for every value of its constants.    *)
(*                                                                         *)
(* TypeOK is a conjunction of six parts (journal, rows, loops, works,      *)
(* recon, world), and each action touches one or two of them. The lemma of *)
(* an action first disposes of the parts it leaves alone, then takes the   *)
(* others one by one.                                                      *)
(***************************************************************************)

(***************************************************************************)
(* The operators the actions are built from.                               *)
(***************************************************************************)

\* The instance a thread holds before it loads one is well-formed.
LEMMA NoInstanceType == NoInstance \in Instances
BY DEF NoInstance, Instances, InstanceStates, NodeStates

\* Changing the status of an instance leaves it well-formed.
LEMMA WithStatusType ==
    ASSUME NEW i \in Instances, NEW s \in InstanceStates
    PROVE  /\ [i EXCEPT !.status = s] \in Instances
           /\ i.status \in InstanceStates /\ i.nodes \in [Nodes -> NodeStates]
BY DEF Instances

\* Changing the payload of a node, with or without the status, leaves an
\* instance well-formed.
LEMMA WithNodeType ==
    ASSUME NEW i \in Instances, NEW k \in Nodes, NEW c \in NodeStates,
           NEW s \in InstanceStates
    PROVE  /\ [i EXCEPT !.nodes[k] = c] \in Instances
           /\ [status |-> s, nodes |-> [i.nodes EXCEPT ![k] = c]] \in Instances
BY DEF Instances

\* A thread of execute_workflow moves to a step that exists.
LEMMA GotoType ==
    ASSUME TypeLoops, NEW t \in Threads, NEW s \in LoopSteps, Goto(t, s)
    PROVE  pc' \in [Threads -> LoopSteps]
BY DEF TypeLoops, Goto

\* Threads that return or die leave well-formed local state behind.
LEMMA LeaveType ==
    ASSUME TypeLoops, NEW S, Leave(S)
    PROVE  TypeLoops'
<1>1. /\ "idle" \in LoopSteps /\ "other" \in NodeStates /\ 1 \in Nodes
  BY NodeCountAssumption DEF LoopSteps, NodeStates, Nodes
<1>2. pc' \in [Threads -> LoopSteps] /\ at' \in [Threads -> Nodes]
  BY <1>1 DEF TypeLoops, Leave
<1>3. on' \in [Threads -> Workers \cup {NULL}] /\ code' \in [Threads -> NodeStates]
  BY <1>1 DEF TypeLoops, Leave
<1>4. mem' \in [Threads -> Instances]
  BY NoInstanceType DEF TypeLoops, Leave
<1>5. nextRun' \in [Threads -> BOOLEAN]
  BY DEF TypeLoops, Leave
<1> QED
  BY <1>2, <1>3, <1>4, <1>5 DEF TypeLoops

\* Workers that end leave well-formed local state behind.
LEMMA ExitType ==
    ASSUME TypeWorks, NEW S, Exit(S)
    PROVE  TypeWorks'
<1>1. /\ "free" \in WorkSteps /\ "other" \in NodeStates /\ 1 \in Nodes
  BY NodeCountAssumption DEF WorkSteps, NodeStates, Nodes
<1>2. wpc' \in [Workers -> WorkSteps] /\ node' \in [Workers -> Nodes]
  BY <1>1 DEF TypeWorks, Exit
<1>3. inserted' \in [Workers -> BOOLEAN]
  BY DEF TypeWorks, Exit
<1>4. /\ seen' \in [Workers -> Nat] /\ result' \in [Workers -> Nat]
      /\ outcome' \in [Workers -> NodeStates]
  BY <1>1 DEF TypeWorks, Exit, NULL
<1> QED
  BY <1>2, <1>3, <1>4 DEF TypeWorks

\* A worker that sends its result to its loop keeps the types of its locals.
LEMMA ReportType ==
    ASSUME TypeWorks, NEW w \in Workers, NEW o \in NodeStates, Report(w, o)
    PROVE  /\ wpc' \in [Workers -> WorkSteps] /\ result' \in [Workers -> Nat]
           /\ outcome' \in [Workers -> NodeStates]
BY DEF TypeWorks, Report, WorkTo, WorkSteps, NULL

\* A worker that turns to halt_for_effect_verification keeps its types.
LEMMA HaltType ==
    ASSUME TypeWorks, NEW w \in Workers, Halt(w)
    PROVE  wpc' \in [Workers -> WorkSteps] /\ result' \in [Workers -> Nat]
BY DEF TypeWorks, Halt, WorkTo, WorkSteps, NULL

\* A worker moves to a step that exists.
LEMMA WorkToType ==
    ASSUME TypeWorks, NEW w \in Workers, NEW s \in WorkSteps, WorkTo(w, s)
    PROVE  wpc' \in [Workers -> WorkSteps]
BY DEF TypeWorks, WorkTo

\* Writing a well-formed instance and moving on preserves TypeOK: the common
\* shape of the checkpoints of execute_workflow.
LEMMA CheckpointType ==
    ASSUME TypeOK, NEW t \in Threads, NEW i \in Instances, NEW s \in LoopSteps,
           Checkpoint(t, i), Goto(t, s)
    PROVE  TypeOK'
<1> USE DEF TypeOK
<1>1. TypeJournal' /\ TypeWorks' /\ TypeRecon' /\ TypeWorld'
  BY DEF Checkpoint, TypeJournal, TypeWorks, TypeRecon, TypeWorld, journal, works, world, bounds
<1>2. TypeRows'
  BY DEF Checkpoint, TypeRows
<1>3. TypeLoops'
  BY GotoType DEF Checkpoint, TypeLoops
<1> QED
  BY <1>1, <1>2, <1>3

\* An UPDATE of the task row keeps the types of the rows.
LEMMA WriteTaskType ==
    ASSUME NEW s \in InstanceStates, WriteTask(s)
    PROVE  task' \in [state : TaskStates, recovery : {"reconciled", "recoverable"}]
BY DEF WriteTask, CanonicalState, TaskStates, InstanceStates

\* A step inside reconcile_all keeps the types of its locals.
LEMMA ReconToType ==
    ASSUME TypeRecon, NEW c \in Callers, NEW s \in ReconSteps,
           NEW i \in InstanceStates, ReconTo(c, s, i)
    PROVE  TypeRecon'
BY DEF TypeRecon, ReconTo

\* Nobody inside reconcile_all is a well-formed state of it.
LEMMA NoReconType ==
    ASSUME TypeRecon, NEW c \in Callers, recon' = [recon EXCEPT ![c] = NoRecon]
    PROVE  TypeRecon'
BY DEF TypeRecon, NoRecon, ReconSteps, InstanceStates

\* Appending a well-formed event keeps the log well-formed.
LEMMA AppendType ==
    ASSUME TypeRows, NEW e \in Events, log' = Append(log, e)
    PROVE  log' \in Seq(Events)
BY DEF TypeRows
(***************************************************************************)
(* One lemma per action.                                                   *)
(***************************************************************************)

\* BeginRun preserves TypeOK.
LEMMA BeginRunType ==
    ASSUME TypeOK, BeginRun
    PROVE  TypeOK'
<1> USE DEF TypeOK
<1>1. TypeJournal' /\ TypeWorks' /\ TypeRecon'
  BY DEF BeginRun, TypeJournal, TypeWorks, TypeRecon, journal, works
<1>2. TypeRows'
  <2>1. inst' \in Instances
    BY DEF BeginRun, TypeRows, Instances, InstanceStates
  <2>2. sched' \in [due : BOOLEAN, claimed : BOOLEAN, last : BOOLEAN]
    BY ScheduledAssumption DEF BeginRun, TypeRows
  <2> QED
    BY <2>1, <2>2 DEF BeginRun, TypeRows, TaskStates
<1>3. TypeLoops'
  <2>1. inst' \in Instances
    BY DEF BeginRun, TypeRows, Instances, InstanceStates
  <2>2. pc' \in [Threads -> LoopSteps]
    BY GotoType DEF BeginRun, LoopSteps, Threads
  <2> QED
    BY <2>1, <2>2 DEF BeginRun, TypeLoops, Threads
<1>4. TypeWorld'
  BY DEF BeginRun, TypeWorld, world, bounds
<1> QED
  BY <1>1, <1>2, <1>3, <1>4

\* RetryRun preserves TypeOK.
LEMMA RetryRunType ==
    ASSUME TypeOK, RetryRun
    PROVE  TypeOK'
<1> USE DEF TypeOK
<1>1. TypeJournal' /\ TypeWorks' /\ TypeRecon'
  BY DEF RetryRun, TypeJournal, TypeWorks, TypeRecon, journal, works
<1>2. TypeRows'
  BY DEF TypeRows, TaskStates, RetryRun
<1>3. TypeLoops'
  BY DEF TypeLoops, LoopSteps, TypeRows, RetryRun, Goto
<1>4. TypeWorld'
  BY DEF TypeWorld, RetryRun, world
<1> QED
  BY <1>1, <1>2, <1>3, <1>4

\* OtherRun preserves TypeOK.
LEMMA OtherRunType ==
    ASSUME TypeOK, OtherRun
    PROVE  TypeOK'
<1> USE DEF TypeOK
<1>1. TypeJournal' /\ TypeLoops' /\ TypeWorks' /\ TypeRecon' /\ TypeWorld'
  BY DEF OtherRun, TypeJournal, TypeLoops, TypeWorks, TypeRecon, TypeWorld,
     journal, loops, works, world, bounds
<1>2. TypeRows'
  <2>1. PICK last \in {sched.last, FALSE} :
           sched' = [due |-> FALSE, claimed |-> FALSE, last |-> last]
    BY DEF OtherRun
  <2>2. last \in BOOLEAN
    BY DEF TypeRows
  <2> QED
    BY <2>1, <2>2 DEF OtherRun, TypeRows
<1> QED
  BY <1>1, <1>2

\* OccurrenceDue preserves TypeOK.
LEMMA OccurrenceDueType ==
    ASSUME TypeOK, OccurrenceDue
    PROVE  TypeOK'
<1> USE DEF TypeOK
<1>1. TypeJournal' /\ TypeLoops' /\ TypeWorks' /\ TypeRecon' /\ TypeWorld'
  BY DEF OccurrenceDue, TypeJournal, TypeLoops, TypeWorks, TypeRecon,
     TypeWorld, journal, loops, works, world, bounds
<1>2. TypeRows'
  BY DEF TypeRows, OccurrenceDue
<1> QED
  BY <1>1, <1>2

\* ClaimLapses preserves TypeOK.
LEMMA ClaimLapsesType ==
    ASSUME TypeOK, ClaimLapses
    PROVE  TypeOK'
<1> USE DEF TypeOK
<1>1. TypeJournal' /\ TypeLoops' /\ TypeWorks' /\ TypeRecon' /\ TypeWorld'
  BY DEF ClaimLapses, TypeJournal, TypeLoops, TypeWorks, TypeRecon, TypeWorld,
     journal, loops, works, world, bounds
<1>2. TypeRows'
  BY DEF TypeRows, ClaimLapses
<1> QED
  BY <1>1, <1>2

\* ResumeAfterPermission preserves TypeOK.
LEMMA ResumeAfterPermissionType ==
    ASSUME TypeOK, NEW t \in Threads, ResumeAfterPermission(t)
    PROVE  TypeOK'
<1> USE DEF TypeOK
<1>1. TypeJournal' /\ TypeWorks' /\ TypeRecon'
  BY DEF ResumeAfterPermission, TypeJournal, TypeWorks, TypeRecon, journal,
     works
<1>2. TypeRows'
  BY DEF TypeRows, Instances, InstanceStates, ResumeAfterPermission
<1>3. TypeLoops'
  BY DEF TypeLoops, LoopSteps, Instances, InstanceStates, TypeRows,
     ResumeAfterPermission, Goto
<1>4. TypeWorld'
  BY DEF TypeWorld, ResumeAfterPermission, world
<1> QED
  BY <1>1, <1>2, <1>3, <1>4

\* StartLoop preserves TypeOK.
LEMMA StartLoopType ==
    ASSUME TypeOK, NEW t \in Threads, StartLoop(t)
    PROVE  TypeOK'
<1>1. mem[t] \in Instances /\ "Running" \in InstanceStates
  BY DEF TypeOK, TypeLoops, InstanceStates
<1>2. [mem[t] EXCEPT !.status = "Running"] \in Instances
  BY <1>1, WithStatusType
<1> QED
  BY <1>2, CheckpointType DEF StartLoop, LoopSteps

\* NextNode preserves TypeOK.
LEMMA NextNodeType ==
    ASSUME TypeOK, NEW t \in Threads, NextNode(t)
    PROVE  TypeOK'
<1> USE DEF TypeOK
<1>1. TypeJournal' /\ TypeRows' /\ TypeRecon' /\ TypeWorld'
  BY DEF NextNode, TypeJournal, TypeRows, TypeRecon, TypeWorld, journal, rows,
     world, bounds
<1>2. TypeLoops'
  BY DEF TypeLoops, LoopSteps, NextNode, Goto
<1>3. TypeWorks'
  BY DEF TypeWorks, WorkSteps, NextNode, WorkTo
<1> QED
  BY <1>1, <1>2, <1>3

\* NextNodeFails preserves TypeOK.
LEMMA NextNodeFailsType ==
    ASSUME TypeOK, NEW t \in Threads, NextNodeFails(t)
    PROVE  TypeOK'
<1> USE DEF TypeOK
<1>1. TypeJournal' /\ TypeRows' /\ TypeWorks' /\ TypeRecon' /\ TypeWorld'
  BY DEF NextNodeFails, TypeJournal, TypeRows, TypeWorks, TypeRecon,
     TypeWorld, journal, rows, works, world, bounds
<1>2. TypeLoops'
  BY DEF TypeLoops, LoopSteps, NodeStates, NextNodeFails, Goto
<1> QED
  BY <1>1, <1>2

\* PauseForPermission preserves TypeOK.
LEMMA PauseForPermissionType ==
    ASSUME TypeOK, NEW t \in Threads, PauseForPermission(t)
    PROVE  TypeOK'
<1>1. mem[t] \in Instances /\ "AwaitingApproval" \in InstanceStates
  BY DEF TypeOK, TypeLoops, InstanceStates
<1>2. [mem[t] EXCEPT !.status = "AwaitingApproval"] \in Instances
  BY <1>1, WithStatusType
<1> QED
  BY <1>2, CheckpointType DEF PauseForPermission, LoopSteps

\* AllCompleted preserves TypeOK.
LEMMA AllCompletedType ==
    ASSUME TypeOK, NEW t \in Threads, AllCompleted(t)
    PROVE  TypeOK'
<1> USE DEF TypeOK
<1>1. TypeJournal' /\ TypeRows' /\ TypeWorks' /\ TypeRecon' /\ TypeWorld'
  BY DEF AllCompleted, TypeJournal, TypeRows, TypeWorks, TypeRecon, TypeWorld,
     journal, rows, works, world, bounds
<1>2. TypeLoops'
  <2>1. mem[t] \in Instances /\ "Completed" \in InstanceStates
    BY DEF TypeLoops, InstanceStates
  <2>2. [mem[t] EXCEPT !.status = "Completed"] \in Instances
    BY <2>1, WithStatusType
  <2>3. mem' \in [Threads -> Instances]
    BY <2>2 DEF AllCompleted, TypeLoops
  <2> QED
    BY <2>3, GotoType DEF AllCompleted, TypeLoops, LoopSteps
<1> QED
  BY <1>1, <1>2

\* WorkerReports preserves TypeOK.
LEMMA WorkerReportsType ==
    ASSUME TypeOK, NEW t \in Threads, WorkerReports(t)
    PROVE  TypeOK'
<1> USE DEF TypeOK
<1>1. TypeJournal' /\ TypeRows' /\ TypeRecon' /\ TypeWorld'
  BY DEF WorkerReports, TypeJournal, TypeRows, TypeRecon, TypeWorld, journal,
     rows, world, bounds
<1>2. TypeLoops'
  <2>1. PICK w \in Workers :
           IF outcome[w] = "Completed"
           THEN Goto(t, "completed") /\ UNCHANGED code
           ELSE Goto(t, "failed") /\ code' = [code EXCEPT ![t] = outcome[w]]
    BY DEF WorkerReports
  <2>2. pc' \in [Threads -> LoopSteps]
    BY <2>1, GotoType DEF LoopSteps
  <2>3. code' \in [Threads -> NodeStates]
    BY <2>1 DEF TypeLoops, TypeWorks
  <2> QED
    BY <2>2, <2>3 DEF WorkerReports, TypeLoops
<1>3. TypeWorks'
  BY ExitType DEF WorkerReports
<1> QED
  BY <1>1, <1>2, <1>3

\* NodeTimesOut preserves TypeOK.
LEMMA NodeTimesOutType ==
    ASSUME TypeOK, NEW t \in Threads, NodeTimesOut(t)
    PROVE  TypeOK'
<1> USE DEF TypeOK
<1>1. TypeJournal' /\ TypeRows' /\ TypeWorks' /\ TypeRecon' /\ TypeWorld'
  BY DEF NodeTimesOut, TypeJournal, TypeRows, TypeWorks, TypeRecon, TypeWorld,
     journal, rows, works, world, bounds
<1>2. TypeLoops'
  BY DEF TypeLoops, LoopSteps, NodeStates, NodeTimesOut, Goto
<1> QED
  BY <1>1, <1>2

\* NodeCompleted preserves TypeOK.
LEMMA NodeCompletedType ==
    ASSUME TypeOK, NEW t \in Threads, NodeCompleted(t)
    PROVE  TypeOK'
<1>1. mem[t] \in Instances /\ at[t] \in Nodes /\ "Completed" \in NodeStates
  BY DEF TypeOK, TypeLoops, NodeStates
<1>2. [mem[t] EXCEPT !.nodes[at[t]] = "Completed"] \in Instances
  BY <1>1 DEF Instances
<1> QED
  BY <1>2, CheckpointType DEF NodeCompleted, LoopSteps

\* NodeFailed preserves TypeOK.
LEMMA NodeFailedType ==
    ASSUME TypeOK, NEW t \in Threads, NodeFailed(t)
    PROVE  TypeOK'
<1>1. /\ mem[t] \in Instances /\ at[t] \in Nodes /\ code[t] \in NodeStates
      /\ "Failed" \in InstanceStates
  BY DEF TypeOK, TypeLoops, InstanceStates
<1>2. [status |-> "Failed",
       nodes |-> [mem[t].nodes EXCEPT ![at[t]] = code[t]]] \in Instances
  BY <1>1, WithNodeType
<1> QED
  BY <1>2, CheckpointType DEF NodeFailed, LoopSteps

\* CheckpointFails preserves TypeOK.
LEMMA CheckpointFailsType ==
    ASSUME TypeOK, NEW t \in Threads, CheckpointFails(t)
    PROVE  TypeOK'
<1> USE DEF TypeOK
<1>1. TypeJournal' /\ TypeRows' /\ TypeWorks' /\ TypeRecon'
  BY DEF CheckpointFails, TypeJournal, TypeRows, TypeWorks, TypeRecon,
     journal, rows, works
<1>2. TypeLoops'
  <2>1. /\ mem[t] \in Instances /\ at[t] \in Nodes
        /\ "Completed" \in NodeStates /\ "Failed" \in InstanceStates
        /\ "other" \in NodeStates
    BY DEF TypeLoops, InstanceStates, NodeStates
  <2>2. [status |-> "Failed",
         nodes |-> [mem[t].nodes EXCEPT ![at[t]] = "Completed"]] \in Instances
    BY <2>1, WithNodeType
  <2> QED
    BY <2>1, <2>2, GotoType DEF CheckpointFails, TypeLoops, LoopSteps
<1>3. TypeWorld'
  BY DEF TypeWorld, CheckpointFails, world
<1> QED
  BY <1>1, <1>2, <1>3

\* FinishRun preserves TypeOK.
LEMMA FinishRunType ==
    ASSUME TypeOK, NEW t \in Threads, FinishRun(t)
    PROVE  TypeOK'
<1> USE DEF TypeOK
<1>1. TypeJournal' /\ TypeWorks' /\ TypeRecon' /\ TypeWorld'
  BY DEF FinishRun, TypeJournal, TypeWorks, TypeRecon, TypeWorld, journal,
     works, world, bounds
<1>2. TypeRows'
  BY DEF TypeRows, TypeLoops, FinishRun
<1>3. TypeLoops'
  <2>1. CASE Scheduled
    BY <2>1, GotoType DEF FinishRun, TypeLoops, LoopSteps
  <2>2. CASE ~Scheduled
    BY <2>2, LeaveType DEF FinishRun
  <2> QED
    BY <2>1, <2>2
<1> QED
  BY <1>1, <1>2, <1>3

\* RequeueTransientFailure preserves TypeOK.
LEMMA RequeueTransientFailureType ==
    ASSUME TypeOK, NEW t \in Threads, RequeueTransientFailure(t)
    PROVE  TypeOK'
<1> USE DEF TypeOK
<1>1. TypeJournal' /\ TypeWorks' /\ TypeRecon' /\ TypeWorld'
  BY DEF RequeueTransientFailure, TypeJournal, TypeWorks, TypeRecon,
     TypeWorld, journal, works, world, bounds
<1>2. TypeRows'
  <2>1. [inst EXCEPT !.status = "Pending"] \in Instances
    BY DEF TypeRows, Instances, InstanceStates
  <2>2. inst' \in Instances
    BY <2>1 DEF RequeueTransientFailure, TypeRows
  <2>3. task' \in [state : TaskStates, recovery : {"reconciled", "recoverable"}]
    BY DEF RequeueTransientFailure, TypeRows, TaskStates
  <2>4. sched' \in [due : BOOLEAN, claimed : BOOLEAN, last : BOOLEAN]
    <3>1. CASE sched' = [due |-> FALSE, claimed |-> FALSE, last |-> TRUE]
      BY <3>1
    <3>2. CASE UNCHANGED sched
      BY <3>2 DEF TypeRows
    <3> QED
      BY <3>1, <3>2 DEF RequeueTransientFailure
  <2> QED
    BY <2>2, <2>3, <2>4 DEF RequeueTransientFailure, TypeRows
<1>3. TypeLoops'
  <2>1. CASE Leave({t})
    BY <2>1, LeaveType
  <2>2. CASE Goto(t, "project") /\ UNCHANGED <<at, on, code, mem, nextRun>>
    BY <2>2, GotoType DEF TypeLoops, LoopSteps
  <2> QED
    BY <2>1, <2>2 DEF RequeueTransientFailure
<1> QED
  BY <1>1, <1>2, <1>3

\* ProjectTask preserves TypeOK.
LEMMA ProjectTaskType ==
    ASSUME TypeOK, NEW t \in Threads, ProjectTask(t)
    PROVE  TypeOK'
<1> USE DEF TypeOK
<1>1. TypeJournal' /\ TypeRows' /\ TypeWorks' /\ TypeRecon' /\ TypeWorld'
  BY DEF ProjectTask, TypeJournal, TypeRows, TypeWorks, TypeRecon, TypeWorld,
     journal, rows, works, world, bounds
<1>2. TypeLoops'
  BY DEF TypeLoops, LoopSteps, Instances, NodeStates, TypeRows, ProjectTask,
     Goto, NoInstance
<1> QED
  BY <1>1, <1>2

\* ProjectTaskWrite preserves TypeOK.
LEMMA ProjectTaskWriteType ==
    ASSUME TypeOK, NEW t \in Threads, ProjectTaskWrite(t)
    PROVE  TypeOK'
<1> USE DEF TypeOK
<1>1. TypeJournal' /\ TypeWorks' /\ TypeRecon' /\ TypeWorld'
  BY DEF ProjectTaskWrite, TypeJournal, TypeWorks, TypeRecon, TypeWorld,
     journal, works, world, bounds
<1>2. TypeRows'
  BY DEF TypeRows, TaskStates, ProjectTaskWrite, WriteTask, CanonicalState
<1>3. TypeLoops'
  BY DEF TypeLoops, LoopSteps, ProjectTaskWrite, Goto
<1> QED
  BY <1>1, <1>2, <1>3

\* PersistResult preserves TypeOK.
LEMMA PersistResultType ==
    ASSUME TypeOK, NEW t \in Threads, PersistResult(t)
    PROVE  TypeOK'
<1> USE DEF TypeOK
<1>1. TypeJournal' /\ TypeWorks' /\ TypeRecon' /\ TypeWorld'
  BY DEF PersistResult, TypeJournal, TypeWorks, TypeRecon, TypeWorld, journal,
     works, world, bounds
<1>2. TypeRows'
  BY DEF TypeRows, PersistResult
<1>3. TypeLoops'
  BY LeaveType DEF PersistResult
<1> QED
  BY <1>1, <1>2, <1>3

\* ReconcileRows preserves TypeOK.
LEMMA ReconcileRowsType ==
    ASSUME TypeOK, NEW c \in Callers, ReconcileRows(c)
    PROVE  TypeOK'
<1> USE DEF TypeOK
<1>1. TypeJournal' /\ TypeRows' /\ TypeLoops' /\ TypeWorks' /\ TypeWorld'
  BY DEF ReconcileRows, TypeJournal, TypeRows, TypeLoops, TypeWorks,
     TypeWorld, journal, rows, loops, works, world, bounds
<1>2. TypeRecon'
  BY DEF TypeRecon, ReconSteps, TypeRows, Instances, ReconcileRows, ReconTo
<1> QED
  BY <1>1, <1>2

\* ReconcileCheck preserves TypeOK.
LEMMA ReconcileCheckType ==
    ASSUME TypeOK, NEW c \in Callers, ReconcileCheck(c)
    PROVE  TypeOK'
<1> USE DEF TypeOK
<1>1. TypeJournal' /\ TypeRows' /\ TypeLoops' /\ TypeWorks' /\ TypeWorld'
  BY DEF ReconcileCheck, TypeJournal, TypeRows, TypeLoops, TypeWorks,
     TypeWorld, journal, rows, loops, works, world, bounds
<1>2. TypeRecon'
  BY DEF TypeRecon, ReconSteps, InstanceStates, ReconcileCheck, ReconTo
<1> QED
  BY <1>1, <1>2

\* ReconcileUpsert preserves TypeOK.
LEMMA ReconcileUpsertType ==
    ASSUME TypeOK, NEW c \in Callers, ReconcileUpsert(c)
    PROVE  TypeOK'
<1> USE DEF TypeOK
<1>1. TypeJournal' /\ TypeLoops' /\ TypeWorks' /\ TypeWorld'
  BY DEF ReconcileUpsert, TypeJournal, TypeLoops, TypeWorks, TypeWorld,
     journal, loops, works, world, bounds
<1>2. TypeRows'
  BY DEF TypeRows, TaskStates, ReconcileUpsert, WriteTask, CanonicalState
<1>3. TypeRecon'
  BY DEF TypeRecon, ReconSteps, InstanceStates, ReconcileUpsert, ReconTo
<1> QED
  BY <1>1, <1>2, <1>3

\* ReconcileList preserves TypeOK.
LEMMA ReconcileListType ==
    ASSUME TypeOK, NEW c \in Callers, ReconcileList(c)
    PROVE  TypeOK'
<1> USE DEF TypeOK
<1>1. TypeJournal' /\ TypeRows' /\ TypeLoops' /\ TypeWorld'
  BY DEF ReconcileList, TypeJournal, TypeRows, TypeLoops, TypeWorld, journal,
     rows, loops, world, bounds
<1>2. TypeWorks'
  BY DEF TypeWorks, WorkSteps, ReconcileList, ReconcileReturns, works
<1>3. TypeRecon'
  <2>1. CASE ReconcileReturns(c)
    BY <2>1, NoReconType DEF ReconcileReturns
  <2>2. CASE ReconTo(c, "state", "absent")
    BY <2>2, ReconToType DEF ReconSteps, InstanceStates
  <2> QED
    BY <2>1, <2>2 DEF ReconcileList
<1> QED
  BY <1>1, <1>2, <1>3

\* ReconcileState preserves TypeOK.
LEMMA ReconcileStateType ==
    ASSUME TypeOK, NEW c \in Callers, ReconcileState(c)
    PROVE  TypeOK'
<1> USE DEF TypeOK
<1>1. TypeJournal' /\ TypeRows' /\ TypeLoops' /\ TypeWorks' /\ TypeWorld'
  BY DEF ReconcileState, TypeJournal, TypeRows, TypeLoops, TypeWorks,
     TypeWorld, journal, rows, loops, works, world, bounds
<1>2. TypeRecon'
  BY DEF TypeRecon, ReconSteps, TypeRows, Instances, ReconcileState, ReconTo
<1> QED
  BY <1>1, <1>2

\* ReconcileUpdate preserves TypeOK.
LEMMA ReconcileUpdateType ==
    ASSUME TypeOK, NEW c \in Callers, ReconcileUpdate(c)
    PROVE  TypeOK'
<1> USE DEF TypeOK
<1>1. TypeJournal' /\ TypeLoops' /\ TypeWorld'
  BY DEF ReconcileUpdate, TypeJournal, TypeLoops, TypeWorld, journal, loops,
     world, bounds
<1>2. TypeRows'
  BY DEF TypeRows, TaskStates, ReconcileUpdate, WriteTask, CanonicalState
<1>3. TypeWorks'
  BY DEF TypeWorks, WorkSteps, ReconcileUpdate, ReconcileReturns
<1>4. TypeRecon'
  BY DEF TypeRecon, ReconSteps, InstanceStates, ReconcileUpdate,
     ReconcileReturns, NoRecon
<1> QED
  BY <1>1, <1>2, <1>3, <1>4

\* ReserveEffect preserves TypeOK.
LEMMA ReserveEffectType ==
    ASSUME TypeOK, NEW w \in Workers, ReserveEffect(w)
    PROVE  TypeOK'
<1> USE DEF TypeOK
<1>1. TypeRows' /\ TypeLoops' /\ TypeRecon' /\ TypeWorld'
  BY DEF ReserveEffect, TypeRows, TypeLoops, TypeRecon, TypeWorld, rows,
     loops, world, bounds
<1>2. TypeJournal'
  BY DEF TypeJournal, EffectStates, ReserveEffect, SetEffect
<1>3. TypeWorks'
  BY DEF TypeWorks, WorkSteps, ReserveEffect, WorkTo
<1> QED
  BY <1>1, <1>2, <1>3

\* ReadBack preserves TypeOK.
LEMMA ReadBackType ==
    ASSUME TypeOK, NEW w \in Workers, ReadBack(w)
    PROVE  TypeOK'
<1> USE DEF TypeOK
<1>1. TypeJournal' /\ TypeRows' /\ TypeLoops' /\ TypeRecon' /\ TypeWorld'
  BY DEF ReadBack, TypeJournal, TypeRows, TypeLoops, TypeRecon, TypeWorld,
     journal, rows, loops, world, bounds
<1>2. TypeWorks'
  <2>1. CASE Report(w, "other") /\ UNCHANGED <<inserted, seen>>
    BY <2>1, ReportType DEF ReadBack, TypeWorks, NodeStates
  <2>2. CASE ~(Report(w, "other") /\ UNCHANGED <<inserted, seen>>)
    <3>1. wpc' \in [Workers -> WorkSteps]
      BY <2>2, WorkToType DEF ReadBack, WorkSteps
    <3>2. inserted' \in [Workers -> BOOLEAN]
      BY <2>2 DEF ReadBack, TypeWorks
    <3>3. seen' \in [Workers -> Nat]
      BY <2>2 DEF ReadBack, TypeWorks, TypeJournal
    <3> QED
      BY <2>2, <3>1, <3>2, <3>3 DEF ReadBack, TypeWorks
  <2> QED
    BY <2>1, <2>2
<1> QED
  BY <1>1, <1>2

\* LoadReceipt preserves TypeOK.
LEMMA LoadReceiptType ==
    ASSUME TypeOK, NEW w \in Workers, LoadReceipt(w)
    PROVE  TypeOK'
<1> USE DEF TypeOK
<1>1. TypeJournal' /\ TypeRows' /\ TypeLoops' /\ TypeRecon' /\ TypeWorld'
  BY DEF LoadReceipt, TypeJournal, TypeRows, TypeLoops, TypeRecon, TypeWorld,
     journal, rows, loops, world, bounds
<1>2. TypeWorks'
  <2>1. wpc' \in [Workers -> WorkSteps]
    BY DEF LoadReceipt, TypeWorks, WorkTo, WorkSteps
  <2>2. result' \in [Workers -> Nat]
    BY DEF LoadReceipt, TypeWorks, TypeJournal
  <2> QED
    BY <2>1, <2>2 DEF LoadReceipt, TypeWorks, NULL
<1> QED
  BY <1>1, <1>2

\* ClaimEffectExecution preserves TypeOK.
LEMMA ClaimEffectExecutionType ==
    ASSUME TypeOK, NEW w \in Workers, ClaimEffectExecution(w)
    PROVE  TypeOK'
<1> USE DEF TypeOK
<1>1. TypeRows' /\ TypeLoops' /\ TypeRecon' /\ TypeWorld'
  BY DEF ClaimEffectExecution, TypeRows, TypeLoops, TypeRecon, TypeWorld,
     rows, loops, world, bounds
<1>2. TypeJournal'
  BY DEF TypeJournal, EffectStates, ClaimEffectExecution, SetEffect
<1>3. TypeWorks'
  BY DEF TypeWorks, WorkSteps, ClaimEffectExecution, WorkTo
<1> QED
  BY <1>1, <1>2, <1>3

\* ClaimLoadReceipt preserves TypeOK.
LEMMA ClaimLoadReceiptType ==
    ASSUME TypeOK, NEW w \in Workers, ClaimLoadReceipt(w)
    PROVE  TypeOK'
<1> USE DEF TypeOK
<1>1. TypeJournal' /\ TypeRows' /\ TypeLoops' /\ TypeRecon' /\ TypeWorld'
  BY DEF ClaimLoadReceipt, TypeJournal, TypeRows, TypeLoops, TypeRecon,
     TypeWorld, journal, rows, loops, world, bounds
<1>2. TypeWorks'
  BY NodeCountAssumption, WorkersAssumption DEF TypeWorks, WorkSteps,
     TypeJournal, ClaimLoadReceipt, WorkTo
<1> QED
  BY <1>1, <1>2

\* CallSucceeds preserves TypeOK.
LEMMA CallSucceedsType ==
    ASSUME TypeOK, NEW w \in Workers, CallSucceeds(w)
    PROVE  TypeOK'
<1> USE DEF TypeOK
<1>1. TypeJournal' /\ TypeRows' /\ TypeLoops' /\ TypeRecon' /\ TypeWorld'
  BY DEF CallSucceeds, TypeJournal, TypeRows, TypeLoops, TypeRecon, TypeWorld,
     journal, rows, loops, world, bounds
<1>2. TypeWorks'
  BY DEF TypeWorks, WorkSteps, CallSucceeds, WorkTo
<1> QED
  BY <1>1, <1>2

\* CallUnchanged preserves TypeOK.
LEMMA CallUnchangedType ==
    ASSUME TypeOK, NEW w \in Workers, CallUnchanged(w)
    PROVE  TypeOK'
<1> USE DEF TypeOK
<1>1. TypeJournal' /\ TypeRows' /\ TypeLoops' /\ TypeRecon' /\ TypeWorld'
  BY DEF CallUnchanged, TypeJournal, TypeRows, TypeLoops, TypeRecon,
     TypeWorld, journal, rows, loops, world, bounds
<1>2. TypeWorks'
  BY DEF TypeWorks, WorkSteps, NodeStates, CallUnchanged, WorkTo
<1> QED
  BY <1>1, <1>2

\* CallAmbiguous preserves TypeOK.
LEMMA CallAmbiguousType ==
    ASSUME TypeOK, NEW w \in Workers, CallAmbiguous(w)
    PROVE  TypeOK'
<1> USE DEF TypeOK
<1>1. TypeJournal' /\ TypeRows' /\ TypeLoops' /\ TypeRecon'
  BY DEF CallAmbiguous, TypeJournal, TypeRows, TypeLoops, TypeRecon, journal,
     rows, loops
<1>2. TypeWorks'
  BY HaltType DEF CallAmbiguous, TypeWorks
<1>3. TypeWorld'
  <2>1. orphans' \in [Nodes -> Nat]
    BY DEF CallAmbiguous, TypeWorld, TypeWorks
  <2> QED
    BY <2>1 DEF CallAmbiguous, TypeWorld, bounds
<1> QED
  BY <1>1, <1>2, <1>3

\* VerifyEffect preserves TypeOK.
LEMMA VerifyEffectType ==
    ASSUME TypeOK, NEW w \in Workers, VerifyEffect(w)
    PROVE  TypeOK'
<1> USE DEF TypeOK
<1>1. TypeJournal' /\ TypeRows' /\ TypeLoops' /\ TypeRecon' /\ TypeWorld'
  BY DEF VerifyEffect, TypeJournal, TypeRows, TypeLoops, TypeRecon, TypeWorld,
     journal, rows, loops, world, bounds
<1>2. TypeWorks'
  <2>1. CASE Halt(w)
    BY <2>1, HaltType DEF VerifyEffect, TypeWorks
  <2>2. CASE ~Halt(w)
    BY <2>2 DEF VerifyEffect, TypeWorks, WorkTo, WorkSteps
  <2> QED
    BY <2>1, <2>2
<1> QED
  BY <1>1, <1>2

\* RecordReceipt preserves TypeOK.
LEMMA RecordReceiptType ==
    ASSUME TypeOK, NEW w \in Workers, RecordReceipt(w)
    PROVE  TypeOK'
<1> USE DEF TypeOK
<1>1. TypeRows' /\ TypeLoops' /\ TypeRecon' /\ TypeWorld'
  BY DEF RecordReceipt, TypeRows, TypeLoops, TypeRecon, TypeWorld, rows,
     loops, world, bounds
<1>2. TypeJournal'
  BY DEF TypeJournal, TypeWorks, RecordReceipt
<1>3. TypeWorks'
  BY DEF TypeWorks, WorkSteps, RecordReceipt, WorkTo
<1> QED
  BY <1>1, <1>2, <1>3

\* ReconcileVerifiedEffect preserves TypeOK.
LEMMA ReconcileVerifiedEffectType ==
    ASSUME TypeOK, NEW w \in Workers, ReconcileVerifiedEffect(w)
    PROVE  TypeOK'
<1> USE DEF TypeOK
<1>1. TypeRows' /\ TypeLoops' /\ TypeRecon' /\ TypeWorld'
  BY DEF ReconcileVerifiedEffect, TypeRows, TypeLoops, TypeRecon, TypeWorld,
     rows, loops, world, bounds
<1>2. TypeJournal'
  <2>1. node[w] \in Nodes /\ result[w] \in Nat
    BY DEF TypeWorks
  <2>2. effect' \in [Nodes -> EffectStates]
    BY <2>1 DEF ReconcileVerifiedEffect, TypeJournal, SetEffect, EffectStates
  <2>3. digest' \in [Nodes -> Nat]
    BY <2>1 DEF ReconcileVerifiedEffect, TypeJournal
  <2> QED
    BY <2>2, <2>3 DEF ReconcileVerifiedEffect, TypeJournal
<1>3. TypeWorks'
  <2>1. CASE Halt(w) /\ UNCHANGED outcome
    BY <2>1, HaltType DEF ReconcileVerifiedEffect, TypeWorks
  <2>2. CASE Report(w, "Completed")
    BY <2>2, ReportType DEF ReconcileVerifiedEffect, TypeWorks, NodeStates
  <2> QED
    BY <2>1, <2>2 DEF ReconcileVerifiedEffect
<1> QED
  BY <1>1, <1>2, <1>3

\* ReleaseUnchangedEffect preserves TypeOK.
LEMMA ReleaseUnchangedEffectType ==
    ASSUME TypeOK, NEW w \in Workers, ReleaseUnchangedEffect(w)
    PROVE  TypeOK'
<1> USE DEF TypeOK
<1>1. TypeRows' /\ TypeLoops' /\ TypeRecon' /\ TypeWorld'
  BY DEF ReleaseUnchangedEffect, TypeRows, TypeLoops, TypeRecon, TypeWorld,
     rows, loops, world, bounds
<1>2. TypeJournal'
  BY DEF TypeJournal, EffectStates, ReleaseUnchangedEffect, SetEffect
<1>3. TypeWorks'
  BY DEF TypeWorks, WorkSteps, ReleaseUnchangedEffect, WorkTo
<1> QED
  BY <1>1, <1>2, <1>3

\* HaltEffect preserves TypeOK.
LEMMA HaltEffectType ==
    ASSUME TypeOK, NEW w \in Workers, HaltEffect(w)
    PROVE  TypeOK'
<1> USE DEF TypeOK
<1>1. TypeRows' /\ TypeLoops' /\ TypeRecon' /\ TypeWorld'
  BY DEF HaltEffect, TypeRows, TypeLoops, TypeRecon, TypeWorld, rows, loops,
     world, bounds
<1>2. TypeJournal'
  BY DEF TypeJournal, EffectStates, HaltEffect, SetEffect
<1>3. TypeWorks'
  <2>1. CASE WorkTo(w, "haltTask") /\ UNCHANGED <<result, outcome>>
    BY <2>1, WorkToType DEF HaltEffect, TypeWorks, WorkSteps
  <2>2. CASE Report(w, "other")
    BY <2>2, ReportType DEF HaltEffect, TypeWorks, NodeStates
  <2> QED
    BY <2>1, <2>2 DEF HaltEffect
<1> QED
  BY <1>1, <1>2, <1>3

\* HaltTask preserves TypeOK.
LEMMA HaltTaskType ==
    ASSUME TypeOK, NEW w \in Workers, HaltTask(w)
    PROVE  TypeOK'
<1> USE DEF TypeOK
<1>1. TypeJournal' /\ TypeLoops' /\ TypeRecon' /\ TypeWorld'
  BY DEF HaltTask, TypeJournal, TypeLoops, TypeRecon, TypeWorld, journal,
     loops, world, bounds
<1>2. TypeRows'
  BY DEF TypeRows, TaskStates, HaltTask
<1>3. TypeWorks'
  BY DEF TypeWorks, WorkSteps, HaltTask, WorkTo
<1> QED
  BY <1>1, <1>2, <1>3

\* HaltEvent preserves TypeOK.
LEMMA HaltEventType ==
    ASSUME TypeOK, NEW w \in Workers, HaltEvent(w)
    PROVE  TypeOK'
<1> USE DEF TypeOK
<1>1. TypeJournal' /\ TypeLoops' /\ TypeRecon' /\ TypeWorld'
  BY DEF HaltEvent, TypeJournal, TypeLoops, TypeRecon, TypeWorld, journal,
     loops, world, bounds
<1>2. TypeRows'
  <2>1. Required(node[w]) \in Events
    BY DEF Required, Event, Events, TypeWorks
  <2> QED
    BY <2>1, AppendType DEF HaltEvent, TypeRows
<1>3. TypeWorks'
  BY ReportType DEF HaltEvent, TypeWorks, NodeStates
<1> QED
  BY <1>1, <1>2, <1>3

\* WorkerExits preserves TypeOK.
LEMMA WorkerExitsType ==
    ASSUME TypeOK, NEW w \in Workers, WorkerExits(w)
    PROVE  TypeOK'
<1> USE DEF TypeOK
<1>1. TypeJournal' /\ TypeRows' /\ TypeLoops' /\ TypeRecon' /\ TypeWorld'
  BY DEF WorkerExits, TypeJournal, TypeRows, TypeLoops, TypeRecon, TypeWorld,
     journal, rows, loops, world, bounds
<1>2. TypeWorks'
  BY ExitType DEF WorkerExits
<1> QED
  BY <1>1, <1>2

\* CallLands preserves TypeOK.
LEMMA CallLandsType ==
    ASSUME TypeOK, NEW w \in Workers, CallLands(w)
    PROVE  TypeOK'
<1> USE DEF TypeOK
<1>1. TypeJournal' /\ TypeRows' /\ TypeLoops' /\ TypeRecon'
  BY DEF CallLands, TypeJournal, TypeRows, TypeLoops, TypeRecon, journal,
     rows, loops
<1>2. TypeWorks'
  <2>1. performed'[node[w]] \in Nat
    BY DEF CallLands, TypeWorks, TypeWorld
  <2> QED
    BY <2>1 DEF CallLands, TypeWorks
<1>3. TypeWorld'
  BY DEF TypeWorld, TypeWorks, CallLands, bounds
<1> QED
  BY <1>1, <1>2, <1>3

\* JournalFails preserves TypeOK.
LEMMA JournalFailsType ==
    ASSUME TypeOK, NEW w \in Workers, JournalFails(w)
    PROVE  TypeOK'
<1> USE DEF TypeOK
<1>1. TypeJournal' /\ TypeRows' /\ TypeLoops'
  BY DEF JournalFails, TypeJournal, TypeRows, TypeLoops, journal, rows, loops
<1>2. TypeWorks'
  <2>1. CASE Halt(w) /\ UNCHANGED outcome
    BY <2>1, HaltType DEF JournalFails, TypeWorks, NULL
  <2>2. CASE Report(w, "other")
    BY <2>2, ReportType DEF JournalFails, TypeWorks, NodeStates, NULL
  <2> QED
    BY <2>1, <2>2 DEF JournalFails
<1>3. TypeRecon'
  BY NoReconType DEF JournalFails, TypeRecon, Callers
<1>4. TypeWorld'
  BY DEF JournalFails, TypeWorld, world
<1> QED
  BY <1>1, <1>2, <1>3, <1>4

\* TaskRetryCheck preserves TypeOK.
LEMMA TaskRetryCheckType ==
    ASSUME TypeOK, NEW c \in Ledger, TaskRetryCheck(c)
    PROVE  TypeOK'
<1> USE DEF TypeOK
<1>1. TypeJournal' /\ TypeRows' /\ TypeLoops' /\ TypeWorks'
  BY DEF TaskRetryCheck, TypeJournal, TypeRows, TypeLoops, TypeWorks, journal,
     rows, loops, works
<1>2. TypeRecon'
  BY DEF TypeRecon, ReconSteps, InstanceStates, TaskRetryCheck, ReconTo
<1>3. TypeWorld'
  BY DEF TypeWorld, TaskRetryCheck, world
<1> QED
  BY <1>1, <1>2, <1>3

\* TaskRetry preserves TypeOK.
LEMMA TaskRetryType ==
    ASSUME TypeOK, NEW c \in Ledger, TaskRetry(c)
    PROVE  TypeOK'
<1> USE DEF TypeOK
<1>1. TypeJournal' /\ TypeLoops' /\ TypeWorks' /\ TypeWorld'
  BY DEF TaskRetry, TypeJournal, TypeLoops, TypeWorks, TypeWorld, journal,
     loops, works, world, bounds
<1>2. TypeRows'
  <2>1. Event("retry", 1, 0, "none") \in Events
    BY NodeCountAssumption DEF Event, Events, Nodes
  <2>2. log' \in Seq(Events)
    BY <2>1, AppendType DEF TaskRetry, TypeRows
  <2>3. inst' \in Instances
    BY DEF TaskRetry, TypeRows, Instances, InstanceStates
  <2> QED
    BY <2>2, <2>3 DEF TaskRetry, TypeRows
<1>3. TypeRecon'
  <2>1. CASE ReconTo(c, "rows", "absent")
    BY <2>1, ReconToType DEF Callers, ReconSteps, InstanceStates
  <2>2. CASE recon' = [recon EXCEPT ![c] = NoRecon]
    BY <2>2, NoReconType DEF Callers
  <2> QED
    BY <2>1, <2>2 DEF TaskRetry
<1> QED
  BY <1>1, <1>2, <1>3

\* OrphanLands preserves TypeOK.
LEMMA OrphanLandsType ==
    ASSUME TypeOK, NEW k \in Nodes, OrphanLands(k)
    PROVE  TypeOK'
<1> USE DEF TypeOK
<1>1. TypeJournal' /\ TypeRows' /\ TypeLoops' /\ TypeWorks' /\ TypeRecon'
  BY DEF OrphanLands, TypeJournal, TypeRows, TypeLoops, TypeWorks, TypeRecon,
     journal, rows, loops, works
<1>2. TypeWorld'
  <2>1. orphans' \in [Nodes -> Nat]
    BY DEF OrphanLands, TypeWorld
  <2>2. performed' \in [Nodes -> Nat]
    BY DEF OrphanLands, TypeWorld
  <2> QED
    BY <2>1, <2>2 DEF OrphanLands, TypeWorld, bounds
<1> QED
  BY <1>1, <1>2

\* ResolveDidNotHappen preserves TypeOK.
LEMMA ResolveDidNotHappenType ==
    ASSUME TypeOK, NEW k \in Nodes, NEW i \in DOMAIN log,
       ResolveDidNotHappen(k, i)
    PROVE  TypeOK'
<1> USE DEF TypeOK
<1>1. TypeLoops' /\ TypeWorks' /\ TypeRecon'
  BY DEF ResolveDidNotHappen, TypeLoops, TypeWorks, TypeRecon, loops, works
<1>2. TypeJournal'
  BY DEF TypeJournal, EffectStates, ResolveDidNotHappen, SetEffect
<1>3. TypeRows'
  <2>1. i \in Nat
    BY DEF TypeRows
  <2>2. Resolved(k, i, "did_not_happen") \in Events
    BY <2>1 DEF Resolved, Event, Events, Decisions
  <2>3. log' \in Seq(Events)
    BY <2>2, AppendType DEF ResolveDidNotHappen
  <2>4. inst' \in Instances
    BY DEF ResolveDidNotHappen, TypeRows, Instances, InstanceStates
  <2> QED
    BY <2>3, <2>4 DEF ResolveDidNotHappen, TypeRows, TaskStates
<1>4. TypeWorld'
  <2>1. pardons' \in [Nodes -> Nat]
    BY DEF ResolveDidNotHappen, TypeWorld
  <2>2. stopped' \in [Nodes -> BOOLEAN]
    BY DEF ResolveDidNotHappen, TypeWorld
  <2>3. decisions' \in Nat /\ UNCHANGED <<performed, orphans, runs, faults>>
    BY DEF ResolveDidNotHappen, TypeWorld
  <2> QED
    BY <2>1, <2>2, <2>3 DEF TypeWorld
<1> QED
  BY <1>1, <1>2, <1>3, <1>4

\* ResolveStop preserves TypeOK.
LEMMA ResolveStopType ==
    ASSUME TypeOK, NEW k \in Nodes, NEW i \in DOMAIN log, NEW d \in
       {"happened", "stop_without_repeating"}, ResolveStop(k, i, d)
    PROVE  TypeOK'
<1> USE DEF TypeOK
<1>1. TypeJournal' /\ TypeLoops' /\ TypeWorks' /\ TypeRecon'
  BY DEF ResolveStop, TypeJournal, TypeLoops, TypeWorks, TypeRecon, journal,
     loops, works
<1>2. TypeRows'
  <2>1. i \in Nat
    BY DEF TypeRows
  <2>2. Resolved(k, i, d) \in Events
    BY <2>1 DEF Resolved, Event, Events, Decisions
  <2>3. log' \in Seq(Events)
    BY <2>2, AppendType DEF ResolveStop
  <2> QED
    BY <2>3 DEF ResolveStop, TypeRows, TaskStates
<1>3. TypeWorld'
  BY DEF TypeWorld, ResolveStop, world
<1> QED
  BY <1>1, <1>2, <1>3

\* ResolveStopWithoutDetails preserves TypeOK.
LEMMA ResolveStopWithoutDetailsType ==
    ASSUME TypeOK, NEW k \in Nodes, NEW i \in DOMAIN log,
       ResolveStopWithoutDetails(k, i)
    PROVE  TypeOK'
BY ResolveStopType DEF ResolveStopWithoutDetails

\* Crash preserves TypeOK.
LEMMA CrashType ==
    ASSUME TypeOK, Crash
    PROVE  TypeOK'
<1> USE DEF TypeOK
<1>1. TypeJournal' /\ TypeRows'
  BY DEF Crash, TypeJournal, TypeRows, journal, rows
<1>2. TypeLoops'
  BY LeaveType DEF Crash
<1>3. TypeWorks'
  BY ExitType DEF Crash
<1>4. TypeRecon'
  BY DEF TypeRecon, ReconSteps, InstanceStates, Crash, NoRecon
<1>5. TypeWorld'
  <2>1. PICK late \in SUBSET Workers :
           orphans' = [k \in Nodes |->
                          orphans[k] + Cardinality(Outstanding(k) \cap late)]
    BY DEF Crash
  <2>2. ASSUME NEW k \in Nodes
        PROVE  Cardinality(Outstanding(k) \cap late) \in Nat
    BY WorkersAssumption, FS_Subset, FS_CardinalityType DEF Outstanding
  <2>3. orphans' \in [Nodes -> Nat]
    BY <2>1, <2>2 DEF TypeWorld
  <2> QED
    BY <2>3 DEF Crash, TypeWorld
<1> QED
  BY <1>1, <1>2, <1>3, <1>4, <1>5

(***************************************************************************)
(* The specification.                                                      *)
(***************************************************************************)

\* The initial states are well-typed.
LEMMA InitType == Init => TypeOK
<1> SUFFICES ASSUME Init PROVE TypeOK
  OBVIOUS
<1>1. 1 \in Nodes
  BY NodeCountAssumption DEF Nodes
<1>2. TypeJournal
  BY DEF Init, TypeJournal, EffectStates, NULL
<1>3. TypeRows
  BY NoInstanceType, ScheduledAssumption DEF Init, TypeRows, TaskStates
<1>4. TypeLoops
  BY <1>1, NoInstanceType DEF Init, TypeLoops, LoopSteps, NodeStates
<1>5. TypeWorks
  BY <1>1 DEF Init, TypeWorks, WorkSteps, NodeStates, NULL
<1>6. TypeRecon
  BY DEF Init, TypeRecon, NoRecon, ReconSteps, InstanceStates
<1>7. TypeWorld
  BY DEF Init, TypeWorld
<1> QED
  BY <1>2, <1>3, <1>4, <1>5, <1>6, <1>7 DEF TypeOK

\* Every step of a thread that runs a workflow preserves TypeOK.
LEMMA LoopStepType ==
    ASSUME TypeOK, NEW t \in Threads,
           LoopStep(t) \/ ResumeAfterPermission(t) \/ CheckpointFails(t)
    PROVE  TypeOK'
BY StartLoopType, NextNodeType, NextNodeFailsType, PauseForPermissionType,
   AllCompletedType, WorkerReportsType, NodeTimesOutType, NodeCompletedType,
   NodeFailedType, FinishRunType, RequeueTransientFailureType, ProjectTaskType,
   ProjectTaskWriteType, PersistResultType, ResumeAfterPermissionType,
   CheckpointFailsType DEF LoopStep

\* Every step of reconcile_all preserves TypeOK, whoever called it.
LEMMA ReconcileStepType ==
    ASSUME TypeOK, NEW c \in Callers, ReconcileStep(c)
    PROVE  TypeOK'
BY ReconcileRowsType, ReconcileCheckType, ReconcileUpsertType,
   ReconcileListType, ReconcileStateType, ReconcileUpdateType
   DEF ReconcileStep

\* Every step of a node worker and of the call it made preserves TypeOK.
LEMMA WorkStepType ==
    ASSUME TypeOK, NEW w \in Workers,
           WorkStep(w) \/ CallLands(w) \/ JournalFails(w)
    PROVE  TypeOK'
<1>1. CASE ReconcileStep(w)
  BY <1>1, ReconcileStepType DEF Callers
<1>2. CASE ~ReconcileStep(w)
  BY <1>2, ReserveEffectType, ReadBackType, LoadReceiptType,
     ClaimEffectExecutionType, ClaimLoadReceiptType, CallSucceedsType,
     CallUnchangedType, CallAmbiguousType, VerifyEffectType,
     RecordReceiptType, ReconcileVerifiedEffectType,
     ReleaseUnchangedEffectType, HaltEffectType, HaltTaskType, HaltEventType,
     WorkerExitsType, CallLandsType, JournalFailsType DEF WorkStep
<1> QED
  BY <1>1, <1>2

\* TypeOK is inductive by itself: every step of the system preserves it.
LEMMA NextType == ASSUME TypeOK, [Next]_vars PROVE TypeOK'
<1>1. CASE SchedulerStep \/ OccurrenceDue \/ ClaimLapses \/ Crash
  BY <1>1, BeginRunType, RetryRunType, OtherRunType, OccurrenceDueType,
     ClaimLapsesType, CrashType DEF SchedulerStep
<1>2. CASE \E t \in Threads :
              LoopStep(t) \/ ResumeAfterPermission(t) \/ CheckpointFails(t)
  BY <1>2, LoopStepType
<1>3. CASE \E w \in Workers : WorkStep(w) \/ CallLands(w) \/ JournalFails(w)
  BY <1>3, WorkStepType
<1>4. CASE \E c \in Ledger :
              ReconcileStep(c) \/ TaskRetryCheck(c) \/ TaskRetry(c)
  BY <1>4, ReconcileStepType, TaskRetryCheckType, TaskRetryType DEF Callers
<1>5. CASE \E k \in Nodes : OrphanLands(k)
  BY <1>5, OrphanLandsType
<1>6. CASE \E k \in Nodes, i \in DOMAIN log :
              \/ ResolveDidNotHappen(k, i)
              \/ \E d \in {"happened", "stop_without_repeating"} :
                    ResolveStop(k, i, d)
              \/ ResolveStopWithoutDetails(k, i)
  BY <1>6, ResolveDidNotHappenType, ResolveStopType,
     ResolveStopWithoutDetailsType
<1>7. CASE UNCHANGED vars
  BY <1>7 DEF vars, TypeOK, TypeJournal, TypeRows, TypeLoops, TypeWorks,
     TypeRecon, TypeWorld
<1> QED
  BY <1>1, <1>2, <1>3, <1>4, <1>5, <1>6, <1>7 DEF Next

\* Every reachable state is well-typed, for any number of nodes, workers and
\* approvers and all bounds: instances, payloads, journal rows, task rows and
\* the locals of every thread stay inside the states the code distinguishes, a
\* worker mid-call included when its run has timed out or the process died.
THEOREM TypeCorrect == Spec => []TypeOK
<1>1. Init => TypeOK
  BY InitType
<1>2. TypeOK /\ [Next]_vars => TypeOK'
  BY NextType
<1> QED
  BY <1>1, <1>2, PTL DEF Spec

-----------------------------------------------------------------------------
(***************************************************************************)
(* At-most-once execution of an effect, for every value of the constants.  *)
(*                                                                         *)
(* AtMostOnce is not inductive: it says nothing of calls in flight, of     *)
(* abandoned calls that may still land, or of a journal row that may be    *)
(* claimed again. Budget counts them all: what was performed, the orphans  *)
(* and the permits held by workers never exceed one plus the mistaken      *)
(* releases, and fall short of that by one while the row is claimable.     *)
(* Only ClaimEffectExecution issues a permit, and it makes the row         *)
(* unclaimable in the same UPDATE.                                         *)
(***************************************************************************)

\* The workers that may still perform an effect are finitely many.
LEMMA PermitsFinite ==
    ASSUME NEW k
    PROVE  IsFiniteSet(Permits(k)) /\ Cardinality(Permits(k)) \in Nat
BY WorkersAssumption, FS_Subset, FS_CardinalityType DEF Permits

\* And so they are after a step.
LEMMA PermitsFinitePrimed ==
    ASSUME NEW k
    PROVE  IsFiniteSet(Permits(k)') /\ Cardinality(Permits(k)') \in Nat
BY WorkersAssumption, FS_Subset, FS_CardinalityType DEF Permits

\* A step that counts nothing new, issues no permit and makes no effect
\* claimable again preserves Budget: the argument of most of the cases below.
LEMMA BudgetFrame ==
    ASSUME TypeOK, Budget, UNCHANGED <<performed, orphans, pardons>>,
           \A k \in Nodes :
              /\ Permits(k)' \subseteq Permits(k)
              /\ effect'[k] \in {"absent", "reserved"}
                    => effect[k] \in {"absent", "reserved"}
    PROVE  Budget'
<1> SUFFICES ASSUME NEW k \in Nodes
             PROVE  /\ Used(k)' <= 1 + pardons'[k]
                    /\ effect'[k] \in {"absent", "reserved"}
                          => Used(k)' <= pardons'[k]
  BY DEF Budget
<1>1. Cardinality(Permits(k)') <= Cardinality(Permits(k))
  BY PermitsFinite, FS_Subset
<1>2. Used(k)' <= Used(k) /\ Used(k) \in Nat /\ Used(k)' \in Nat
  BY <1>1, PermitsFinite, PermitsFinitePrimed DEF Used, TypeOK, TypeWorld
<1> QED
  BY <1>2 DEF Budget, TypeOK, TypeWorld

\* A worker that leaves its call, or its attempt to release it, gives up its
\* permit and nobody else's.
LEMMA PermitsShrink ==
    ASSUME TypeOK, NEW w \in Workers, NEW s, s \notin {"calling", "release"},
           WorkTo(w, s),
           \A v \in Workers \ {w} : node'[v] = node[v] /\ result'[v] = result[v]
    PROVE  \A k \in Nodes : Permits(k)' = Permits(k) \ {w}
BY DEF Permits, WorkTo, TypeOK, TypeWorks

\* A worker that returns from its call without an orphan preserves Budget.
LEMMA WorkerLeavesCall ==
    ASSUME TypeOK, Budget, NEW w \in Workers,
           NEW s, s \notin {"calling", "release"}, WorkTo(w, s),
           \A v \in Workers \ {w} : node'[v] = node[v] /\ result'[v] = result[v],
           UNCHANGED <<performed, orphans, pardons>>,
           \A k \in Nodes : effect'[k] \in {"absent", "reserved"}
                               => effect[k] \in {"absent", "reserved"}
    PROVE  Budget'
BY PermitsShrink, BudgetFrame

\* A step that leaves journal, workers and world alone preserves Budget.
LEMMA UnchangedBudget ==
    ASSUME TypeOK, Budget, UNCHANGED <<effect, wpc, node, result, performed, orphans, pardons>>
    PROVE  Budget'
<1>1. \A k \in Nodes : Permits(k)' = Permits(k)
  BY DEF Permits
<1> QED
  BY <1>1, BudgetFrame

\* The one step that issues a permit takes the effect out of the claimable
\* states in the same UPDATE, so the permit was still in the budget.
LEMMA ClaimEffectExecutionBudget ==
    ASSUME TypeOK, Budget, NEW w \in Workers, ClaimEffectExecution(w)
    PROVE  Budget'
<1>1. CASE effect[node[w]] = "reserved"
  <2> SUFFICES ASSUME NEW k \in Nodes
               PROVE  /\ Used(k)' <= 1 + pardons'[k]
                      /\ effect'[k] \in {"absent", "reserved"}
                            => Used(k)' <= pardons'[k]
    BY DEF Budget
  <2>1. CASE k = node[w]
    <3>1. Permits(k)' \subseteq Permits(k) \cup {w} /\ w \notin Permits(k)
      BY <1>1 DEF Permits, ClaimEffectExecution, WorkTo, TypeOK, TypeWorks
    <3>2. /\ IsFiniteSet(Permits(k) \cup {w})
          /\ Cardinality(Permits(k) \cup {w}) = Cardinality(Permits(k)) + 1
      BY <3>1, PermitsFinite, FS_AddElement
    <3>3. Cardinality(Permits(k)') <= Cardinality(Permits(k)) + 1
      BY <3>1, <3>2, FS_Subset
    <3>4. Used(k) <= pardons[k]
      BY <1>1, <2>1 DEF Budget
    <3>5. effect'[k] = "executed" /\ UNCHANGED <<performed, orphans, pardons>>
      BY <1>1, <2>1 DEF ClaimEffectExecution, SetEffect, TypeOK, TypeJournal, world
    <3> QED
      BY <3>3, <3>4, <3>5, PermitsFinite, PermitsFinitePrimed
         DEF Used, TypeOK, TypeWorld
  <2>2. CASE k # node[w]
    <3>1. Permits(k)' = Permits(k)
      BY <1>1, <2>2 DEF Permits, ClaimEffectExecution, WorkTo, TypeOK, TypeWorks
    <3>2. /\ effect'[k] = effect[k]
          /\ UNCHANGED <<performed, orphans, pardons>>
      BY <1>1, <2>2 DEF ClaimEffectExecution, SetEffect, TypeOK, TypeJournal, world
    <3> QED
      BY <3>1, <3>2 DEF Budget, Used
  <2> QED
    BY <2>1, <2>2
<1>2. CASE effect[node[w]] # "reserved"
  BY <1>2, WorkerLeavesCall DEF ClaimEffectExecution, world
<1> QED
  BY <1>1, <1>2

\* A call that takes effect exchanges the permit of its worker for a
\* performed effect.
LEMMA CallLandsBudget ==
    ASSUME TypeOK, Budget, NEW w \in Workers, CallLands(w)
    PROVE  Budget'
<1> SUFFICES ASSUME NEW k \in Nodes
             PROVE  /\ Used(k)' <= 1 + pardons'[k]
                    /\ effect'[k] \in {"absent", "reserved"}
                          => Used(k)' <= pardons'[k]
  BY DEF Budget
<1>1. CASE k = node[w]
  <2>1. performed'[k] = performed[k] + 1 /\ result'[w] # NULL
    BY <1>1 DEF CallLands, TypeOK, TypeWorld, TypeWorks, NULL
  <2>2. w \in Permits(k) /\ Permits(k)' = Permits(k) \ {w}
    BY <1>1, <2>1 DEF Permits, CallLands, TypeOK, TypeWorks
  <2>3. Cardinality(Permits(k)') = Cardinality(Permits(k)) - 1
    BY <2>2, PermitsFinite, FS_RemoveElement
  <2> QED
    BY <2>1, <2>3, PermitsFinite
       DEF Budget, Used, CallLands, TypeOK, TypeWorld, journal
<1>2. CASE k # node[w]
  <2>1. Permits(k)' = Permits(k)
    BY <1>2 DEF Permits, CallLands, TypeOK, TypeWorks
  <2> QED
    BY <1>2, <2>1 DEF Budget, Used, CallLands, TypeOK, TypeWorld, journal
<1> QED
  BY <1>1, <1>2

\* A call abandoned on an error or a timeout exchanges the permit for an
\* orphan that may still land; the effect is not released.
LEMMA CallAmbiguousBudget ==
    ASSUME TypeOK, Budget, NEW w \in Workers, CallAmbiguous(w)
    PROVE  Budget'
<1>0. \A k \in Nodes : Permits(k)' = Permits(k) \ {w}
  BY PermitsShrink DEF CallAmbiguous, Halt, TypeOK, TypeWorks
<1>1. CASE UNCHANGED orphans
  BY <1>0, <1>1, BudgetFrame DEF CallAmbiguous, journal
<1>2. CASE result[w] = NULL /\ orphans' = [orphans EXCEPT ![node[w]] = @ + 1]
  <2> SUFFICES ASSUME NEW k \in Nodes
               PROVE  /\ Used(k)' <= 1 + pardons'[k]
                      /\ effect'[k] \in {"absent", "reserved"}
                            => Used(k)' <= pardons'[k]
    BY DEF Budget
  <2>1. CASE k = node[w]
    <3>1. orphans'[k] = orphans[k] + 1
      BY <1>2, <2>1 DEF TypeOK, TypeWorld
    <3>2. w \in Permits(k)
      BY <1>2, <2>1 DEF Permits, CallAmbiguous
    <3>3. Cardinality(Permits(k)') = Cardinality(Permits(k)) - 1
      BY <1>0, <3>2, PermitsFinite, FS_RemoveElement
    <3> QED
      BY <3>1, <3>3, PermitsFinite
         DEF Budget, Used, CallAmbiguous, TypeOK, TypeWorld, journal
  <2>2. CASE k # node[w]
    <3>1. Permits(k)' = Permits(k) /\ orphans'[k] = orphans[k]
      BY <1>0, <1>2, <2>2 DEF Permits, TypeOK, TypeWorld
    <3> QED
      BY <3>1 DEF Budget, Used, CallAmbiguous, journal
  <2> QED
    BY <2>1, <2>2
<1> QED
  BY <1>1, <1>2 DEF CallAmbiguous

\* A call that proves it changed nothing keeps its permit until the effect is
\* released.
LEMMA CallUnchangedBudget ==
    ASSUME TypeOK, Budget, NEW w \in Workers, CallUnchanged(w)
    PROVE  Budget'
<1>1. \A k \in Nodes : Permits(k)' = Permits(k)
  BY DEF Permits, CallUnchanged, WorkTo, TypeOK, TypeWorks
<1> QED
  BY <1>1, BudgetFrame DEF CallUnchanged, journal, world

\* Releasing an unchanged effect makes it claimable again and gives the
\* permit up in the same step.
LEMMA ReleaseUnchangedEffectBudget ==
    ASSUME TypeOK, Budget, NEW w \in Workers, ReleaseUnchangedEffect(w)
    PROVE  Budget'
<1>1. CASE ~(effect[node[w]] = "executed" /\ digest[node[w]] = NULL)
  BY <1>1, WorkerLeavesCall DEF ReleaseUnchangedEffect, world
<1>2. CASE effect[node[w]] = "executed" /\ digest[node[w]] = NULL
  <2> SUFFICES ASSUME NEW k \in Nodes
               PROVE  /\ Used(k)' <= 1 + pardons'[k]
                      /\ effect'[k] \in {"absent", "reserved"}
                            => Used(k)' <= pardons'[k]
    BY DEF Budget
  <2>0. Permits(k)' = Permits(k) \ {w} /\ UNCHANGED <<performed, orphans, pardons>>
    BY <1>2, PermitsShrink DEF ReleaseUnchangedEffect, world
  <2>1. CASE k = node[w]
    <3>1. w \in Permits(k)
      BY <2>1 DEF Permits, ReleaseUnchangedEffect
    <3>2. Cardinality(Permits(k)') = Cardinality(Permits(k)) - 1
      BY <2>0, <3>1, PermitsFinite, FS_RemoveElement
    <3> QED
      BY <2>0, <3>2, PermitsFinite DEF Budget, Used, TypeOK, TypeWorld
  <2>2. CASE k # node[w]
    <3>1. Permits(k)' = Permits(k) /\ effect'[k] = effect[k]
      BY <1>2, <2>0, <2>2
         DEF Permits, ReleaseUnchangedEffect, SetEffect, TypeOK, TypeJournal
    <3> QED
      BY <2>0, <3>1 DEF Budget, Used
  <2> QED
    BY <2>1, <2>2
<1> QED
  BY <1>1, <1>2

\* An orphan lands or is gone for good: the sum does not grow.
LEMMA OrphanLandsBudget ==
    ASSUME TypeOK, Budget, NEW k \in Nodes, OrphanLands(k)
    PROVE  Budget'
<1> SUFFICES ASSUME NEW m \in Nodes
             PROVE  /\ Used(m)' <= 1 + pardons'[m]
                    /\ effect'[m] \in {"absent", "reserved"}
                          => Used(m)' <= pardons'[m]
  BY DEF Budget
<1>1. Permits(m)' = Permits(m)
  BY DEF Permits, OrphanLands, works
<1>2. performed'[m] + orphans'[m] <= performed[m] + orphans[m]
  BY DEF OrphanLands, TypeOK, TypeWorld
<1>3. performed'[m] \in Nat /\ orphans'[m] \in Nat
  BY OrphanLandsType DEF TypeOK, TypeWorld
<1>4. Used(m)' <= Used(m) /\ Used(m) \in Nat /\ Used(m)' \in Nat
  BY <1>1, <1>2, <1>3, PermitsFinite DEF Used, TypeOK, TypeWorld
<1> QED
  BY <1>4 DEF Budget, OrphanLands, TypeOK, TypeWorld, journal

\* The user who releases an effect by mistake is charged for it.
LEMMA ResolveDidNotHappenBudget ==
    ASSUME TypeOK, Budget, NEW k \in Nodes, NEW i \in DOMAIN log,
           ResolveDidNotHappen(k, i)
    PROVE  Budget'
<1> SUFFICES ASSUME NEW m \in Nodes
             PROVE  /\ Used(m)' <= 1 + pardons'[m]
                    /\ effect'[m] \in {"absent", "reserved"}
                          => Used(m)' <= pardons'[m]
  BY DEF Budget
<1>1. Permits(m)' = Permits(m)
  BY DEF Permits, ResolveDidNotHappen, works
<1>2. Used(m)' = Used(m)
  BY <1>1 DEF Used, ResolveDidNotHappen
<1>3. CASE m # k
  <2>1. effect'[m] = effect[m] /\ pardons'[m] = pardons[m]
    BY <1>3 DEF ResolveDidNotHappen, SetEffect, TypeOK, TypeJournal, TypeWorld
  <2> QED
    BY <1>2, <2>1 DEF Budget
<1>4. CASE m = k /\ MayHaveHappened(k)
  <2>1. pardons'[k] = pardons[k] + 1
    BY <1>4 DEF ResolveDidNotHappen, TypeOK, TypeWorld
  <2>2. Used(k) \in Nat
    BY PermitsFinite DEF Used, TypeOK, TypeWorld
  <2> QED
    BY <1>2, <1>4, <2>1, <2>2 DEF Budget, TypeOK, TypeWorld
<1>5. CASE m = k /\ ~MayHaveHappened(k)
  <2>1. Permits(k) = {}
    BY <1>5 DEF MayHaveHappened, Permits
  <2>2. performed[k] = 0 /\ orphans[k] = 0
    BY <1>5 DEF MayHaveHappened, TypeOK, TypeWorld
  <2>3. Used(k) = 0
    BY <2>1, <2>2, FS_EmptySet DEF Used
  <2>4. pardons'[k] \in Nat
    BY <1>5 DEF ResolveDidNotHappen, TypeOK, TypeWorld
  <2> QED
    BY <1>2, <1>5, <2>3, <2>4
<1> QED
  BY <1>3, <1>4, <1>5

\* A crash turns the permits of calls in flight into at most as many orphans.
LEMMA CrashBudget == ASSUME TypeOK, Budget, Crash PROVE Budget'
<1> SUFFICES ASSUME NEW k \in Nodes
             PROVE  /\ Used(k)' <= 1 + pardons'[k]
                    /\ effect'[k] \in {"absent", "reserved"}
                          => Used(k)' <= pardons'[k]
  BY DEF Budget
<1>1. Permits(k)' = {}
  BY DEF Permits, Crash, Exit
<1>2. PICK late \in SUBSET Workers :
         orphans'[k] = orphans[k] + Cardinality(Outstanding(k) \cap late)
  BY DEF Crash
<1>3. Outstanding(k) \cap late \subseteq Permits(k)
  BY DEF Outstanding, Permits
<1>4. /\ Cardinality(Outstanding(k) \cap late) <= Cardinality(Permits(k))
      /\ Cardinality(Outstanding(k) \cap late) \in Nat
  BY <1>3, PermitsFinite, FS_Subset, FS_CardinalityType
<1>5. Used(k)' <= Used(k) /\ Used(k) \in Nat /\ Used(k)' \in Nat
  BY <1>1, <1>2, <1>4, PermitsFinite, FS_EmptySet
     DEF Used, Crash, TypeOK, TypeWorld
<1> QED
  BY <1>5 DEF Budget, Crash, TypeOK, TypeWorld, journal

\* Starting a worker for a node issues no permit.
LEMMA NextNodeBudget ==
    ASSUME TypeOK, Budget, NEW t \in Threads, NextNode(t)
    PROVE  Budget'
<1>1. PICK k \in Nodes, w \in Workers :
         node' = [node EXCEPT ![w] = k] /\ WorkTo(w, "bind")
  BY DEF NextNode
<1>2. \A v \in Workers \ {w} : node'[v] = node[v] /\ result'[v] = result[v]
  BY <1>1 DEF NextNode, TypeOK, TypeWorks
<1> QED
  BY <1>1, <1>2, WorkerLeavesCall DEF NextNode, journal, world

\* Ending workers gives permits up at most.
LEMMA ExitBudget ==
    ASSUME TypeOK, Budget, NEW S, Exit(S), UNCHANGED <<journal, world>>
    PROVE  Budget'
<1>1. \A k \in Nodes : Permits(k)' \subseteq Permits(k)
  BY DEF Permits, Exit
<1> QED
  BY <1>1, BudgetFrame DEF journal, world

\* Every step of a thread that runs a workflow preserves Budget.
LEMMA LoopStepBudget ==
    ASSUME TypeOK, Budget, NEW t \in Threads,
           LoopStep(t) \/ ResumeAfterPermission(t) \/ CheckpointFails(t)
    PROVE  Budget'
<1>1. CASE NextNode(t)
  BY <1>1, NextNodeBudget
<1>2. CASE WorkerReports(t)
  BY <1>2, ExitBudget DEF WorkerReports
<1>3. CASE StartLoop(t) \/ PauseForPermission(t) \/ NodeCompleted(t)
              \/ NodeFailed(t)
  BY <1>3, UnchangedBudget DEF StartLoop, PauseForPermission, NodeCompleted,
     NodeFailed, Checkpoint, journal, works, world
<1>4. CASE NextNodeFails(t) \/ AllCompleted(t) \/ NodeTimesOut(t)
              \/ CheckpointFails(t) \/ ResumeAfterPermission(t)
  BY <1>4, UnchangedBudget DEF NextNodeFails, AllCompleted, NodeTimesOut,
     CheckpointFails, ResumeAfterPermission, journal, works, world
<1>5. CASE FinishRun(t) \/ RequeueTransientFailure(t) \/ ProjectTask(t)
              \/ ProjectTaskWrite(t) \/ PersistResult(t)
  BY <1>5, UnchangedBudget DEF FinishRun, RequeueTransientFailure,
     ProjectTask, ProjectTaskWrite, PersistResult, journal, works, world
<1> QED
  BY <1>1, <1>2, <1>3, <1>4, <1>5 DEF LoopStep

\* Returning from reconcile_all to its caller issues no permit.
LEMMA ReconcileReturnsBudget ==
    ASSUME TypeOK, Budget, NEW c \in Callers, ReconcileReturns(c),
           UNCHANGED <<journal, world>>
    PROVE  Budget'
<1>1. CASE c \in Workers
  BY <1>1, WorkerLeavesCall DEF ReconcileReturns, WorkTo, journal, world
<1>2. CASE c \notin Workers
  BY <1>2, UnchangedBudget DEF ReconcileReturns, journal, world
<1> QED
  BY <1>1, <1>2

\* Every step of reconcile_all preserves Budget.
LEMMA ReconcileStepBudget ==
    ASSUME TypeOK, Budget, NEW c \in Callers, ReconcileStep(c)
    PROVE  Budget'
<1>1. CASE ReconcileRows(c) \/ ReconcileCheck(c) \/ ReconcileUpsert(c)
              \/ ReconcileState(c)
  BY <1>1, UnchangedBudget DEF ReconcileRows, ReconcileCheck,
     ReconcileUpsert, ReconcileState, journal, works, world
<1>2. CASE ReconcileList(c)
  BY <1>2, ReconcileReturnsBudget, UnchangedBudget
     DEF ReconcileList, journal, works, world
<1>3. CASE ReconcileUpdate(c)
  BY <1>3, ReconcileReturnsBudget DEF ReconcileUpdate
<1> QED
  BY <1>1, <1>2, <1>3 DEF ReconcileStep

\* A reservation inserts a claimable effect only where there was none.
LEMMA ReserveEffectBudget ==
    ASSUME TypeOK, Budget, NEW w \in Workers, ReserveEffect(w)
    PROVE  Budget'
<1>1. \A k \in Nodes : effect'[k] \in {"absent", "reserved"}
                          => effect[k] \in {"absent", "reserved"}
  BY DEF ReserveEffect, SetEffect, TypeOK, TypeJournal, TypeWorks
<1> QED
  BY <1>1, WorkerLeavesCall DEF ReserveEffect, world

\* Reconciling a verified effect never makes it claimable.
LEMMA ReconcileVerifiedEffectBudget ==
    ASSUME TypeOK, Budget, NEW w \in Workers, ReconcileVerifiedEffect(w)
    PROVE  Budget'
<1>1. \A k \in Nodes : effect'[k] \in {"absent", "reserved"}
                          => effect[k] \in {"absent", "reserved"}
  BY DEF ReconcileVerifiedEffect, SetEffect, TypeOK, TypeJournal, TypeWorks
<1>2. \A v \in Workers \ {w} : node'[v] = node[v] /\ result'[v] = result[v]
  BY DEF ReconcileVerifiedEffect, Report, Halt, TypeOK, TypeWorks
<1>3. WorkTo(w, "done") \/ WorkTo(w, "haltEffect")
  BY DEF ReconcileVerifiedEffect, Report, Halt
<1> QED
  BY <1>1, <1>2, <1>3, WorkerLeavesCall DEF ReconcileVerifiedEffect, world

\* Marking an effect for verification never makes it claimable.
LEMMA HaltEffectBudget ==
    ASSUME TypeOK, Budget, NEW w \in Workers, HaltEffect(w)
    PROVE  Budget'
<1>1. \A k \in Nodes : effect'[k] \in {"absent", "reserved"}
                          => effect[k] \in {"absent", "reserved"}
  BY DEF HaltEffect, SetEffect, TypeOK, TypeJournal, TypeWorks
<1>2. \A v \in Workers \ {w} : node'[v] = node[v] /\ result'[v] = result[v]
  BY DEF HaltEffect, Report, TypeOK, TypeWorks
<1>3. WorkTo(w, "done") \/ WorkTo(w, "haltTask")
  BY DEF HaltEffect, Report
<1> QED
  BY <1>1, <1>2, <1>3, WorkerLeavesCall DEF HaltEffect, world

\* The steps of a worker that leave every row of the journal alone.
LEMMA QuietWorkStepBudget ==
    ASSUME TypeOK, Budget, NEW w \in Workers,
           \/ ReadBack(w) \/ LoadReceipt(w) \/ ClaimLoadReceipt(w)
           \/ CallSucceeds(w) \/ VerifyEffect(w) \/ RecordReceipt(w)
           \/ HaltTask(w) \/ HaltEvent(w) \/ JournalFails(w)
    PROVE  Budget'
<1>1. UNCHANGED <<effect, node, performed, orphans, pardons>>
  BY DEF ReadBack, LoadReceipt, ClaimLoadReceipt, CallSucceeds, VerifyEffect,
     RecordReceipt, HaltTask, HaltEvent, JournalFails, journal, world
<1>2. \A v \in Workers \ {w} : result'[v] = result[v]
  BY DEF ReadBack, LoadReceipt, ClaimLoadReceipt, CallSucceeds, VerifyEffect,
     RecordReceipt, HaltTask, HaltEvent, JournalFails, Report, Halt, TypeOK,
     TypeWorks
<1>3. \E s \in WorkSteps \ {"calling", "release"} : WorkTo(w, s)
  BY DEF ReadBack, LoadReceipt, ClaimLoadReceipt, CallSucceeds, VerifyEffect,
     RecordReceipt, HaltTask, HaltEvent, JournalFails, Report, Halt, WorkSteps
<1> QED
  BY <1>1, <1>2, <1>3, WorkerLeavesCall

\* Every step of a node worker preserves Budget.
LEMMA WorkStepBudget ==
    ASSUME TypeOK, Budget, NEW w \in Workers,
           WorkStep(w) \/ CallLands(w) \/ JournalFails(w)
    PROVE  Budget'
<1>1. CASE ReconcileStep(w)
  BY <1>1, ReconcileStepBudget DEF Callers
<1>2. CASE WorkerExits(w)
  BY <1>2, ExitBudget DEF WorkerExits
<1> QED
  BY <1>1, <1>2, QuietWorkStepBudget, ReserveEffectBudget,
     ClaimEffectExecutionBudget, CallUnchangedBudget, CallAmbiguousBudget,
     ReconcileVerifiedEffectBudget, ReleaseUnchangedEffectBudget,
     HaltEffectBudget, CallLandsBudget DEF WorkStep

\* Budget is inductive relative to TypeOK.
LEMMA NextBudget == ASSUME TypeOK, Budget, [Next]_vars PROVE Budget'
<1>1. CASE SchedulerStep \/ OccurrenceDue \/ ClaimLapses
  BY <1>1, UnchangedBudget DEF SchedulerStep, BeginRun, RetryRun, OtherRun,
     OccurrenceDue, ClaimLapses, journal, works, world
<1>2. CASE \E t \in Threads :
              LoopStep(t) \/ ResumeAfterPermission(t) \/ CheckpointFails(t)
  BY <1>2, LoopStepBudget
<1>3. CASE \E w \in Workers : WorkStep(w) \/ CallLands(w) \/ JournalFails(w)
  BY <1>3, WorkStepBudget
<1>4. CASE \E c \in Ledger :
              ReconcileStep(c) \/ TaskRetryCheck(c) \/ TaskRetry(c)
  <2>1. CASE \E c \in Ledger : ReconcileStep(c)
    BY <2>1, ReconcileStepBudget DEF Callers
  <2>2. CASE \E c \in Ledger : TaskRetryCheck(c) \/ TaskRetry(c)
    BY <2>2, UnchangedBudget DEF TaskRetryCheck, TaskRetry, journal, works,
       world
  <2> QED
    BY <1>4, <2>1, <2>2
<1>5. CASE \E k \in Nodes : OrphanLands(k)
  BY <1>5, OrphanLandsBudget
<1>6. CASE \E k \in Nodes, i \in DOMAIN log : ResolveDidNotHappen(k, i)
  BY <1>6, ResolveDidNotHappenBudget
<1>7. CASE \E k \in Nodes, i \in DOMAIN log :
              \/ \E d \in {"happened", "stop_without_repeating"} :
                    ResolveStop(k, i, d)
              \/ ResolveStopWithoutDetails(k, i)
  BY <1>7, UnchangedBudget DEF ResolveStopWithoutDetails, ResolveStop,
     journal, works, world
<1>8. CASE Crash
  BY <1>8, CrashBudget
<1>9. CASE UNCHANGED vars
  BY <1>9, UnchangedBudget DEF vars
<1> QED
  BY <1>1, <1>2, <1>3, <1>4, <1>5, <1>6, <1>7, <1>8, <1>9 DEF Next

\* Nothing has been performed and no permit is out initially.
LEMMA InitBudget == Init => Budget
<1> SUFFICES ASSUME Init, NEW k \in Nodes
             PROVE  /\ Used(k) <= 1 + pardons[k]
                    /\ effect[k] \in {"absent", "reserved"}
                          => Used(k) <= pardons[k]
  BY DEF Budget
<1>1. Permits(k) = {}
  BY DEF Init, Permits
<1> QED
  BY <1>1, FS_EmptySet DEF Init, Used

\* The journal never has more attempts at an effect under way, performed or
\* still able to land than its budget, and a claimable row has one in reserve:
\* reservation, claim, release, halt, recovery, crash and the user's decisions
\* in any order (effect_journal.rs, effect_verification.rs).
THEOREM BudgetHolds == Spec => []Budget
<1>1. Init => Budget
  BY InitBudget
<1>2. TypeOK /\ Budget /\ [Next]_vars => Budget'
  BY NextBudget
<1> QED
  BY <1>1, <1>2, TypeCorrect, PTL DEF Spec

\* An external effect is performed at most once, and once more per decision of
\* the user that it did not happen although it had or still could: no retry,
\* timeout, resumed run or restart repeats it.
THEOREM EffectAtMostOnce == Spec => []AtMostOnce
<1>1. TypeOK /\ Budget => AtMostOnce
  <2> SUFFICES ASSUME TypeOK, Budget, NEW k \in Nodes
               PROVE  performed[k] <= 1 + pardons[k]
    BY DEF AtMostOnce
  <2>1. Used(k) <= 1 + pardons[k]
    BY DEF Budget
  <2> QED
    BY <2>1, PermitsFinite DEF Used, TypeOK, TypeWorld
<1> QED
  BY <1>1, TypeCorrect, BudgetHolds, PTL

(***************************************************************************)
(* The journal implements EffectOnce.                                      *)
(***************************************************************************)

\* A step that neither performs nor takes back an effect is a stutter of the
\* abstract specification.
LEMMA AbstractStutter ==
    ASSUME UNCHANGED <<performed, pardons>>
    PROVE  UNCHANGED Once!vars
BY DEF Once!vars

\* The loop of a run, a reconciliation and the scheduler perform nothing.
LEMMA LoopsAreQuiet ==
    ASSUME \/ SchedulerStep \/ OccurrenceDue \/ ClaimLapses \/ Crash
           \/ \E t \in Threads :
                 LoopStep(t) \/ ResumeAfterPermission(t) \/ CheckpointFails(t)
           \/ \E c \in Callers : ReconcileStep(c)
           \/ \E c \in Ledger : TaskRetryCheck(c) \/ TaskRetry(c)
    PROVE  UNCHANGED <<performed, pardons>>
<1> USE DEF world
<1>1. CASE SchedulerStep \/ OccurrenceDue \/ ClaimLapses \/ Crash
  BY <1>1 DEF SchedulerStep, BeginRun, RetryRun, OtherRun, OccurrenceDue,
     ClaimLapses, Crash
<1>2. CASE \E t \in Threads : ResumeAfterPermission(t) \/ CheckpointFails(t)
  BY <1>2 DEF ResumeAfterPermission, CheckpointFails
<1>3. CASE \E t \in Threads : LoopStep(t)
  BY <1>3 DEF LoopStep, StartLoop, NextNode, NextNodeFails, PauseForPermission,
     AllCompleted, WorkerReports, NodeTimesOut, NodeCompleted, NodeFailed,
     FinishRun, RequeueTransientFailure, ProjectTask, ProjectTaskWrite,
     PersistResult, Checkpoint
<1>4. CASE \E c \in Callers : ReconcileStep(c)
  BY <1>4 DEF ReconcileStep, ReconcileRows, ReconcileCheck, ReconcileUpsert,
     ReconcileList, ReconcileState, ReconcileUpdate
<1>5. CASE \E c \in Ledger : TaskRetryCheck(c) \/ TaskRetry(c)
  BY <1>5 DEF TaskRetryCheck, TaskRetry
<1> QED
  BY <1>1, <1>2, <1>3, <1>4, <1>5

\* Of a worker's steps only the landing of its call performs anything.
LEMMA WorkersAreQuiet ==
    ASSUME NEW w \in Workers, WorkStep(w) \/ JournalFails(w)
    PROVE  UNCHANGED <<performed, pardons>>
<1>1. CASE ReconcileStep(w)
  BY <1>1, LoopsAreQuiet DEF Callers
<1>2. CASE JournalFails(w)
  BY <1>2 DEF JournalFails, world
<1>3. CASE WorkStep(w) /\ ~ReconcileStep(w)
  BY <1>3 DEF WorkStep, ReserveEffect, ReadBack, LoadReceipt,
     ClaimEffectExecution, ClaimLoadReceipt, CallSucceeds, CallUnchanged,
     CallAmbiguous, VerifyEffect, RecordReceipt, ReconcileVerifiedEffect,
     ReleaseUnchangedEffect, HaltEffect, HaltTask, HaltEvent, WorkerExits,
     world
<1> QED
  BY <1>1, <1>2, <1>3

\* A call that lands performs an effect that is still allowed: its permit was
\* in the budget.
LEMMA CallLandsPerforms ==
    ASSUME TypeOK, Budget, NEW w \in Workers, CallLands(w)
    PROVE  Once!Perform(node[w])
<1> DEFINE k == node[w]
<1>1. k \in Nodes /\ performed[k] \in Nat /\ orphans[k] \in Nat /\ pardons[k] \in Nat
  BY DEF TypeOK, TypeWorks, TypeWorld
<1>2. w \in Permits(k)
  BY DEF CallLands, Permits
<1>3. Cardinality(Permits(k)) \in Nat /\ Cardinality(Permits(k)) # 0
  BY <1>2, PermitsFinite, FS_EmptySet
<1>4. performed[k] < 1 + pardons[k]
  BY <1>1, <1>3 DEF Budget, Used
<1> QED
  BY <1>1, <1>4 DEF CallLands, Once!Perform

\* So does an orphan that lands; one that never will is a stutter.
LEMMA OrphanLandsPerforms ==
    ASSUME TypeOK, Budget, NEW k \in Nodes, OrphanLands(k)
    PROVE  Once!Perform(k) \/ UNCHANGED Once!vars
<1>1. CASE UNCHANGED performed
  BY <1>1, AbstractStutter DEF OrphanLands
<1>2. CASE performed' = [performed EXCEPT ![k] = @ + 1]
  <2>1. performed[k] \in Nat /\ orphans[k] \in Nat /\ pardons[k] \in Nat
    BY DEF TypeOK, TypeWorld
  <2>2. performed[k] < 1 + pardons[k]
    BY <2>1, PermitsFinite DEF Budget, Used, OrphanLands
  <2> QED
    BY <1>2, <2>2 DEF OrphanLands, Once!Perform
<1> QED
  BY <1>1, <1>2 DEF OrphanLands

\* "It did not happen" takes the effect back, or releases what never happened.
LEMMA ResolveDidNotHappenTakesBack ==
    ASSUME TypeOK, NEW k \in Nodes, NEW i \in DOMAIN log,
           ResolveDidNotHappen(k, i)
    PROVE  Once!TakeBack(k) \/ UNCHANGED Once!vars
<1>1. CASE MayHaveHappened(k)
  <2>1. pardons' = [pardons EXCEPT ![k] = @ + 1] /\ UNCHANGED performed
    BY <1>1 DEF ResolveDidNotHappen
  <2>2. \A j \in Nodes : 1 + pardons'[j] = IF j = k THEN (1 + pardons[k]) + 1
                                                    ELSE 1 + pardons[j]
    BY <2>1 DEF TypeOK, TypeWorld
  <2> QED
    BY <2>1, <2>2 DEF Once!TakeBack
<1>2. CASE ~MayHaveHappened(k)
  BY <1>2, AbstractStutter DEF ResolveDidNotHappen
<1> QED
  BY <1>1, <1>2

\* Every step of the system is a step of the abstract specification or leaves
\* it alone.
LEMMA NextImplements ==
    ASSUME TypeOK, Budget, [Next]_vars
    PROVE  [Once!Next]_(Once!vars)
<1>1. CASE \/ SchedulerStep \/ OccurrenceDue \/ ClaimLapses \/ Crash
           \/ \E t \in Threads :
                 LoopStep(t) \/ ResumeAfterPermission(t) \/ CheckpointFails(t)
           \/ \E c \in Ledger :
                 ReconcileStep(c) \/ TaskRetryCheck(c) \/ TaskRetry(c)
  BY <1>1, LoopsAreQuiet, AbstractStutter DEF Callers
<1>2. CASE \E w \in Workers : WorkStep(w) \/ JournalFails(w)
  BY <1>2, WorkersAreQuiet, AbstractStutter
<1>3. CASE \E w \in Workers : CallLands(w)
  BY <1>3, CallLandsPerforms DEF Once!Next, TypeOK, TypeWorks
<1>4. CASE \E k \in Nodes : OrphanLands(k)
  BY <1>4, OrphanLandsPerforms DEF Once!Next
<1>5. CASE \E k \in Nodes, i \in DOMAIN log : ResolveDidNotHappen(k, i)
  BY <1>5, ResolveDidNotHappenTakesBack DEF Once!Next
<1>6. CASE \E k \in Nodes, i \in DOMAIN log :
              \/ \E d \in {"happened", "stop_without_repeating"} :
                    ResolveStop(k, i, d)
              \/ ResolveStopWithoutDetails(k, i)
  BY <1>6, AbstractStutter DEF ResolveStopWithoutDetails, ResolveStop, world
<1>7. CASE UNCHANGED vars
  BY <1>7, AbstractStutter DEF vars
<1> QED
  BY <1>1, <1>2, <1>3, <1>4, <1>5, <1>6, <1>7 DEF Next

\* The effect journal, with its timeouts, retries, crashes, lost answers and
\* late calls, implements the abstract promise of EffectOnce for every number
\* of nodes, workers and approvers.
THEOREM JournalImplementsEffectOnce == Spec => ImplementsEffectOnce
<1>1. Init => Once!Init
  BY DEF Init, Once!Init
<1>2. TypeOK /\ Budget /\ [Next]_vars => [Once!Next]_(Once!vars)
  BY NextImplements
<1> QED
  BY <1>1, <1>2, TypeCorrect, BudgetHolds, PTL
     DEF Spec, ImplementsEffectOnce, Once!Spec

-----------------------------------------------------------------------------
(***************************************************************************)
(* What the records of a run say is true, for every value of the           *)
(* constants: a verified row has its receipt, nothing is reported as done  *)
(* that has not happened, no verification request is answered twice, and a *)
(* stopped effect is not called.                                           *)
(*                                                                         *)
(* None of these properties is inductive: between the outside world and    *)
(* the row that reports on it lie a worker's result, a receipt, the        *)
(* worker's report, the loop's copy of the instance and the reconciler's   *)
(* copy of its status, each handed on in a step of its own. The invariants *)
(* say what each of them may hold.                                         *)
(***************************************************************************)

\* The steps at which a worker may hold the result of a call.
Holding == {"calling", "verify", "record", "reconcile"}

\* A worker's result is that of an effect that has happened, it has one when
\* it verifies, and the receipt is stored when it updates the row. A worker in
\* reconcile_all has not begun with its effect.
WorkerAgrees(w) ==
    /\ result[w] # NULL => wpc[w] \in Holding /\ performed[node[w]] > 0
    /\ wpc[w] \in {"verify", "record", "reconcile"} => result[w] # NULL
    /\ wpc[w] = "reconcile" => receipt[node[w]] # NULL
    /\ outcome[w] = "Completed" => wpc[w] = "done" /\ performed[node[w]] > 0
    /\ recon[w].step # "idle" => wpc[w] = "bind"

WorkersAgree == \A w \in Workers : WorkerAgrees(w)

\* Rows rest on receipts, and receipts on effects that have happened.
ReceiptsAgree ==
    \A k \in Nodes : /\ effect[k] = "verified" => receipt[k] # NULL
                     /\ receipt[k] # NULL => performed[k] > 0

\* A loop waits for a worker of its own, which runs the loop's node; what the
\* loop takes for completed has happened.
LoopAgrees(t) ==
    /\ on[t] # NULL => /\ pc[t] = "waiting"
                       /\ node[on[t]] = at[t] /\ wpc[on[t]] # "free"
    /\ code[t] # "Completed"
    /\ pc[t] = "completed" => performed[at[t]] > 0

OwnWorker == \A t, u \in Threads : on[t] = on[u] /\ on[t] # NULL => t = u

LoopsAgree == (\A t \in Threads : LoopAgrees(t)) /\ OwnWorker

AllPerformed == \A k \in Nodes : performed[k] > 0

\* An instance, stored or in memory, reports nothing that has not happened.
Genuine(instance) ==
    /\ \A k \in Nodes : instance.nodes[k] = "Completed" => performed[k] > 0
    /\ instance.status = "Completed" => AllPerformed

ReportsAgree ==
    /\ Genuine(inst) /\ \A t \in Threads : Genuine(mem[t])
    /\ \A c \in Callers : recon[c].status = "Completed" => AllPerformed
    /\ task.state = "completed" => AllPerformed

RecordsAgree == WorkersAgree /\ ReceiptsAgree /\ LoopsAgree /\ ReportsAgree

\* An answer names an earlier request for the same effect.
AnswersNameRequests ==
    \A i \in DOMAIN log :
        log[i].type = "resolved" => /\ log[i].ref \in 1 .. i - 1
                                    /\ log[log[i].ref].key = log[i].key

\* The row of a stopped effect cannot be claimed.
StopHolds == \A k \in Nodes : stopped[k] => effect[k] \in {"executed", "verified"}

(***************************************************************************)
(* Steps that leave a part alone.                                          *)
(***************************************************************************)

\* What has happened stays so, and no receipt is taken back.
PerformedKept == \A k \in Nodes : performed[k] > 0 => performed'[k] > 0
ReceiptsKept == \A k \in Nodes : receipt[k] # NULL => receipt'[k] # NULL

\* A step that performs nothing takes nothing back.
LEMMA PerformedUnchanged == ASSUME UNCHANGED performed PROVE PerformedKept
BY DEF PerformedKept

\* Nothing about worker v changes.
WorkerStays(v) ==
    /\ wpc'[v] = wpc[v] /\ node'[v] = node[v] /\ result'[v] = result[v]
    /\ outcome'[v] = outcome[v] /\ recon'[v] = recon[v]

\* A worker that a step leaves alone still agrees.
LEMMA WorkerFrame ==
    ASSUME TypeOK, PerformedKept, ReceiptsKept, NEW v \in Workers,
           WorkerAgrees(v), WorkerStays(v)
    PROVE  WorkerAgrees(v)'
BY DEF WorkerAgrees, WorkerStays, PerformedKept, ReceiptsKept, TypeOK, TypeWorks

\* A step of one worker leaves the others as they were.
LEMMA OneWorker ==
    ASSUME TypeOK, WorkersAgree, PerformedKept, ReceiptsKept, NEW w \in Workers,
           \A v \in Workers \ {w} : WorkerStays(v), WorkerAgrees(w)'
    PROVE  WorkersAgree'
<1> SUFFICES ASSUME NEW v \in Workers PROVE WorkerAgrees(v)'
  BY DEF WorkersAgree
<1>1. CASE v = w
  BY <1>1
<1>2. CASE v # w
  BY <1>2, WorkerFrame DEF WorkersAgree
<1> QED
  BY <1>1, <1>2

\* A step that changes no worker.
LEMMA WorkersFrame ==
    ASSUME TypeOK, WorkersAgree, PerformedKept, ReceiptsKept,
           \A v \in Workers : WorkerStays(v)
    PROVE  WorkersAgree'
BY WorkerFrame DEF WorkersAgree

\* A step that changes no row and no receipt.
LEMMA ReceiptsFrame ==
    ASSUME ReceiptsAgree, PerformedKept, UNCHANGED receipt,
           \A k \in Nodes : effect'[k] = "verified" => effect[k] = "verified"
    PROVE  ReceiptsAgree'
BY DEF ReceiptsAgree, PerformedKept

\* A step that changes no loop, ends no worker somebody waits for and gives
\* it no other node.
LEMMA LoopsFrame ==
    ASSUME TypeOK, LoopsAgree, PerformedKept, UNCHANGED <<pc, at, on, code>>,
           \A v \in Workers : wpc[v] # "free"
              => wpc'[v] # "free" /\ node'[v] = node[v]
    PROVE  LoopsAgree'
<1>1. OwnWorker'
  BY DEF LoopsAgree, OwnWorker
<1>2. ASSUME NEW t \in Threads PROVE LoopAgrees(t)'
  <2>1. on[t] # NULL => on[t] \in Workers
    BY DEF TypeOK, TypeLoops
  <2>2. at[t] \in Nodes
    BY DEF TypeOK, TypeLoops
  <2> QED
    BY <2>1, <2>2 DEF LoopsAgree, LoopAgrees, PerformedKept
<1> QED
  BY <1>1, <1>2 DEF LoopsAgree

\* A step after which loop t waits for nobody.
LEMMA OneLoop ==
    ASSUME TypeOK, LoopsAgree, PerformedKept, NEW t \in Threads,
           \A u \in Threads \ {t} :
              /\ pc'[u] = pc[u] /\ at'[u] = at[u] /\ on'[u] = on[u]
              /\ code'[u] = code[u]
              /\ on[u] # NULL => /\ wpc'[on[u]] # "free"
                                 /\ node'[on[u]] = node[on[u]],
           on'[t] = NULL, code'[t] # "Completed",
           pc'[t] = "completed" => performed'[at'[t]] > 0
    PROVE  LoopsAgree'
<1>1. OwnWorker'
  BY DEF LoopsAgree, OwnWorker
<1>2. ASSUME NEW u \in Threads PROVE LoopAgrees(u)'
  <2>1. CASE u = t
    BY <2>1 DEF LoopAgrees
  <2>2. CASE u # t
    <3>1. at[u] \in Nodes
      BY DEF TypeOK, TypeLoops
    <3> QED
      BY <2>2, <3>1 DEF LoopsAgree, LoopAgrees, PerformedKept
  <2> QED
    BY <2>1, <2>2
<1> QED
  BY <1>1, <1>2 DEF LoopsAgree

\* What an instance reports stays true.
LEMMA GenuineStays ==
    ASSUME PerformedKept, NEW i, Genuine(i)
    PROVE  /\ \A k \in Nodes : i.nodes[k] = "Completed" => performed'[k] > 0
           /\ i.status = "Completed" => AllPerformed'
           /\ AllPerformed => AllPerformed'
BY DEF Genuine, AllPerformed, PerformedKept

\* A step that changes no instance, task or reconciliation.
LEMMA ReportsFrame ==
    ASSUME ReportsAgree, PerformedKept, UNCHANGED <<inst, mem>>,
           \A c \in Callers : recon'[c].status = "Completed"
                                 => recon[c].status = "Completed",
           task'.state = "completed" => task.state = "completed"
    PROVE  ReportsAgree'
<1>1. AllPerformed => AllPerformed'
  BY DEF AllPerformed, PerformedKept
<1>2. Genuine(inst)'
  BY <1>1 DEF ReportsAgree, Genuine, PerformedKept
<1>3. \A t \in Threads : Genuine(mem[t])'
  BY <1>1 DEF ReportsAgree, Genuine, PerformedKept
<1> QED
  BY <1>1, <1>2, <1>3 DEF ReportsAgree

(***************************************************************************)
(* The steps of a worker.                                                  *)
(***************************************************************************)

\* The steps of a worker's own, reconcile_all and its end left out.
EffectStep(w) ==
    \/ ReserveEffect(w) \/ ReadBack(w) \/ LoadReceipt(w)
    \/ ClaimEffectExecution(w) \/ ClaimLoadReceipt(w)
    \/ CallSucceeds(w) \/ CallUnchanged(w) \/ CallAmbiguous(w)
    \/ VerifyEffect(w) \/ RecordReceipt(w) \/ ReconcileVerifiedEffect(w)
    \/ ReleaseUnchangedEffect(w)
    \/ HaltEffect(w) \/ HaltTask(w) \/ HaltEvent(w)
    \/ CallLands(w) \/ JournalFails(w)

\* They concern the worker alone, and no loop.
LEMMA EffectStepStays ==
    ASSUME TypeOK, NEW w \in Workers, EffectStep(w)
    PROVE  /\ \A v \in Workers \ {w} : WorkerStays(v)
           /\ wpc[w] # "free" /\ wpc'[w] # "free" /\ node'[w] = node[w]
           /\ UNCHANGED <<pc, at, on, code, mem, inst>>
           /\ \A c \in Callers : recon'[c] \in {recon[c], NoRecon}
           /\ task'.state = "completed" => task.state = "completed"
<1> USE DEF TypeOK, TypeWorks, TypeRecon, WorkerStays, WorkTo, rows, loops, journal, world
<1>0. w \in Callers /\ \A v \in Workers : v \in Callers
  BY DEF Callers
<1>1. CASE ReserveEffect(w) \/ ReadBack(w) \/ LoadReceipt(w)
  BY <1>1 DEF ReserveEffect, ReadBack, LoadReceipt, Report
<1>2. CASE ClaimEffectExecution(w) \/ ClaimLoadReceipt(w)
  BY <1>2 DEF ClaimEffectExecution, ClaimLoadReceipt
<1>3. CASE CallSucceeds(w) \/ CallUnchanged(w) \/ CallAmbiguous(w)
  BY <1>3 DEF CallSucceeds, CallUnchanged, CallAmbiguous, Halt
<1>4. CASE VerifyEffect(w) \/ RecordReceipt(w) \/ ReconcileVerifiedEffect(w)
  BY <1>4 DEF VerifyEffect, RecordReceipt, ReconcileVerifiedEffect, Halt, Report
<1>5. CASE ReleaseUnchangedEffect(w) \/ HaltEffect(w)
  BY <1>5 DEF ReleaseUnchangedEffect, HaltEffect, Report
<1>6. CASE HaltTask(w) \/ HaltEvent(w)
  BY <1>6 DEF HaltTask, HaltEvent, Report
<1>7. CASE CallLands(w)
  BY <1>7 DEF CallLands
<1>8. CASE JournalFails(w)
  BY <1>0, <1>8 DEF JournalFails, Halt, Report
<1> QED
  BY <1>1, <1>2, <1>3, <1>4, <1>5, <1>6, <1>7, <1>8 DEF EffectStep

\* So it is enough to look at the worker and at its row.
LEMMA EffectStepRecords ==
    ASSUME TypeOK, RecordsAgree, NEW w \in Workers, EffectStep(w),
           PerformedKept, ReceiptsKept, WorkerAgrees(w)', ReceiptsAgree'
    PROVE  RecordsAgree'
<1> USE EffectStepStays
<1>1. WorkersAgree'
  BY OneWorker DEF RecordsAgree
<1>2. LoopsAgree'
  <2>1. \A v \in Workers : wpc[v] # "free"
           => wpc'[v] # "free" /\ node'[v] = node[v]
    BY DEF WorkerStays
  <2> QED
    BY <2>1, LoopsFrame DEF RecordsAgree
<1>3. ReportsAgree'
  <2>1. \A c \in Callers : recon'[c].status = "Completed"
                              => recon[c].status = "Completed"
    BY DEF NoRecon
  <2> QED
    BY <2>1, ReportsFrame DEF RecordsAgree
<1> QED
  BY <1>1, <1>2, <1>3 DEF RecordsAgree

\* Reserving and reading the row back, before the worker has a result.
LEMMA ReserveRecords ==
    ASSUME TypeOK, RecordsAgree, NEW w \in Workers,
           ReserveEffect(w) \/ ReadBack(w)
    PROVE  RecordsAgree'
<1> USE DEF RecordsAgree
<1>1. WorkerAgrees(w)
  BY DEF WorkersAgree
<1>2. PerformedKept /\ ReceiptsKept
  BY DEF ReserveEffect, ReadBack, PerformedKept, ReceiptsKept, journal, world
<1>3. WorkerAgrees(w)'
  BY <1>1 DEF WorkerAgrees, Holding, ReserveEffect, ReadBack, Report, WorkTo,
     TypeOK, TypeWorks, journal, world
<1>4. ReceiptsAgree'
  BY <1>2, ReceiptsFrame DEF ReserveEffect, ReadBack, SetEffect, TypeOK,
     TypeJournal, TypeWorks, journal
<1> QED
  BY <1>2, <1>3, <1>4, EffectStepRecords DEF EffectStep

\* A worker that loads a receipt has the result of an effect that happened.
LEMMA LoadRecords ==
    ASSUME TypeOK, RecordsAgree, NEW w \in Workers,
           LoadReceipt(w) \/ ClaimLoadReceipt(w)
    PROVE  RecordsAgree'
<1> USE DEF RecordsAgree
<1>1. WorkerAgrees(w) /\ node[w] \in Nodes
  BY DEF WorkersAgree, TypeOK, TypeWorks
<1>2. PerformedKept /\ ReceiptsKept
  BY DEF LoadReceipt, ClaimLoadReceipt, PerformedKept, ReceiptsKept, journal, world
<1>3. WorkerAgrees(w)'
  <2>1. receipt[node[w]] # NULL => performed[node[w]] > 0
    BY <1>1 DEF ReceiptsAgree
  <2>2. CASE LoadReceipt(w)
    BY <1>1, <2>1, <2>2 DEF WorkerAgrees, Holding, LoadReceipt, WorkTo, TypeOK,
       TypeWorks, journal, world
  <2>3. CASE ClaimLoadReceipt(w)
    BY <1>1, <2>1, <2>3 DEF WorkerAgrees, Holding, ClaimLoadReceipt, WorkTo,
       TypeOK, TypeWorks, journal, world
  <2> QED
    BY <2>2, <2>3
<1>4. ReceiptsAgree'
  BY <1>2, ReceiptsFrame DEF LoadReceipt, ClaimLoadReceipt, journal
<1> QED
  BY <1>2, <1>3, <1>4, EffectStepRecords DEF EffectStep

\* The claim, and the answers of the call.
LEMMA CallRecords ==
    ASSUME TypeOK, RecordsAgree, NEW w \in Workers,
           \/ ClaimEffectExecution(w) \/ CallSucceeds(w) \/ CallUnchanged(w)
           \/ CallAmbiguous(w)
    PROVE  RecordsAgree'
<1> USE DEF RecordsAgree
<1>1. WorkerAgrees(w) /\ node[w] \in Nodes
  BY DEF WorkersAgree, TypeOK, TypeWorks
<1>2. PerformedKept /\ ReceiptsKept
  BY DEF ClaimEffectExecution, CallSucceeds, CallUnchanged, CallAmbiguous,
     PerformedKept, ReceiptsKept, journal, world
<1>3. WorkerAgrees(w)'
  <2> USE DEF WorkerAgrees, Holding, WorkTo, TypeOK, TypeWorks, journal, world
  <2>1. CASE ClaimEffectExecution(w)
    BY <1>1, <2>1 DEF ClaimEffectExecution
  <2>2. CASE CallSucceeds(w)
    BY <1>1, <2>2 DEF CallSucceeds
  <2>3. CASE CallUnchanged(w)
    BY <1>1, <2>3 DEF CallUnchanged
  <2>4. CASE CallAmbiguous(w)
    BY <1>1, <2>4 DEF CallAmbiguous, Halt
  <2> QED
    BY <2>1, <2>2, <2>3, <2>4
<1>4. ReceiptsAgree'
  BY <1>1, <1>2, ReceiptsFrame DEF ClaimEffectExecution, CallSucceeds,
     CallUnchanged, CallAmbiguous, SetEffect, TypeOK, TypeJournal, journal
<1> QED
  BY <1>2, <1>3, <1>4, EffectStepRecords DEF EffectStep

\* The call takes effect: from here on there is something to report.
LEMMA CallLandsRecords ==
    ASSUME TypeOK, RecordsAgree, NEW w \in Workers, CallLands(w)
    PROVE  RecordsAgree'
<1> USE DEF RecordsAgree
<1>1. WorkerAgrees(w) /\ node[w] \in Nodes
  BY DEF WorkersAgree, TypeOK, TypeWorks
<1>2. PerformedKept /\ ReceiptsKept /\ performed'[node[w]] > 0
  BY <1>1 DEF CallLands, PerformedKept, ReceiptsKept, TypeOK, TypeWorld, journal
<1>3. WorkerAgrees(w)'
  BY <1>1, <1>2 DEF WorkerAgrees, Holding, CallLands, TypeOK, TypeWorks, journal
<1>4. ReceiptsAgree'
  BY <1>2, ReceiptsFrame DEF CallLands, journal
<1> QED
  BY <1>2, <1>3, <1>4, EffectStepRecords DEF EffectStep

\* The receipt is written, then the row; either may find another's.
LEMMA VerifyRecords ==
    ASSUME TypeOK, RecordsAgree, NEW w \in Workers,
           VerifyEffect(w) \/ RecordReceipt(w) \/ ReconcileVerifiedEffect(w)
    PROVE  RecordsAgree'
<1> USE DEF RecordsAgree
<1>1. WorkerAgrees(w) /\ node[w] \in Nodes
  BY DEF WorkersAgree, TypeOK, TypeWorks
<1>2. PerformedKept
  BY DEF VerifyEffect, RecordReceipt, ReconcileVerifiedEffect, PerformedKept, world
<1>3. CASE VerifyEffect(w)
  <2>1. ReceiptsKept /\ ReceiptsAgree'
    BY <1>2, <1>3, ReceiptsFrame DEF VerifyEffect, ReceiptsKept, journal
  <2>2. WorkerAgrees(w)'
    BY <1>1, <1>3 DEF WorkerAgrees, Holding, VerifyEffect, Halt, WorkTo,
       TypeOK, TypeWorks, journal, world
  <2> QED
    BY <1>2, <1>3, <2>1, <2>2, EffectStepRecords DEF EffectStep
<1>4. CASE RecordReceipt(w)
  <2>1. result[w] # NULL /\ performed[node[w]] > 0 /\ UNCHANGED performed
    BY <1>1, <1>4 DEF RecordReceipt, WorkerAgrees, world
  <2>2. ReceiptsKept /\ ReceiptsAgree' /\ receipt'[node[w]] # NULL
    BY <1>1, <1>4, <2>1 DEF RecordReceipt, ReceiptsKept, ReceiptsAgree, TypeOK,
       TypeJournal
  <2>3. WorkerAgrees(w)'
    BY <1>1, <1>4, <2>1, <2>2 DEF WorkerAgrees, Holding, RecordReceipt, WorkTo,
       TypeOK, TypeWorks
  <2> QED
    BY <1>2, <1>4, <2>2, <2>3, EffectStepRecords DEF EffectStep
<1>5. CASE ReconcileVerifiedEffect(w)
  <2>1. /\ result[w] # NULL /\ performed[node[w]] > 0 /\ UNCHANGED <<performed, receipt>>
        /\ receipt[node[w]] # NULL
    BY <1>1, <1>5 DEF ReconcileVerifiedEffect, WorkerAgrees, world
  <2>2. ReceiptsKept /\ ReceiptsAgree'
    BY <1>1, <1>5, <2>1 DEF ReconcileVerifiedEffect, SetEffect, ReceiptsKept,
       ReceiptsAgree, TypeOK, TypeJournal
  <2>3. WorkerAgrees(w)'
    BY <1>1, <1>5, <2>1 DEF WorkerAgrees, Holding, ReconcileVerifiedEffect,
       Report, Halt, WorkTo, TypeOK, TypeWorks
  <2> QED
    BY <1>2, <1>5, <2>2, <2>3, EffectStepRecords DEF EffectStep
<1> QED
  BY <1>3, <1>4, <1>5

\* Releasing, halting and a failed database access report no success.
LEMMA HaltRecords ==
    ASSUME TypeOK, RecordsAgree, NEW w \in Workers,
           \/ ReleaseUnchangedEffect(w) \/ HaltEffect(w) \/ HaltTask(w)
           \/ HaltEvent(w) \/ JournalFails(w)
    PROVE  RecordsAgree'
<1> USE DEF RecordsAgree
<1>1. WorkerAgrees(w) /\ node[w] \in Nodes /\ w \in Callers
  BY DEF WorkersAgree, TypeOK, TypeWorks, Callers
<1>2. PerformedKept /\ ReceiptsKept
  BY DEF ReleaseUnchangedEffect, HaltEffect, HaltTask, HaltEvent, JournalFails,
     PerformedKept, ReceiptsKept, journal, world
<1>3. WorkerAgrees(w)'
  <2> USE DEF WorkerAgrees, Holding, WorkTo, TypeOK, TypeWorks, journal, world
  <2>1. CASE ReleaseUnchangedEffect(w)
    BY <1>1, <2>1 DEF ReleaseUnchangedEffect
  <2>2. CASE HaltEffect(w)
    BY <1>1, <2>2 DEF HaltEffect, Report
  <2>3. CASE HaltTask(w) \/ HaltEvent(w)
    BY <1>1, <2>3 DEF HaltTask, HaltEvent, Report
  <2>4. CASE JournalFails(w)
    BY <1>1, <2>4 DEF JournalFails, Halt, Report, TypeRecon, NoRecon
  <2> QED
    BY <2>1, <2>2, <2>3, <2>4
<1>4. ReceiptsAgree'
  BY <1>1, <1>2, ReceiptsFrame DEF ReleaseUnchangedEffect, HaltEffect,
     HaltTask, HaltEvent, JournalFails, SetEffect, TypeOK, TypeJournal, journal
<1> QED
  BY <1>2, <1>3, <1>4, EffectStepRecords DEF EffectStep

(***************************************************************************)
(* reconcile_all.                                                          *)
(***************************************************************************)

\* Only a completed instance makes a completed task.
LEMMA CompletedTask ==
    ASSUME NEW s \in InstanceStates, WriteTask(s), task'.state = "completed"
    PROVE  s = "Completed"
BY DEF WriteTask, CanonicalState, InstanceStates

\* A step of reconcile_all concerns its caller, the caller's worker and the
\* task.
LEMMA CallerRecords ==
    ASSUME TypeOK, RecordsAgree, NEW c \in Callers,
           UNCHANGED <<journal, inst, loops, node, result, outcome, performed>>,
           \A d \in Callers \ {c} : recon'[d] = recon[d],
           recon'[c].status = "Completed" => AllPerformed,
           task'.state = "completed" => AllPerformed,
           \A v \in Workers \ {c} : wpc'[v] = wpc[v],
           c \in Workers => /\ wpc[c] = "bind"
                            /\ \/ wpc'[c] = "bind"
                               \/ wpc'[c] = "reserve" /\ recon'[c].step = "idle"
    PROVE  RecordsAgree'
<1> USE DEF RecordsAgree
<1>1. PerformedKept /\ ReceiptsKept
  BY DEF PerformedKept, ReceiptsKept, journal
<1>2. \A v \in Workers \ {c} : v \in Callers /\ WorkerStays(v)
  BY DEF WorkerStays, Callers
<1>3. WorkersAgree'
  <2>1. CASE c \in Workers
    <3>1. WorkerAgrees(c)
      BY <2>1 DEF WorkersAgree
    <3>2. WorkerAgrees(c)'
      BY <2>1, <3>1 DEF WorkerAgrees, Holding
    <3> QED
      BY <1>1, <1>2, <2>1, <3>2, OneWorker
  <2>2. CASE c \notin Workers
    BY <1>1, <1>2, <2>2, WorkersFrame
  <2> QED
    BY <2>1, <2>2
<1>4. ReceiptsAgree'
  BY <1>1, ReceiptsFrame DEF journal
<1>5. LoopsAgree'
  <2>1. \A v \in Workers : wpc[v] # "free"
           => wpc'[v] # "free" /\ node'[v] = node[v]
    OBVIOUS
  <2> QED
    BY <1>1, <2>1, LoopsFrame DEF loops
<1>6. ReportsAgree'
  <2>1. AllPerformed' = AllPerformed
    BY DEF AllPerformed
  <2>2. Genuine(inst)' /\ \A t \in Threads : Genuine(mem[t])'
    BY <2>1 DEF ReportsAgree, Genuine, loops
  <2> QED
    BY <2>1, <2>2 DEF ReportsAgree
<1> QED
  BY <1>3, <1>4, <1>5, <1>6

\* A caller that is between two statements of reconcile_all, or a worker that
\* is about to begin.
LEMMA CallerAtBind ==
    ASSUME RecordsAgree, NEW c \in Workers, recon[c].step # "idle"
    PROVE  wpc[c] = "bind"
BY DEF RecordsAgree, WorkersAgree, WorkerAgrees

\* The statements of reconcile_all hand on what the instance reports.
LEMMA ReconcileRecords ==
    ASSUME TypeOK, RecordsAgree, NEW c \in Callers, ReconcileStep(c)
    PROVE  RecordsAgree'
<1> USE DEF RecordsAgree
<1>0. /\ recon[c].status = "Completed" => AllPerformed
      /\ inst.status = "Completed" => AllPerformed
      /\ task.state = "completed" => AllPerformed
      /\ recon[c].status \in InstanceStates
      /\ c \in Workers /\ recon[c].step # "idle" => wpc[c] = "bind"
  BY CallerAtBind DEF ReportsAgree, Genuine, TypeOK, TypeRecon
<1> USE DEF TypeOK, TypeRecon, TypeWorks, ReconTo, rows, works, world
<1>1. CASE ReconcileRows(c)
  <2>1. c \in Workers => wpc[c] = "bind"
    BY <1>0, <1>1, WorkersAssumption DEF ReconcileRows
  <2> QED
    BY <1>0, <1>1, <2>1, CallerRecords DEF ReconcileRows
<1>2. CASE ReconcileCheck(c)
  BY <1>0, <1>2, CallerRecords DEF ReconcileCheck
<1>3. CASE ReconcileUpsert(c)
  <2>1. task'.state = "completed" => AllPerformed
    BY <1>0, <1>3, CompletedTask DEF ReconcileUpsert
  <2> QED
    BY <1>0, <1>3, <2>1, CallerRecords DEF ReconcileUpsert
<1>4. CASE ReconcileList(c)
  <2>1. CASE Terminal(task.state) \/ EffectVerificationRequired
    BY <1>0, <1>4, <2>1, CallerRecords DEF ReconcileList, ReconcileReturns, NoRecon
  <2>2. CASE ~(Terminal(task.state) \/ EffectVerificationRequired)
    BY <1>0, <1>4, <2>2, CallerRecords DEF ReconcileList
  <2> QED
    BY <2>1, <2>2
<1>5. CASE ReconcileState(c)
  BY <1>0, <1>5, CallerRecords DEF ReconcileState
<1>6. CASE ReconcileUpdate(c)
  <2>1. task'.state = "completed" => AllPerformed
    BY <1>0, <1>6, CompletedTask DEF ReconcileUpdate
  <2> QED
    BY <1>0, <1>6, <2>1, CallerRecords DEF ReconcileUpdate, ReconcileReturns, NoRecon
<1> QED
  BY <1>1, <1>2, <1>3, <1>4, <1>5, <1>6 DEF ReconcileStep

(***************************************************************************)
(* The loops.                                                              *)
(***************************************************************************)

\* The local variables of loop t only.
OtherLoopsStay(t) ==
    \A u \in Threads \ {t} :
        /\ pc'[u] = pc[u] /\ at'[u] = at[u] /\ on'[u] = on[u]
        /\ code'[u] = code[u] /\ mem'[u] = mem[u]

\* Writing what is genuine preserves the reports.
LEMMA OneReport ==
    ASSUME ReportsAgree, NEW t \in Threads, UNCHANGED performed,
           OtherLoopsStay(t), Genuine(inst'), Genuine(mem'[t]),
           \A c \in Callers : recon'[c].status = "Completed" => AllPerformed,
           task'.state = "completed" => AllPerformed
    PROVE  ReportsAgree'
<1>1. AllPerformed' = AllPerformed
  BY DEF AllPerformed
<1>2. Genuine(inst)'
  BY <1>1 DEF Genuine
<1>3. ASSUME NEW u \in Threads PROVE Genuine(mem[u])'
  <2>1. Genuine(mem'[u])
    BY DEF ReportsAgree, OtherLoopsStay
  <2> QED
    BY <1>1, <2>1 DEF Genuine
<1> QED
  BY <1>1, <1>2, <1>3 DEF ReportsAgree

\* A step of a loop that waits for nobody afterwards and leaves the workers
\* alone.
LEMMA LoopRecords ==
    ASSUME TypeOK, RecordsAgree, NEW t \in Threads, OtherLoopsStay(t),
           UNCHANGED <<journal, works, performed>>,
           \A c \in Callers : recon'[c] = recon[c],
           on'[t] = NULL, code'[t] # "Completed",
           pc'[t] = "completed" => performed[at'[t]] > 0,
           Genuine(inst'), Genuine(mem'[t]),
           task'.state = "completed" => AllPerformed
    PROVE  RecordsAgree'
<1> USE DEF RecordsAgree
<1>1. PerformedKept /\ ReceiptsKept
  BY DEF PerformedKept, ReceiptsKept, journal
<1>2. WorkersAgree'
  <2>1. \A v \in Workers : WorkerStays(v)
    BY DEF WorkerStays, works, Callers
  <2> QED
    BY <1>1, <2>1, WorkersFrame
<1>3. ReceiptsAgree'
  BY <1>1, ReceiptsFrame DEF journal
<1>4. LoopsAgree'
  <2>1. \A u \in Threads : on[u] # NULL => wpc[on[u]] # "free"
    BY DEF LoopsAgree, LoopAgrees
  <2> QED
    BY <1>1, <2>1, OneLoop DEF OtherLoopsStay, works
<1>5. ReportsAgree'
  <2>1. \A c \in Callers : recon'[c].status = "Completed" => AllPerformed
    BY DEF ReportsAgree
  <2> QED
    BY <2>1, OneReport
<1> QED
  BY <1>2, <1>3, <1>4, <1>5

\* What is known of loop t before it takes a step.
LEMMA LoopBefore ==
    ASSUME TypeOK, RecordsAgree, NEW t \in Threads
    PROVE  /\ Genuine(inst) /\ Genuine(mem[t]) /\ LoopAgrees(t)
           /\ mem[t] \in Instances /\ inst \in Instances /\ at[t] \in Nodes
           /\ task.state = "completed" => AllPerformed
BY DEF RecordsAgree, LoopsAgree, ReportsAgree, TypeOK, TypeLoops, TypeRows

\* A status other than Completed reports nothing.
LEMMA GenuineStatus ==
    ASSUME NEW i \in Instances, Genuine(i), NEW s \in InstanceStates,
           s = "Completed" => AllPerformed
    PROVE  Genuine([i EXCEPT !.status = s])
BY DEF Genuine, Instances

\* A payload other than Completed reports nothing, and Completed is genuine
\* once the effect has happened.
LEMMA GenuineNode ==
    ASSUME NEW i \in Instances, Genuine(i), NEW k \in Nodes,
           NEW c \in NodeStates, c = "Completed" => performed[k] > 0
    PROVE  /\ Genuine([i EXCEPT !.nodes[k] = c])
           /\ Genuine([status |-> "Failed", nodes |-> [i.nodes EXCEPT ![k] = c]])
<1>1. /\ [i EXCEPT !.nodes[k] = c].status = i.status
      /\ [i EXCEPT !.nodes[k] = c].nodes = [i.nodes EXCEPT ![k] = c]
  BY DEF Instances
<1>2. \A m \in Nodes : [i.nodes EXCEPT ![k] = c][m] = "Completed" => performed[m] > 0
  BY DEF Instances, Genuine
<1> QED
  BY <1>1, <1>2 DEF Genuine

\* Nothing is reported before there is an instance.
LEMMA GenuineNone ==
    ASSUME NEW s \in InstanceStates, s = "Completed" => AllPerformed
    PROVE  Genuine([NoInstance EXCEPT !.status = s]) /\ Genuine(NoInstance)
BY DEF Genuine, NoInstance

\* Starting and resuming a run.
LEMMA BeginRecords ==
    ASSUME TypeOK, RecordsAgree, NEW t \in Threads,
           \/ t = Runner /\ (BeginRun \/ RetryRun)
           \/ ResumeAfterPermission(t)
    PROVE  RecordsAgree'
<1>0. LoopAgrees(t) /\ Genuine(inst) /\ inst \in Instances
  BY LoopBefore
<1>1. /\ Genuine([inst EXCEPT !.status = "Pending"])
      /\ Genuine([inst EXCEPT !.status = "Running"])
  BY <1>0, GenuineStatus DEF InstanceStates
<1>2. task.state = "completed" => AllPerformed
  BY LoopBefore
<1>3. OtherLoopsStay(t)
  BY DEF OtherLoopsStay, BeginRun, RetryRun, ResumeAfterPermission, Goto,
     TypeOK, TypeLoops
<1>4. Genuine(inst') /\ Genuine(mem'[t])
  BY <1>0, <1>1 DEF BeginRun, RetryRun, ResumeAfterPermission, TypeOK, TypeLoops
<1>5. on'[t] = NULL /\ code'[t] # "Completed" /\ pc'[t] # "completed"
  BY <1>0 DEF LoopAgrees, BeginRun, RetryRun, ResumeAfterPermission, Goto,
     TypeOK, TypeLoops
<1> QED
  BY <1>2, <1>3, <1>4, <1>5, LoopRecords
     DEF BeginRun, RetryRun, ResumeAfterPermission, world

\* The checkpoints of a loop.
LEMMA CheckpointRecords ==
    ASSUME TypeOK, RecordsAgree, NEW t \in Threads, NEW i, Genuine(i),
           Checkpoint(t, i), NEW s, s # "completed", Goto(t, s),
           pc[t] # "waiting"
    PROVE  RecordsAgree'
<1>0. LoopAgrees(t)
  BY LoopBefore
<1>1. task.state = "completed" => AllPerformed
  BY LoopBefore
<1>2. OtherLoopsStay(t)
  BY DEF OtherLoopsStay, Checkpoint, Goto, TypeOK, TypeLoops
<1>3. Genuine(inst') /\ Genuine(mem'[t])
  BY DEF Checkpoint, TypeOK, TypeLoops
<1>4. on'[t] = NULL /\ code'[t] # "Completed" /\ pc'[t] # "completed"
  BY <1>0 DEF LoopAgrees, Checkpoint, Goto, TypeOK, TypeLoops
<1> QED
  BY <1>1, <1>2, <1>3, <1>4, LoopRecords DEF Checkpoint, world

\* Each of them writes what has happened, or a failure.
LEMMA CheckpointsRecords ==
    ASSUME TypeOK, RecordsAgree, NEW t \in Threads,
           \/ StartLoop(t) \/ PauseForPermission(t) \/ NodeCompleted(t)
           \/ NodeFailed(t)
    PROVE  RecordsAgree'
<1>0. /\ LoopAgrees(t) /\ Genuine(mem[t]) /\ mem[t] \in Instances
      /\ at[t] \in Nodes
  BY LoopBefore
<1>1. /\ Genuine([mem[t] EXCEPT !.status = "Running"])
      /\ Genuine([mem[t] EXCEPT !.status = "AwaitingApproval"])
  BY <1>0, GenuineStatus DEF InstanceStates
<1>2. CASE StartLoop(t)
  BY <1>1, <1>2, CheckpointRecords DEF StartLoop
<1>3. CASE PauseForPermission(t)
  BY <1>1, <1>3, CheckpointRecords DEF PauseForPermission
<1>4. CASE NodeCompleted(t)
  <2>1. Genuine([mem[t] EXCEPT !.nodes[at[t]] = "Completed"])
    BY <1>0, <1>4, GenuineNode DEF NodeCompleted, LoopAgrees, NodeStates
  <2> QED
    BY <1>4, <2>1, CheckpointRecords DEF NodeCompleted
<1>5. CASE NodeFailed(t)
  <2>1. code[t] \in NodeStates /\ code[t] # "Completed"
    BY <1>0 DEF LoopAgrees, TypeOK, TypeLoops
  <2>2. Genuine([status |-> "Failed",
                 nodes |-> [mem[t].nodes EXCEPT ![at[t]] = code[t]]])
    BY <1>0, <2>1, GenuineNode
  <2> QED
    BY <1>5, <2>2, CheckpointRecords DEF NodeFailed
<1> QED
  BY <1>2, <1>3, <1>4, <1>5

\* The steps that change the loop's memory or nothing but its place.
LEMMA MemoryRecords ==
    ASSUME TypeOK, RecordsAgree, NEW t \in Threads,
           \/ NextNodeFails(t) \/ AllCompleted(t) \/ NodeTimesOut(t)
           \/ CheckpointFails(t)
    PROVE  RecordsAgree'
<1>0. /\ LoopAgrees(t) /\ Genuine(mem[t]) /\ mem[t] \in Instances
      /\ at[t] \in Nodes /\ Genuine(inst)
  BY LoopBefore
<1>1. task.state = "completed" => AllPerformed
  BY LoopBefore
<1>2. OtherLoopsStay(t)
  BY DEF OtherLoopsStay, NextNodeFails, AllCompleted, NodeTimesOut,
     CheckpointFails, Goto, TypeOK, TypeLoops
<1>3. on'[t] = NULL /\ code'[t] # "Completed" /\ pc'[t] # "completed"
  BY <1>0 DEF LoopAgrees, NextNodeFails, AllCompleted, NodeTimesOut,
     CheckpointFails, Goto, TypeOK, TypeLoops
<1>4. Genuine(mem'[t])
  <2>1. CASE NextNodeFails(t) \/ NodeTimesOut(t)
    BY <1>0, <2>1 DEF NextNodeFails, NodeTimesOut
  <2>2. CASE AllCompleted(t)
    <3>1. AllPerformed
      BY <1>0, <2>2 DEF AllCompleted, AllPerformed, Genuine
    <3>2. Genuine([mem[t] EXCEPT !.status = "Completed"])
      BY <1>0, <3>1, GenuineStatus DEF InstanceStates
    <3> QED
      BY <2>2, <3>2 DEF AllCompleted, TypeOK, TypeLoops
  <2>3. CASE CheckpointFails(t)
    <3>1. Genuine([status |-> "Failed",
                   nodes |-> [mem[t].nodes EXCEPT ![at[t]] = "Completed"]])
      BY <1>0, <2>3, GenuineNode DEF CheckpointFails, LoopAgrees, NodeStates
    <3> QED
      BY <2>3, <3>1 DEF CheckpointFails, TypeOK, TypeLoops
  <2> QED
    BY <2>1, <2>2, <2>3
<1> QED
  BY <1>0, <1>1, <1>2, <1>3, <1>4, LoopRecords
     DEF NextNodeFails, AllCompleted, NodeTimesOut, CheckpointFails, rows, world

\* The end of a run.
LEMMA FinishRecords ==
    ASSUME TypeOK, RecordsAgree, NEW t \in Threads,
           \/ FinishRun(t) \/ RequeueTransientFailure(t) \/ ProjectTask(t)
           \/ ProjectTaskWrite(t) \/ PersistResult(t)
    PROVE  RecordsAgree'
<1>0. /\ LoopAgrees(t) /\ Genuine(mem[t]) /\ mem[t] \in Instances
      /\ inst \in Instances /\ Genuine(inst)
  BY LoopBefore
<1>1. task'.state = "completed" => AllPerformed
  <2>1. task.state = "completed" => AllPerformed
    BY LoopBefore
  <2>2. mem[t].status \in InstanceStates
           /\ (mem[t].status = "Completed" => AllPerformed)
    BY <1>0 DEF Genuine, Instances
  <2>3. CASE ProjectTaskWrite(t)
    BY <2>2, <2>3, CompletedTask DEF ProjectTaskWrite
  <2>4. CASE ~ProjectTaskWrite(t)
    BY <2>1, <2>4 DEF FinishRun, RequeueTransientFailure, ProjectTask,
       PersistResult, rows
  <2> QED
    BY <2>3, <2>4
<1>2. OtherLoopsStay(t)
  BY DEF OtherLoopsStay, FinishRun, RequeueTransientFailure, ProjectTask,
     ProjectTaskWrite, PersistResult, Leave, Goto, TypeOK, TypeLoops
<1>3. on'[t] = NULL /\ code'[t] # "Completed" /\ pc'[t] # "completed"
  BY <1>0 DEF LoopAgrees, FinishRun, RequeueTransientFailure, ProjectTask,
     ProjectTaskWrite, PersistResult, Leave, Goto, TypeOK, TypeLoops
<1>4. inst.status \in InstanceStates /\ (inst.status = "Completed" => AllPerformed)
  BY <1>0 DEF Instances, Genuine
<1>5. /\ Genuine([NoInstance EXCEPT !.status = inst.status]) /\ Genuine(NoInstance)
      /\ Genuine([inst EXCEPT !.status = "Pending"])
  BY <1>0, <1>4, GenuineNone, GenuineStatus DEF InstanceStates
<1>6. Genuine(mem'[t]) /\ Genuine(inst')
  BY <1>0, <1>5 DEF FinishRun, RequeueTransientFailure, ProjectTask,
     ProjectTaskWrite, PersistResult, Leave, rows, TypeOK, TypeLoops
<1> QED
  BY <1>1, <1>2, <1>3, <1>6, LoopRecords DEF FinishRun,
     RequeueTransientFailure, ProjectTask, ProjectTaskWrite, PersistResult, world

\* The loop starts a worker that nobody waits for and that holds nothing.
LEMMA NextNodeRecords ==
    ASSUME TypeOK, RecordsAgree, NEW t \in Threads, NextNode(t)
    PROVE  RecordsAgree'
<1> USE DEF RecordsAgree
<1>1. PICK k \in Nodes, w \in Workers :
         /\ wpc[w] = "free" /\ WorkTo(w, "bind")
         /\ at' = [at EXCEPT ![t] = k] /\ on' = [on EXCEPT ![t] = w]
         /\ node' = [node EXCEPT ![w] = k]
  BY DEF NextNode
<1>2. PerformedKept /\ ReceiptsKept
  BY DEF NextNode, PerformedKept, ReceiptsKept, journal, world
<1>3. /\ wpc'[w] = "bind" /\ node'[w] = k
      /\ \A v \in Workers \ {w} : WorkerStays(v)
      /\ UNCHANGED <<result, outcome, recon>>
  BY <1>1 DEF NextNode, WorkTo, WorkerStays, TypeOK, TypeWorks
<1>4. WorkersAgree'
  <2>1. WorkerAgrees(w)
    BY DEF WorkersAgree
  <2>2. WorkerAgrees(w)'
    BY <1>1, <1>3, <2>1 DEF WorkerAgrees, Holding
  <2> QED
    BY <1>2, <1>3, <2>2, OneWorker
<1>5. ReceiptsAgree'
  BY <1>2, ReceiptsFrame DEF NextNode, journal
<1>6. LoopsAgree'
  <2>1. /\ on'[t] = w /\ at'[t] = k /\ pc'[t] = "waiting"
        /\ \A u \in Threads \ {t} : /\ on'[u] = on[u] /\ at'[u] = at[u]
                                    /\ pc'[u] = pc[u]
        /\ UNCHANGED <<code, performed>>
    BY <1>1 DEF NextNode, Goto, TypeOK, TypeLoops, world
  <2>2. \A u \in Threads : LoopAgrees(u) /\ on[u] # w
    BY <1>1, WorkersAssumption DEF LoopsAgree, LoopAgrees
  <2>3. OwnWorker'
    BY <2>1, <2>2 DEF LoopsAgree, OwnWorker
  <2>4. ASSUME NEW u \in Threads PROVE LoopAgrees(u)'
    <3>1. CASE u = t
      BY <1>3, <2>1, <2>2, <3>1 DEF LoopAgrees
    <3>2. CASE u # t
      <4>1. on[u] \in Workers \cup {NULL}
        BY DEF TypeOK, TypeLoops
      <4> QED
        BY <1>3, <2>1, <2>2, <3>2, <4>1 DEF LoopAgrees, WorkerStays
    <3> QED
      BY <3>1, <3>2
  <2> QED
    BY <2>3, <2>4 DEF LoopsAgree
<1>7. ReportsAgree'
  BY <1>2, ReportsFrame DEF NextNode, rows
<1> QED
  BY <1>4, <1>5, <1>6, <1>7

\* A worker that ends holds nothing any more.
LEMMA ExitWorkers ==
    ASSUME TypeOK, WorkersAgree, NEW w \in Workers, wpc[w] = "done", Exit({w}),
           UNCHANGED <<journal, recon, performed>>
    PROVE  /\ WorkersAgree' /\ PerformedKept /\ ReceiptsKept
           /\ \A v \in Workers \ {w} : WorkerStays(v)
<1>1. PerformedKept /\ ReceiptsKept
  BY DEF PerformedKept, ReceiptsKept, journal
<1>2. \A v \in Workers \ {w} : WorkerStays(v)
  <2> SUFFICES ASSUME NEW v \in Workers \ {w} PROVE WorkerStays(v)
    OBVIOUS
  <2> QED
    BY DEF Exit, WorkerStays
<1>3. WorkerAgrees(w)
  BY DEF WorkersAgree
<1>4. WorkerAgrees(w)'
  BY <1>3 DEF WorkerAgrees, Exit
<1> QED
  BY <1>1, <1>2, <1>4, OneWorker

\* The loop takes its own worker's word: it reports on the loop's node.
LEMMA WorkerReportsRecords ==
    ASSUME TypeOK, RecordsAgree, NEW t \in Threads, WorkerReports(t)
    PROVE  RecordsAgree'
<1> USE DEF RecordsAgree
<1>1. PICK w \in Workers :
         /\ on[t] = w /\ wpc[w] = "done" /\ Exit({w})
         /\ IF outcome[w] = "Completed"
            THEN Goto(t, "completed") /\ UNCHANGED code
            ELSE Goto(t, "failed") /\ code' = [code EXCEPT ![t] = outcome[w]]
  BY DEF WorkerReports
<1>2. UNCHANGED <<journal, recon, performed, rows, at, mem>>
  BY DEF WorkerReports, world
<1>3. /\ WorkersAgree' /\ PerformedKept /\ ReceiptsKept
      /\ \A v \in Workers \ {w} : WorkerStays(v)
  BY <1>1, <1>2, ExitWorkers
<1>4. ReceiptsAgree'
  BY <1>2, <1>3, ReceiptsFrame DEF journal
<1>5. LoopsAgree'
  <2>0. w # NULL /\ LoopAgrees(t) /\ WorkerAgrees(w)
    BY WorkersAssumption DEF LoopsAgree, WorkersAgree
  <2>1. on'[t] = NULL /\ code'[t] # "Completed"
    BY <1>1, <2>0 DEF WorkerReports, LoopAgrees, TypeOK, TypeLoops
  <2>2. pc'[t] = "completed" => outcome[w] = "Completed"
    BY <1>1 DEF Goto, TypeOK, TypeLoops
  <2>3. pc'[t] = "completed" => performed'[at'[t]] > 0
    BY <1>1, <1>2, <2>0, <2>2 DEF LoopAgrees, WorkerAgrees
  <2>4. ASSUME NEW u \in Threads \ {t}
        PROVE  /\ pc'[u] = pc[u] /\ at'[u] = at[u] /\ on'[u] = on[u]
               /\ code'[u] = code[u]
               /\ on[u] # NULL => /\ wpc'[on[u]] # "free"
                                  /\ node'[on[u]] = node[on[u]]
    <3>1. pc'[u] = pc[u] /\ at'[u] = at[u] /\ on'[u] = on[u] /\ code'[u] = code[u]
      BY <1>1, <1>2 DEF WorkerReports, Goto, TypeOK, TypeLoops
    <3>2. on[u] \in Workers \cup {NULL} /\ on[u] # w /\ LoopAgrees(u)
      BY <1>1, <2>0 DEF LoopsAgree, OwnWorker, TypeOK, TypeLoops
    <3> QED
      BY <1>3, <3>1, <3>2 DEF WorkerStays, LoopAgrees
  <2> QED
    BY <1>3, <2>1, <2>3, <2>4, OneLoop
<1>6. ReportsAgree'
  BY <1>2, <1>3, ReportsFrame DEF rows
<1> QED
  BY <1>3, <1>4, <1>5, <1>6

\* A worker nobody waits for ends unheard.
LEMMA WorkerExitsRecords ==
    ASSUME TypeOK, RecordsAgree, NEW w \in Workers, WorkerExits(w)
    PROVE  RecordsAgree'
<1> USE DEF RecordsAgree
<1>1. /\ UNCHANGED <<journal, recon, performed, rows, loops>>
      /\ wpc[w] = "done" /\ Exit({w})
  BY DEF WorkerExits, world
<1>2. /\ WorkersAgree' /\ PerformedKept /\ ReceiptsKept
      /\ \A v \in Workers \ {w} : WorkerStays(v)
  BY <1>1, ExitWorkers
<1>3. ReceiptsAgree'
  BY <1>1, <1>2, ReceiptsFrame DEF journal
<1>4. LoopsAgree'
  <2>1. OwnWorker'
    BY <1>1 DEF LoopsAgree, OwnWorker, loops
  <2>2. ASSUME NEW t \in Threads PROVE LoopAgrees(t)'
    <3>1. on[t] \in Workers \cup {NULL} /\ on[t] # w /\ LoopAgrees(t)
      BY DEF WorkerExits, LoopsAgree, TypeOK, TypeLoops
    <3> QED
      BY <1>1, <1>2, <3>1 DEF WorkerStays, LoopAgrees, loops
  <2> QED
    BY <2>1, <2>2 DEF LoopsAgree
<1>5. ReportsAgree'
  BY <1>1, <1>2, ReportsFrame DEF rows, loops
<1> QED
  BY <1>2, <1>3, <1>4, <1>5

(***************************************************************************)
(* The scheduler, the user, the world and the crash.                       *)
(***************************************************************************)

\* A step that may change the row's claim, the instance's status to one that
\* reports nothing, and the task likewise.
LEMMA OutsideRecords ==
    ASSUME TypeOK, RecordsAgree, PerformedKept,
           UNCHANGED <<receipt, loops, works>>,
           \A k \in Nodes : effect'[k] = "verified" => effect[k] = "verified",
           inst' \in {inst, [inst EXCEPT !.status = "Pending"]},
           \A c \in Callers :
              /\ recon'[c].status = "Completed" => recon[c].status = "Completed"
              /\ c \in Workers => recon'[c] = recon[c],
           task'.state = "completed" => task.state = "completed"
    PROVE  RecordsAgree'
<1> USE DEF RecordsAgree
<1>1. ReceiptsKept
  BY DEF ReceiptsKept
<1>2. WorkersAgree'
  <2>1. \A v \in Workers : WorkerStays(v)
    BY DEF WorkerStays, works, Callers
  <2> QED
    BY <1>1, <2>1, WorkersFrame
<1>3. ReceiptsAgree'
  BY ReceiptsFrame
<1>4. LoopsAgree'
  BY LoopsFrame DEF loops, works
<1>5. ReportsAgree'
  <2>1. AllPerformed => AllPerformed'
    BY DEF AllPerformed, PerformedKept
  <2>2. Genuine(inst)'
    <3>1. Genuine(inst) /\ inst \in Instances
      BY DEF ReportsAgree, TypeOK, TypeRows
    <3>2. Genuine([inst EXCEPT !.status = "Pending"])
      BY <3>1, GenuineStatus DEF InstanceStates
    <3>3. Genuine(inst')
      BY <3>1, <3>2
    <3> QED
      BY <2>1, <3>3 DEF Genuine, PerformedKept
  <2>3. \A t \in Threads : Genuine(mem[t])'
    BY <2>1 DEF ReportsAgree, Genuine, PerformedKept, loops
  <2> QED
    BY <2>1, <2>2, <2>3 DEF ReportsAgree
<1> QED
  BY <1>2, <1>3, <1>4, <1>5

\* Due times, retries and answers report no success.
LEMMA UserRecords ==
    ASSUME TypeOK, RecordsAgree,
           \/ OtherRun \/ OccurrenceDue \/ ClaimLapses
           \/ \E c \in Ledger : TaskRetryCheck(c) \/ TaskRetry(c)
           \/ \E k \in Nodes : OrphanLands(k)
           \/ \E k \in Nodes, i \in DOMAIN log :
                 \/ ResolveDidNotHappen(k, i)
                 \/ \E d \in {"happened", "stop_without_repeating"} :
                       ResolveStop(k, i, d)
                 \/ ResolveStopWithoutDetails(k, i)
           \/ UNCHANGED vars
    PROVE  RecordsAgree'
<1> USE DEF rows, loops, works, journal, world
<1>1. CASE OtherRun \/ OccurrenceDue \/ ClaimLapses \/ UNCHANGED vars
  BY <1>1, PerformedUnchanged, OutsideRecords DEF OtherRun, OccurrenceDue,
     ClaimLapses, vars
<1>2. CASE \E c \in Ledger : TaskRetryCheck(c) \/ TaskRetry(c)
  <2>1. PICK c \in Ledger : TaskRetryCheck(c) \/ TaskRetry(c)
    BY <1>2
  <2>2. c \in Callers /\ c \notin Workers
    BY WorkersAssumption DEF Callers
  <2>3. ASSUME NEW d \in Callers
        PROVE  /\ recon'[d].status = "Completed" => recon[d].status = "Completed"
               /\ d \in Workers => recon'[d] = recon[d]
    BY <2>1, <2>2 DEF TaskRetryCheck, TaskRetry, ReconTo, NoRecon, TypeOK, TypeRecon
  <2> QED
    BY <2>1, <2>3, PerformedUnchanged, OutsideRecords DEF TaskRetryCheck, TaskRetry
<1>3. CASE \E k \in Nodes : OrphanLands(k)
  <2>1. PerformedKept
    BY <1>3 DEF OrphanLands, PerformedKept, TypeOK, TypeWorld
  <2> QED
    BY <1>3, <2>1, OutsideRecords DEF OrphanLands
<1>4. CASE \E k \in Nodes, i \in DOMAIN log : ResolveDidNotHappen(k, i)
  BY <1>4, PerformedUnchanged, OutsideRecords
     DEF ResolveDidNotHappen, SetEffect, TypeOK, TypeJournal
<1>5. CASE \E k \in Nodes, i \in DOMAIN log :
              \/ \E d \in {"happened", "stop_without_repeating"} :
                    ResolveStop(k, i, d)
              \/ ResolveStopWithoutDetails(k, i)
  BY <1>5, PerformedUnchanged, OutsideRecords
     DEF ResolveStop, ResolveStopWithoutDetails
<1> QED
  BY <1>1, <1>2, <1>3, <1>4, <1>5

\* A crash leaves the rows, and nobody to report anything.
LEMMA CrashRecords == ASSUME TypeOK, RecordsAgree, Crash PROVE RecordsAgree'
<1> USE DEF RecordsAgree
<1>1. PerformedKept /\ UNCHANGED <<receipt, effect, performed, inst, task>>
  BY DEF Crash, PerformedKept, journal, rows
<1>2. WorkersAgree'
  BY DEF WorkersAgree, WorkerAgrees, Crash, Exit, NoRecon, Callers
<1>3. ReceiptsAgree'
  BY <1>1, ReceiptsFrame
<1>4. LoopsAgree'
  BY DEF LoopsAgree, LoopAgrees, OwnWorker, Crash, Leave
<1>5. ReportsAgree'
  <2>1. AllPerformed' = AllPerformed
    BY <1>1 DEF AllPerformed
  <2>2. Genuine(inst)'
    BY <1>1, <2>1 DEF ReportsAgree, Genuine
  <2>3. \A t \in Threads : Genuine(mem[t])'
    <3>1. \A t \in Threads : mem'[t] = NoInstance
      BY DEF Crash, Leave
    <3> QED
      BY <3>1 DEF Genuine, NoInstance
  <2>4. \A c \in Callers : recon'[c].status # "Completed"
    BY DEF Crash, NoRecon
  <2> QED
    BY <1>1, <2>1, <2>2, <2>3, <2>4 DEF ReportsAgree
<1> QED
  BY <1>2, <1>3, <1>4, <1>5

\* Initially nothing is recorded.
LEMMA InitRecords == Init => RecordsAgree
<1> SUFFICES ASSUME Init PROVE RecordsAgree
  OBVIOUS
<1>1. WorkersAgree
  BY DEF Init, WorkersAgree, WorkerAgrees, NoRecon, Callers
<1>2. ReceiptsAgree
  BY DEF Init, ReceiptsAgree
<1>3. LoopsAgree
  BY DEF Init, LoopsAgree, LoopAgrees, OwnWorker
<1>4. ReportsAgree
  BY DEF Init, ReportsAgree, Genuine, NoInstance, NoRecon
<1> QED
  BY <1>1, <1>2, <1>3, <1>4 DEF RecordsAgree

\* RecordsAgree is inductive relative to TypeOK.
LEMMA NextRecords == ASSUME TypeOK, RecordsAgree, [Next]_vars PROVE RecordsAgree'
<1>1. CASE SchedulerStep
  BY <1>1, BeginRecords, UserRecords DEF SchedulerStep, Threads
<1>2. CASE \E t \in Threads :
              LoopStep(t) \/ ResumeAfterPermission(t) \/ CheckpointFails(t)
  BY <1>2, BeginRecords, CheckpointsRecords, MemoryRecords, FinishRecords,
     NextNodeRecords, WorkerReportsRecords DEF LoopStep
<1>3. CASE \E w \in Workers : WorkStep(w) \/ CallLands(w) \/ JournalFails(w)
  BY <1>3, ReconcileRecords, ReserveRecords, LoadRecords, CallRecords,
     CallLandsRecords, VerifyRecords, HaltRecords, WorkerExitsRecords
     DEF WorkStep, Callers
<1>4. CASE \E c \in Ledger : ReconcileStep(c)
  BY <1>4, ReconcileRecords DEF Callers
<1>5. CASE Crash
  BY <1>5, CrashRecords
<1> QED
  BY <1>1, <1>2, <1>3, <1>4, <1>5, UserRecords DEF Next

\* Every record of a run agrees with the world and with what it rests on: a
\* worker's result, receipts, journal rows, the loop's copy of the instance,
\* the stored one, and what the reconciler and the task say of it.
THEOREM RecordsHold == Spec => []RecordsAgree
<1>1. Init => RecordsAgree
  BY InitRecords
<1>2. TypeOK /\ RecordsAgree /\ [Next]_vars => RecordsAgree'
  BY NextRecords
<1> QED
  BY <1>1, <1>2, TypeCorrect, PTL DEF Spec

\* No row is verified without a durable receipt, whatever crash or failed
\* statement falls between the two (verify_effect, reconcile_verified_effect).
THEOREM VerifiedRowsHaveReceipts == Spec => []VerifiedHasReceipt
<1>1. RecordsAgree => VerifiedHasReceipt
  BY DEF RecordsAgree, ReceiptsAgree, VerifiedHasReceipt
<1> QED
  BY <1>1, RecordsHold, PTL

\* No node payload and no task reports success for an effect that never
\* happened, however stale the copies that loops and reconciliations write.
THEOREM ReportedSuccessIsReal == Spec => []SuccessIsReal
<1>1. RecordsAgree => SuccessIsReal
  BY DEF RecordsAgree, ReportsAgree, Genuine, AllPerformed, SuccessIsReal
<1> QED
  BY <1>1, RecordsHold, PTL

(***************************************************************************)
(* Answers to verification requests.                                       *)
(***************************************************************************)

Answers == AnswersNameRequests /\ ResolvedOnce

\* An event that is not an answer changes none.
LEMMA AppendOther ==
    ASSUME TypeOK, Answers, NEW e \in Events, log' = Append(log, e),
           e.type # "resolved"
    PROVE  Answers'
<1>1. /\ Len(log) \in Nat /\ Len(log') = Len(log) + 1
      /\ \A j \in 1 .. Len(log) : log'[j] = log[j]
      /\ log'[Len(log) + 1] = e /\ DOMAIN log = 1 .. Len(log)
      /\ DOMAIN log' = 1 .. Len(log) + 1
  BY DEF TypeOK, TypeRows
<1>2. \A j \in DOMAIN log' : log'[j].type = "resolved"
                                => j \in DOMAIN log /\ log'[j] = log[j]
  BY <1>1
<1>3. AnswersNameRequests'
  BY <1>1, <1>2 DEF Answers, AnswersNameRequests
<1>4. ResolvedOnce'
  BY <1>2 DEF Answers, ResolvedOnce
<1> QED
  BY <1>3, <1>4 DEF Answers

\* An answer to an unresolved request is the first one that names it: another
\* would be a later answer for the same effect.
LEMMA AppendAnswer ==
    ASSUME TypeOK, Answers, NEW k \in Nodes, NEW i \in DOMAIN log, NEW d,
           i \in Unresolved(k), log' = Append(log, Resolved(k, i, d))
    PROVE  Answers'
<1> DEFINE e == Resolved(k, i, d)
<1>0. e.type = "resolved" /\ e.key = k /\ e.ref = i
  BY DEF Resolved, Event
<1>1. /\ Len(log) \in Nat /\ Len(log') = Len(log) + 1
      /\ \A j \in 1 .. Len(log) : log'[j] = log[j]
      /\ log'[Len(log) + 1] = e /\ DOMAIN log = 1 .. Len(log)
      /\ DOMAIN log' = 1 .. Len(log) + 1
  BY DEF TypeOK, TypeRows
<1>2. i \in 1 .. Len(log) /\ log[i].key = k
  BY <1>1 DEF Unresolved
<1>3. AnswersNameRequests'
  BY <1>0, <1>1, <1>2 DEF Answers, AnswersNameRequests
<1>4. ASSUME NEW j \in DOMAIN log, log[j].type = "resolved", log[j].ref = i
      PROVE  FALSE
  <2>1. i \in 1 .. j - 1 /\ log[i].key = log[j].key
    BY <1>4 DEF Answers, AnswersNameRequests
  <2>2. j \in i + 1 .. Len(log) /\ log[j].key = k
    BY <1>1, <1>2, <2>1
  <2> QED
    BY <1>4, <2>2 DEF Unresolved
<1>5. ResolvedOnce'
  <2> SUFFICES ASSUME NEW a \in DOMAIN log', NEW b \in DOMAIN log',
                      log'[a].type = "resolved", log'[b].type = "resolved",
                      log'[a].ref = log'[b].ref
               PROVE  a = b
    BY DEF ResolvedOnce
  <2>1. CASE a \in DOMAIN log /\ b \in DOMAIN log
    BY <1>1, <2>1 DEF Answers, ResolvedOnce
  <2>2. CASE a = Len(log) + 1 /\ b \in DOMAIN log
    BY <1>0, <1>1, <1>4, <2>2
  <2>3. CASE b = Len(log) + 1 /\ a \in DOMAIN log
    BY <1>0, <1>1, <1>4, <2>3
  <2> QED
    BY <1>1, <2>1, <2>2, <2>3
<1> QED
  BY <1>3, <1>5 DEF Answers

\* Nobody else writes to the log.
LEMMA LogUnchanged ==
    ASSUME Next, ~ \E w \in Workers : HaltEvent(w),
           ~ \E c \in Ledger : TaskRetry(c),
           ~ \E k \in Nodes, i \in DOMAIN log :
                \/ ResolveDidNotHappen(k, i)
                \/ \E d \in {"happened", "stop_without_repeating"} :
                      ResolveStop(k, i, d)
                \/ ResolveStopWithoutDetails(k, i)
    PROVE  UNCHANGED log
<1> USE DEF rows
<1>1. CASE SchedulerStep \/ OccurrenceDue \/ ClaimLapses \/ Crash
  BY <1>1 DEF SchedulerStep, BeginRun, RetryRun, OtherRun, OccurrenceDue,
     ClaimLapses, Crash
<1>2. CASE \E t \in Threads : ResumeAfterPermission(t) \/ CheckpointFails(t)
  BY <1>2 DEF ResumeAfterPermission, CheckpointFails
<1>3. CASE \E t \in Threads : LoopStep(t)
  BY <1>3 DEF LoopStep, StartLoop, NextNode, NextNodeFails, PauseForPermission,
     AllCompleted, WorkerReports, NodeTimesOut, NodeCompleted, NodeFailed,
     FinishRun, RequeueTransientFailure, ProjectTask, ProjectTaskWrite,
     PersistResult, Checkpoint
<1>4. CASE \E c \in Callers : ReconcileStep(c)
  BY <1>4 DEF ReconcileStep, ReconcileRows, ReconcileCheck, ReconcileUpsert,
     ReconcileList, ReconcileState, ReconcileUpdate
<1>5. CASE \E w \in Workers : WorkStep(w) \/ CallLands(w) \/ JournalFails(w)
  BY <1>4, <1>5 DEF Callers, WorkStep, ReserveEffect, ReadBack, LoadReceipt,
     ClaimEffectExecution, ClaimLoadReceipt, CallSucceeds, CallUnchanged,
     CallAmbiguous, VerifyEffect, RecordReceipt, ReconcileVerifiedEffect,
     ReleaseUnchangedEffect, HaltEffect, HaltTask, WorkerExits, CallLands,
     JournalFails
<1>6. CASE \E c \in Ledger : TaskRetryCheck(c)
  BY <1>6 DEF TaskRetryCheck
<1>7. CASE \E k \in Nodes : OrphanLands(k)
  BY <1>7 DEF OrphanLands
<1> QED
  BY <1>1, <1>2, <1>3, <1>4, <1>5, <1>6, <1>7 DEF Next, Callers

\* Answers is inductive relative to TypeOK.
LEMMA NextAnswers == ASSUME TypeOK, Answers, [Next]_vars PROVE Answers'
<1>1. CASE \E w \in Workers : HaltEvent(w)
  <2>1. PICK w \in Workers : log' = Append(log, Required(node[w]))
    BY <1>1 DEF HaltEvent
  <2>2. Required(node[w]) \in Events /\ Required(node[w]).type # "resolved"
    BY DEF Required, Event, Events, TypeOK, TypeWorks
  <2> QED
    BY <2>1, <2>2, AppendOther
<1>2. CASE \E c \in Ledger : TaskRetry(c)
  <2>1. CASE UNCHANGED log
    BY <2>1 DEF Answers, AnswersNameRequests, ResolvedOnce
  <2>2. CASE log' = Append(log, Event("retry", 1, 0, "none"))
    <3>1. /\ Event("retry", 1, 0, "none") \in Events
          /\ Event("retry", 1, 0, "none").type # "resolved"
      BY NodeCountAssumption DEF Event, Events, Nodes
    <3> QED
      BY <2>2, <3>1, AppendOther
  <2> QED
    BY <1>2, <2>1, <2>2 DEF TaskRetry
<1>3. CASE \E k \in Nodes, i \in DOMAIN log :
              \/ ResolveDidNotHappen(k, i)
              \/ \E d \in {"happened", "stop_without_repeating"} :
                    ResolveStop(k, i, d)
              \/ ResolveStopWithoutDetails(k, i)
  <2>1. PICK k \in Nodes, i \in DOMAIN log, d \in Decisions :
           i \in Unresolved(k) /\ log' = Append(log, Resolved(k, i, d))
    BY <1>3 DEF ResolveDidNotHappen, ResolveStop, ResolveStopWithoutDetails,
       Resolvable, Decisions
  <2> QED
    BY <2>1, AppendAnswer
<1>4. CASE UNCHANGED log
  BY <1>4 DEF Answers, AnswersNameRequests, ResolvedOnce
<1> QED
  BY <1>1, <1>2, <1>3, <1>4, LogUnchanged DEF vars

\* No verification request is answered twice (effect_verification.rs:
\* resolve), for any number of halts, answers and retries in any order.
THEOREM RequestsResolvedOnce == Spec => []ResolvedOnce
<1>1. Init => Answers
  BY DEF Init, Answers, AnswersNameRequests, ResolvedOnce
<1>2. TypeOK /\ Answers /\ [Next]_vars => Answers'
  BY NextAnswers
<1>3. Answers => ResolvedOnce
  BY DEF Answers
<1> QED
  BY <1>1, <1>2, <1>3, TypeCorrect, PTL DEF Spec

(***************************************************************************)
(* Stopped effects.                                                        *)
(***************************************************************************)

\* A worker gets to its call by a claim of its row, and in no other way.
LEMMA CallNeedsClaim ==
    ASSUME TypeOK, [Next]_vars, NEW v \in Workers, wpc'[v] = "calling",
           wpc[v] # "calling"
    PROVE  effect[node[v]] = "reserved"
<1> USE DEF TypeOK, TypeWorks, works
<1>1. CASE SchedulerStep \/ OccurrenceDue \/ ClaimLapses \/ UNCHANGED vars
  BY <1>1 DEF SchedulerStep, BeginRun, RetryRun, OtherRun, OccurrenceDue,
     ClaimLapses, vars
<1>2. CASE \E t \in Threads : ResumeAfterPermission(t) \/ CheckpointFails(t)
  BY <1>2 DEF ResumeAfterPermission, CheckpointFails
<1>3. CASE \E t \in Threads : LoopStep(t)
  BY <1>3 DEF LoopStep, StartLoop, NextNode, NextNodeFails, PauseForPermission,
     AllCompleted, WorkerReports, NodeTimesOut, NodeCompleted, NodeFailed,
     FinishRun, RequeueTransientFailure, ProjectTask, ProjectTaskWrite,
     PersistResult, Checkpoint, Exit, WorkTo
<1>4. CASE \E c \in Callers : ReconcileStep(c)
  BY <1>4 DEF ReconcileStep, ReconcileRows, ReconcileCheck, ReconcileUpsert,
     ReconcileList, ReconcileState, ReconcileUpdate, ReconcileReturns
<1>5. CASE \E w \in Workers : EffectStep(w)
  <2>1. PICK w \in Workers : EffectStep(w)
    BY <1>5
  <2>2. v = w
    BY <2>1, EffectStepStays DEF WorkerStays
  <2> QED
    BY <2>1, <2>2 DEF EffectStep, ReserveEffect, ReadBack, LoadReceipt,
       ClaimEffectExecution, ClaimLoadReceipt, CallSucceeds, CallUnchanged,
       CallAmbiguous, VerifyEffect, RecordReceipt, ReconcileVerifiedEffect,
       ReleaseUnchangedEffect, HaltEffect, HaltTask, HaltEvent, CallLands,
       JournalFails, Report, Halt, WorkTo
<1>6. CASE \E w \in Workers : WorkerExits(w)
  BY <1>6 DEF WorkerExits, Exit
<1>7. CASE \E c \in Ledger : TaskRetryCheck(c) \/ TaskRetry(c)
  BY <1>7 DEF TaskRetryCheck, TaskRetry
<1>8. CASE \E k \in Nodes : OrphanLands(k)
  BY <1>8 DEF OrphanLands
<1>9. CASE \E k \in Nodes, i \in DOMAIN log :
              \/ ResolveDidNotHappen(k, i)
              \/ \E d \in {"happened", "stop_without_repeating"} :
                    ResolveStop(k, i, d)
              \/ ResolveStopWithoutDetails(k, i)
  BY <1>9 DEF ResolveDidNotHappen, ResolveStop, ResolveStopWithoutDetails
<1>10. CASE Crash
  BY <1>10 DEF Crash, Exit
<1> QED
  BY <1>1, <1>2, <1>3, <1>4, <1>5, <1>6, <1>7, <1>8, <1>9, <1>10
     DEF Next, WorkStep, EffectStep, Callers

\* A step that stops nothing and takes no row out of its claim.
LEMMA StopFrame ==
    ASSUME StopHolds, UNCHANGED stopped,
           \A k \in Nodes : effect[k] \in {"executed", "verified"}
                               => effect'[k] \in {"executed", "verified"}
    PROVE  StopHolds'
BY DEF StopHolds

\* Of a worker's steps only a release, which ends the stop, gives a row up.
LEMMA EffectStepStop ==
    ASSUME TypeOK, StopHolds, NEW w \in Workers, EffectStep(w)
    PROVE  StopHolds'
<1> USE DEF journal, world, TypeOK, TypeJournal, TypeWorks
<1>1. CASE ReleaseUnchangedEffect(w)
  <2>1. \A k \in Nodes : stopped'[k] => stopped[k] /\ effect'[k] = effect[k]
    BY <1>1 DEF ReleaseUnchangedEffect, SetEffect, TypeWorld
  <2> QED
    BY <2>1 DEF StopHolds
<1>2. CASE \/ ReserveEffect(w) \/ ClaimEffectExecution(w)
           \/ ReconcileVerifiedEffect(w) \/ HaltEffect(w)
  BY <1>2, StopFrame DEF ReserveEffect, ClaimEffectExecution,
     ReconcileVerifiedEffect, HaltEffect, SetEffect
<1>3. CASE UNCHANGED <<effect, stopped>>
  BY <1>3, StopFrame
<1> QED
  BY <1>1, <1>2, <1>3 DEF EffectStep, ReadBack, LoadReceipt, ClaimLoadReceipt,
     CallSucceeds, CallUnchanged, CallAmbiguous, VerifyEffect, RecordReceipt,
     HaltTask, HaltEvent, CallLands, JournalFails

\* StopHolds is inductive relative to TypeOK.
LEMMA NextStop == ASSUME TypeOK, StopHolds, [Next]_vars PROVE StopHolds'
<1> USE DEF journal, world
<1>1. CASE \/ SchedulerStep \/ OccurrenceDue \/ ClaimLapses \/ Crash
           \/ UNCHANGED vars
  BY <1>1, StopFrame DEF SchedulerStep, BeginRun, RetryRun, OtherRun,
     OccurrenceDue, ClaimLapses, Crash, vars
<1>2. CASE \E t \in Threads : ResumeAfterPermission(t) \/ CheckpointFails(t)
  BY <1>2, StopFrame DEF ResumeAfterPermission, CheckpointFails
<1>3. CASE \E t \in Threads : LoopStep(t)
  BY <1>3, StopFrame DEF LoopStep, StartLoop, NextNode, NextNodeFails,
     PauseForPermission, AllCompleted, WorkerReports, NodeTimesOut,
     NodeCompleted, NodeFailed, FinishRun, RequeueTransientFailure,
     ProjectTask, ProjectTaskWrite, PersistResult, Checkpoint
<1>4. CASE \E c \in Callers : ReconcileStep(c)
  BY <1>4, StopFrame DEF ReconcileStep, ReconcileRows, ReconcileCheck,
     ReconcileUpsert, ReconcileList, ReconcileState, ReconcileUpdate
<1>5. CASE \E w \in Workers : EffectStep(w)
  BY <1>5, EffectStepStop
<1>6. CASE \E w \in Workers : WorkerExits(w)
  BY <1>6, StopFrame DEF WorkerExits
<1>7. CASE \E c \in Ledger : TaskRetryCheck(c) \/ TaskRetry(c)
  <2>1. CASE UNCHANGED <<effect, stopped>>
    BY <2>1, StopFrame
  <2>2. CASE stopped' = [k \in Nodes |-> FALSE]
    BY <2>2 DEF StopHolds
  <2> QED
    BY <1>7, <2>1, <2>2 DEF TaskRetryCheck, TaskRetry
<1>8. CASE \E k \in Nodes : OrphanLands(k)
  BY <1>8, StopFrame DEF OrphanLands
<1>9. CASE \E k \in Nodes, i \in DOMAIN log : ResolveDidNotHappen(k, i)
  <2>1. \A k \in Nodes : stopped'[k] => stopped[k] /\ effect'[k] = effect[k]
    BY <1>9 DEF ResolveDidNotHappen, SetEffect, TypeOK, TypeWorld, TypeJournal
  <2> QED
    BY <2>1 DEF StopHolds
<1>10. CASE \E k \in Nodes, i \in DOMAIN log :
              \/ \E d \in {"happened", "stop_without_repeating"} :
                    ResolveStop(k, i, d)
              \/ ResolveStopWithoutDetails(k, i)
  <2>1. PICK k \in Nodes, i \in DOMAIN log, d \in Decisions : ResolveStop(k, i, d)
    BY <1>10 DEF ResolveStopWithoutDetails, Decisions
  <2>2. /\ effect' = effect /\ effect[k] = "executed"
        /\ \A m \in Nodes : stopped'[m] => m = k \/ stopped[m]
    BY <2>1 DEF ResolveStop, Resolvable, TypeOK, TypeWorld
  <2> QED
    BY <2>2 DEF StopHolds
<1> QED
  BY <1>1, <1>2, <1>3, <1>4, <1>5, <1>6, <1>7, <1>8, <1>9, <1>10
     DEF Next, WorkStep, EffectStep, Callers

\* No worker starts the call of a stopped effect: while the stop stands the
\* row is neither absent nor reserved, so there is nothing to claim, for a
\* retry of the run as for a worker that was under way when the answer came.
THEOREM StopsAreFinal == Spec => StopIsFinal
<1>1. Init => StopHolds
  BY DEF Init, StopHolds
<1>2. TypeOK /\ StopHolds /\ [Next]_vars => StopHolds'
  BY NextStop
<1>3. TypeOK /\ StopHolds /\ [Next]_vars
         => [\A w \in Workers :
                wpc'[w] = "calling" /\ wpc[w] # "calling" => ~stopped[node[w]]]_vars
  <2> SUFFICES ASSUME TypeOK, StopHolds, [Next]_vars, NEW w \in Workers,
                      wpc'[w] = "calling", wpc[w] # "calling"
               PROVE  ~stopped[node[w]]
    OBVIOUS
  <2> QED
    BY CallNeedsClaim DEF StopHolds, TypeOK, TypeWorks
<1> QED
  BY <1>1, <1>2, <1>3, TypeCorrect, PTL DEF Spec, StopIsFinal

=============================================================================
