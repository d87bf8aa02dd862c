---------------------------- MODULE KernelProofs ----------------------------
(***************************************************************************)
(* Proofs about Kernel, for every input state, every exit of the guest,    *)
(* every set of patterns, formats and outputs, and every period.           *)
(***************************************************************************)
EXTENDS Kernel, TLAPS

Kinds     == {"snapshot", "proof"}
Formats   == {"none", "numbered", "fixed"}
States    == {"queued", "created", "done", "failed", "dropped"}
Contents  == Kinds \X Nat
Paths     == {"default", "snapshot", "proof"} \X Nat
TaskSet   == [content : Contents, path : Paths, state : States]

(* The types, and what the fields of run() have to do with each other.     *)
TypeInv ==
    /\ args \in [start : StartSteps, exit : ExitSteps, stop_at : StopAt, proof_at : ProofAt,
                 snapshot_at : SnapshotAt, proof_format : ProofFormats,
                 snapshot_format : SnapshotFormats, output : Outputs]
    /\ pc \in {"loop", "step", "blocked", "check", "output", "await", "done"}
    /\ step \in Nat /\ args.start <= step /\ step <= args.exit
    /\ exited \in BOOLEAN /\ (exited <=> step = args.exit)
    /\ outcome \in {"none", "ok", "err", "panic"}
    /\ outcome = "none" <=> pc # "done"
    /\ tasks \in Seq(TaskSet)
    /\ awaiting \in 1 .. (Len(tasks) + 1)
    /\ DOMAIN files \subseteq Paths
    /\ serverUp \in BOOLEAN

(* Where the loop is and what it has found out about the step it is at.    *)
LoopInv ==
    /\ pc \in {"step", "blocked"} => ~ exited /\ ~ Matches(args.stop_at, step)
    /\ step > args.start \/ pc \in {"step", "blocked", "check"} => ~ Panics(args.stop_at)
    /\ \A s \in Executed : ~ Matches(args.stop_at, s)
    /\ pc \in {"output", "await"} \/ outcome = "ok" => exited \/ Matches(args.stop_at, step)

(* Since the server has exited no look at it was due, but for the one of   *)
(* the last step.                                                          *)
ServerInv ==
    HasServer /\ ~ serverUp =>
        /\ downAt \in Nat
        /\ \A s \in downAt .. (step - 1) : s % CheckEvery = 0 =>
               s = step - 1 /\ pc \in {"check", "done"}

(* What has been started by now: everything due for the steps executed,    *)
(* and between the two halves of a turn of the loop the snapshot.          *)
Started ==
    Due \cup IF pc = "step" /\ Matches(args.snapshot_at, step)
             THEN {<<"snapshot", step>>} ELSE {}

(* Where an output goes, with the arguments of the run as a parameter.     *)
PathIn(a, c) ==
    Path(c[1], IF c[1] = "proof" THEN a.proof_format ELSE a.snapshot_format, c[2])

(* A task writes to the path its output has.                               *)
PathInv == \A t \in DOMAIN tasks : tasks[t].path = PathIn(args, tasks[t].content)

(* The tasks: one for each output that was started; those before the       *)
(* awaited one are done.                                                   *)
TaskInv ==
    /\ \A t, u \in DOMAIN tasks : tasks[t].content = tasks[u].content => t = u
    /\ \A t \in DOMAIN tasks :
           tasks[t].content[2] < step \/ (tasks[t].content[2] = step
                                          /\ tasks[t].content[1] = "snapshot"
                                          /\ pc \in {"step", "blocked", "done"})
    /\ pc \in {"loop", "step", "check", "output", "await"} \/ outcome = "ok" =>
           Started = {tasks[t].content : t \in DOMAIN tasks}
    /\ pc \notin {"await", "done"} => awaiting = 1
    /\ \A t \in DOMAIN tasks : t < awaiting => tasks[t].state = "done"
    /\ outcome = "ok" => awaiting > Len(tasks)

Alone(t) == \A u \in DOMAIN tasks \ {t} : tasks[u].path # tasks[t].path

(* The files: each is that of a task, and a task with a path of its own    *)
(* has written what is in its file.                                        *)
FileInv ==
    /\ \A t \in DOMAIN tasks : tasks[t].state \in {"created", "done"} =>
           tasks[t].path \in DOMAIN files
    /\ \A p \in DOMAIN files : \E t \in DOMAIN tasks : tasks[t].path = p
    /\ ~ FitsBuffer =>
           /\ \A t \in DOMAIN tasks : Alone(t) =>
                  /\ tasks[t].state = "created" => files[tasks[t].path] = {}
                  /\ tasks[t].state = "done" => files[tasks[t].path] = {tasks[t].content}
           /\ (pc = "await" \/ outcome = "ok") /\ args.output = "file" => output = step

IInv == TypeInv /\ LoopInv /\ ServerInv /\ PathInv /\ TaskInv /\ FileInv

-----------------------------------------------------------------------------
(* The actions by what they do to the tasks: the loop adds at most one,    *)
(* queued and with a path of its kind; the steps of a task change its      *)
(* state; the others leave them alone.                                     *)

LEMMA TaskType ==
    ASSUME TypeInv, NEW kind \in Kinds, NEW format \in Formats
    PROVE  /\ Task(kind, format) \in TaskSet
           /\ Task(kind, format).content = <<kind, step>>
           /\ Task(kind, format).path = Path(kind, format, step)
           /\ Task(kind, format).state = "queued"
BY DEF TypeInv, Kinds, Formats, Task, TaskSet, Path, Contents, Paths, States

LEMMA TaskSeq ==
    ASSUME TypeInv
    PROVE  /\ Len(tasks) \in Nat /\ DOMAIN tasks = 1 .. Len(tasks)
           /\ \A t \in DOMAIN tasks : tasks[t] \in TaskSet /\ tasks[t].path \in Paths
<1>1. tasks \in Seq(TaskSet)
  BY DEF TypeInv
<1>2. Len(tasks) \in Nat /\ DOMAIN tasks = 1 .. Len(tasks)
       /\ \A t \in DOMAIN tasks : tasks[t] \in TaskSet
  BY <1>1
<1> QED BY <1>2 DEF TaskSet

LEMMA SetTaskEffect ==
    ASSUME TypeInv, NEW t \in DOMAIN tasks, NEW state \in States, SetTask(t, state)
    PROVE  /\ tasks' \in Seq(TaskSet) /\ Len(tasks') = Len(tasks)
           /\ DOMAIN tasks' = DOMAIN tasks
           /\ \A u \in DOMAIN tasks : /\ tasks'[u].content = tasks[u].content
                                      /\ tasks'[u].path = tasks[u].path
                                      /\ tasks'[u].state = IF u = t THEN state
                                                                   ELSE tasks[u].state
<1>1. tasks' = [u \in 1 .. Len(tasks) |-> IF u = t THEN [tasks[t] EXCEPT !.state = state]
                                                   ELSE tasks[u]]
  BY TaskSeq DEF SetTask, TypeInv
<1>2. \A u \in 1 .. Len(tasks) : tasks[u] \in TaskSet
  BY TaskSeq
<1>3. [tasks[t] EXCEPT !.state = state] =
          [content |-> tasks[t].content, path |-> tasks[t].path, state |-> state]
  BY <1>2, TaskSeq DEF TaskSet
<1>4. [tasks[t] EXCEPT !.state = state] \in TaskSet
  BY <1>2, <1>3, TaskSeq DEF TaskSet
<1>5. tasks' \in [1 .. Len(tasks) -> TaskSet]
  BY <1>1, <1>2, <1>4
<1>6. tasks' \in Seq(TaskSet) /\ Len(tasks') = Len(tasks) /\ DOMAIN tasks' = DOMAIN tasks
  BY <1>5, TaskSeq
<1> QED BY <1>1, <1>3, <1>6, TaskSeq

LEMMA ArgTypes ==
    ASSUME TypeInv
    PROVE  /\ args.start \in Nat /\ args.exit \in Nat /\ args.start <= args.exit
           /\ args.snapshot_format \in Formats /\ args.proof_format \in Formats
BY KernelAssumption DEF TypeInv, Formats

LEMMA TypeInit == Init => TypeInv
<1> SUFFICES ASSUME Init PROVE TypeInv
  OBVIOUS
<1>1. args.start \in Nat /\ args.exit \in Nat /\ args.start <= args.exit
  BY KernelAssumption DEF Init
<1>2. tasks \in Seq(TaskSet) /\ Len(tasks) = 0
  BY DEF Init
<1>3. DOMAIN files = {}
  BY DEF Init
<1>4. exited <=> step = args.exit
  BY <1>1 DEF Init
<1>5. exited \in BOOLEAN /\ serverUp \in BOOLEAN
  BY KernelAssumption DEF Init
<1>6. step \in Nat /\ args.start <= step /\ step <= args.exit /\ awaiting \in 1 .. (Len(tasks) + 1)
  BY <1>1, <1>2 DEF Init
<1> QED BY <1>2, <1>3, <1>4, <1>5, <1>6 DEF Init, TypeInv

LEMMA TypeStep == TypeInv /\ LoopInv /\ [Next]_vars => TypeInv'
<1> SUFFICES ASSUME TypeInv, LoopInv, [Next]_vars PROVE TypeInv'
  OBVIOUS
<1>1. CASE LoopTop
  <2>1. tasks' \in Seq(TaskSet) /\ Len(tasks') >= Len(tasks)
    BY <1>1, TaskType, ArgTypes DEF LoopTop, TypeInv, Kinds, Leave
  <2> QED BY <1>1, <2>1 DEF LoopTop, TypeInv, Leave
<1>2. CASE Step
  <2>1. tasks' \in Seq(TaskSet) /\ Len(tasks') >= Len(tasks)
    BY <1>2, TaskType, ArgTypes DEF Step, TypeInv, Kinds
  <2>2. step < args.exit
    BY <1>2, ArgTypes DEF Step, LoopInv, TypeInv
  <2>3. exited' \in BOOLEAN /\ (exited' <=> step' = args'.exit)
    BY <1>2 DEF Step
  <2>4. step' \in Nat /\ args'.start <= step' /\ step' <= args'.exit
    BY <1>2, <2>2, ArgTypes DEF Step, TypeInv
  <2>5. awaiting' \in 1 .. (Len(tasks') + 1)
    BY <1>2, <2>1, TaskSeq DEF Step, TypeInv
  <2> QED BY <1>2, <2>1, <2>3, <2>4, <2>5 DEF Step, TypeInv
<1>3. CASE StepFails \/ StepBlocks \/ Check \/ Output
  BY <1>3 DEF StepFails, StepBlocks, Check, Output, TypeInv, Leave
<1>4. CASE Await
  BY <1>4 DEF Await, TypeInv, Leave
<1>5. ASSUME NEW t \in DOMAIN tasks, TaskCreate(t) \/ TaskWrite(t) \/ TaskDrop(t)
      PROVE  TypeInv'
  <2>1. PICK s \in States : SetTask(t, s)
    BY <1>5 DEF TaskCreate, TaskWrite, TaskDrop, States
  <2>2. tasks' \in Seq(TaskSet) /\ Len(tasks') = Len(tasks)
    BY <2>1, SetTaskEffect
  <2>3. tasks[t].path \in Paths
    BY TaskSeq
  <2>4. DOMAIN files' \subseteq Paths
    BY <1>5, <2>3 DEF TaskCreate, TaskWrite, TaskDrop, TypeInv
  <2>5. TaskUnchanged
    BY <1>5 DEF TaskCreate, TaskWrite, TaskDrop
  <2> QED BY <2>2, <2>4, <2>5 DEF TaskUnchanged, TypeInv
<1>6. CASE ServerExit
  BY <1>6 DEF ServerExit, TypeInv
<1>7. CASE UNCHANGED vars
  BY <1>7 DEF vars, TypeInv
<1> QED BY <1>1, <1>2, <1>3, <1>4, <1>5, <1>6, <1>7 DEF Next, KernelStep, TaskStep

LEMMA LoopInit == Init => LoopInv
<1> SUFFICES ASSUME Init PROVE LoopInv
  OBVIOUS
<1>1. args.start \in Nat
  BY KernelAssumption DEF Init
<1> QED BY <1>1 DEF Init, LoopInv, Executed

LEMMA LoopStep == TypeInv /\ LoopInv /\ [Next]_vars => LoopInv'
<1> SUFFICES ASSUME TypeInv, LoopInv, [Next]_vars PROVE LoopInv'
  OBVIOUS
<1> USE DEF TypeInv, LoopInv, Executed, Matches, Panics
<1>1. CASE LoopTop
  BY <1>1 DEF LoopTop, Leave, Stops
<1>2. CASE Step
  <2>1. \A s \in args.start .. step : ~ Matches(args.stop_at, s)
    BY <1>2, ArgTypes DEF Step
  <2>2. \A s \in Executed' : ~ Matches(args'.stop_at, s)
    BY <1>2, <2>1, ArgTypes DEF Step
  <2> QED BY <1>2, <2>2, ArgTypes DEF Step
<1>3. CASE StepFails \/ StepBlocks \/ Check \/ Output \/ Await
  BY <1>3 DEF StepFails, StepBlocks, Check, Output, Await, Leave
<1>4. CASE TaskStep \/ ServerExit \/ UNCHANGED vars
  <2>1. UNCHANGED <<args, pc, step, exited, outcome>>
    BY <1>4 DEF TaskStep, TaskCreate, TaskWrite, TaskDrop, TaskUnchanged, ServerExit, vars
  <2> QED BY <2>1
<1> QED BY <1>1, <1>2, <1>3, <1>4 DEF Next, KernelStep

LEMMA ServerInit == Init => ServerInv
BY DEF Init, ServerInv

LEMMA ServerStep == TypeInv /\ ServerInv /\ [Next]_vars => ServerInv'
<1> SUFFICES ASSUME TypeInv, ServerInv, [Next]_vars PROVE ServerInv'
  OBVIOUS
<1> USE DEF TypeInv, ServerInv
<1>1. CASE LoopTop \/ StepFails \/ StepBlocks \/ Output \/ Await
  BY <1>1 DEF LoopTop, StepFails, StepBlocks, Output, Await, Leave
<1>2. CASE Step
  BY <1>2 DEF Step
<1>3. CASE Check
  BY <1>3 DEF Check, CheckDue, Leave
<1>4. CASE ServerExit
  BY <1>4 DEF ServerExit
<1>5. CASE TaskStep \/ UNCHANGED vars
  BY <1>5 DEF TaskStep, TaskCreate, TaskWrite, TaskDrop, TaskUnchanged, vars
<1> QED BY <1>1, <1>2, <1>3, <1>4, <1>5 DEF Next, KernelStep

-----------------------------------------------------------------------------
(* Appending a task.                                                       *)
LEMMA AppendEffect ==
    ASSUME TypeInv, NEW task \in TaskSet, tasks' = Append(tasks, task)
    PROVE  /\ DOMAIN tasks' = DOMAIN tasks \cup {Len(tasks) + 1}
           /\ Len(tasks) + 1 \notin DOMAIN tasks
           /\ tasks'[Len(tasks) + 1] = task
           /\ \A t \in DOMAIN tasks : tasks'[t] = tasks[t]
           /\ Len(tasks') = Len(tasks) + 1
BY TaskSeq DEF TypeInv

(* What one more step makes due.                                           *)
LEMMA DueStep ==
    ASSUME TypeInv, step' = step + 1, args' = args
    PROVE  Due' = Due \cup (IF Matches(args.snapshot_at, step) THEN {<<"snapshot", step>>} ELSE {})
                      \cup (IF Matches(args.proof_at, step) THEN {<<"proof", step>>} ELSE {})
<1>1. Executed' = Executed \cup {step}
  BY ArgTypes DEF Executed, TypeInv
<1> QED BY <1>1 DEF Due, Matches

LEMMA TaskInit == Init => TaskInv
<1> SUFFICES ASSUME Init PROVE TaskInv
  OBVIOUS
<1>1. DOMAIN tasks = {} /\ Len(tasks) = 0
  BY DEF Init
<1>2. Executed = {}
  BY KernelAssumption DEF Init, Executed
<1>3. Started = {}
  BY <1>2 DEF Started, Due, Init
<1> QED BY <1>1, <1>3 DEF Init, TaskInv

(* A new task for an output that was not started before.                   *)
LEMMA NewTask ==
    ASSUME TypeInv, TaskInv, NEW kind \in Kinds, NEW format \in Formats,
           tasks' = Append(tasks, Task(kind, format)),
           \A t \in DOMAIN tasks : tasks[t].content # <<kind, step>>
    PROVE  /\ \A t, u \in DOMAIN tasks' : tasks'[t].content = tasks'[u].content => t = u
           /\ {tasks'[t].content : t \in DOMAIN tasks'} =
                  {tasks[t].content : t \in DOMAIN tasks} \cup {<<kind, step>>}
           /\ \A t \in DOMAIN tasks' : \/ t \in DOMAIN tasks /\ tasks'[t] = tasks[t]
                                       \/ t = Len(tasks) + 1 /\ tasks'[t].content = <<kind, step>>
<1> DEFINE new == Task(kind, format)
<1>1. new \in TaskSet /\ new.content = <<kind, step>>
  BY TaskType
<1> HIDE DEF new
<1>2. tasks' = Append(tasks, new)
  BY DEF new
<1>3. /\ DOMAIN tasks' = DOMAIN tasks \cup {Len(tasks) + 1}
      /\ Len(tasks) + 1 \notin DOMAIN tasks
      /\ tasks'[Len(tasks) + 1] = new
      /\ \A t \in DOMAIN tasks : tasks'[t] = tasks[t]
  BY <1>1, <1>2, AppendEffect
<1>4. \A t, u \in DOMAIN tasks' : tasks'[t].content = tasks'[u].content => t = u
  BY <1>1, <1>3 DEF TaskInv
<1>5. {tasks'[t].content : t \in DOMAIN tasks'} =
          {tasks[t].content : t \in DOMAIN tasks} \cup {<<kind, step>>}
  <2>1. \A t \in DOMAIN tasks' :
            tasks'[t].content \in {tasks[u].content : u \in DOMAIN tasks} \cup {<<kind, step>>}
    BY <1>1, <1>3
  <2>2. <<kind, step>> \in {tasks'[t].content : t \in DOMAIN tasks'}
    BY <1>1, <1>3
  <2>3. \A u \in DOMAIN tasks : tasks[u].content \in {tasks'[t].content : t \in DOMAIN tasks'}
    <3> TAKE u \in DOMAIN tasks
    <3>1. u \in DOMAIN tasks' /\ tasks'[u].content = tasks[u].content
      BY <1>3
    <3> QED BY <3>1
  <2> QED BY <2>1, <2>2, <2>3
<1> QED BY <1>1, <1>3, <1>4, <1>5

LEMMA PathInit == Init => PathInv
BY DEF Init, PathInv

LEMMA PathStep == TypeInv /\ PathInv /\ [Next]_vars => PathInv'
<1> SUFFICES ASSUME TypeInv, PathInv, [Next]_vars PROVE PathInv'
  OBVIOUS
<1>1. args' = args
  BY DEF Next, KernelStep, TaskStep, LoopTop, Step, StepFails, StepBlocks, Check, Output, Await,
         TaskCreate, TaskWrite, TaskDrop, TaskUnchanged, ServerExit, vars
<1>2. ASSUME NEW kind \in Kinds, NEW format \in Formats,
             format = IF kind = "proof" THEN args.proof_format ELSE args.snapshot_format,
             tasks' = Append(tasks, Task(kind, format))
      PROVE  PathInv'
  <2> DEFINE new == Task(kind, format)
  <2>1. new \in TaskSet /\ new.content = <<kind, step>> /\ new.path = Path(kind, format, step)
    BY TaskType
  <2>2. new.path = PathIn(args, new.content)
    BY <1>2, <2>1 DEF PathIn
  <2> HIDE DEF new
  <2>3. tasks' = Append(tasks, new)
    BY <1>2 DEF new
  <2>4. /\ DOMAIN tasks' = DOMAIN tasks \cup {Len(tasks) + 1}
        /\ tasks'[Len(tasks) + 1] = new
        /\ \A t \in DOMAIN tasks : tasks'[t] = tasks[t]
    BY <2>1, <2>3, AppendEffect
  <2> QED BY <1>1, <2>2, <2>4 DEF PathInv
<1>3. CASE tasks' = tasks
  BY <1>1, <1>3 DEF PathInv
<1>4. CASE LoopTop /\ tasks' # tasks
  <2>1. tasks' = Append(tasks, Task("snapshot", args.snapshot_format))
    BY <1>4 DEF LoopTop, Leave
  <2> QED BY <1>2, <2>1, ArgTypes DEF Kinds
<1>5. CASE Step /\ tasks' # tasks
  <2>1. tasks' = Append(tasks, Task("proof", args.proof_format))
    BY <1>5 DEF Step
  <2> QED BY <1>2, <2>1, ArgTypes DEF Kinds
<1>6. ASSUME NEW t \in DOMAIN tasks, TaskCreate(t) \/ TaskWrite(t) \/ TaskDrop(t)
      PROVE  PathInv'
  <2>1. PICK s \in States : SetTask(t, s)
    BY <1>6 DEF TaskCreate, TaskWrite, TaskDrop, States
  <2>2. /\ DOMAIN tasks' = DOMAIN tasks
        /\ \A u \in DOMAIN tasks : /\ tasks'[u].content = tasks[u].content
                                   /\ tasks'[u].path = tasks[u].path
    BY <2>1, SetTaskEffect
  <2> QED BY <1>1, <2>2 DEF PathInv
<1>7. Next \/ UNCHANGED vars
  OBVIOUS
<1>8. tasks' # tasks => LoopTop \/ Step \/ TaskStep
  BY <1>7 DEF Next, KernelStep, StepFails, StepBlocks, Check, Output, Await, ServerExit, vars
<1> QED BY <1>3, <1>4, <1>5, <1>6, <1>8 DEF TaskStep

LEMMA TaskStepInv == TypeInv /\ TaskInv /\ [Next]_vars => TaskInv'
<1> SUFFICES ASSUME TypeInv, TaskInv, [Next]_vars PROVE TaskInv'
  OBVIOUS
<1>1. CASE LoopTop
  <2>1. UNCHANGED <<args, step, exited, awaiting>> /\ pc = "loop" /\ outcome' # "ok"
    BY <1>1 DEF LoopTop, Leave, TypeInv
  <2>2. Due' = Due /\ Due = {tasks[t].content : t \in DOMAIN tasks}
    BY <2>1 DEF TaskInv, Started, Due, Executed, Matches, TypeInv
  <2>3. awaiting = 1
    BY <2>1 DEF TaskInv
  <2>4. CASE tasks' = tasks
    <3>1. pc' = "step" => ~ Matches(args.snapshot_at, step)
      BY <1>1, <2>4, TaskSeq, TaskType, ArgTypes DEF LoopTop, Leave, Kinds, TypeInv
    <3>2. Started' = Due
      BY <2>1, <2>2, <3>1 DEF Started, Matches
    <3> QED BY <2>1, <2>2, <2>3, <2>4, <3>2 DEF TaskInv, TypeInv
  <2>5. CASE tasks' # tasks
    <3>1. pc' = "step" /\ Matches(args.snapshot_at, step)
            /\ tasks' = Append(tasks, Task("snapshot", args.snapshot_format))
      BY <1>1, <2>5 DEF LoopTop, Leave
    <3>2. \A t \in DOMAIN tasks : tasks[t].content # <<"snapshot", step>>
      BY <2>1 DEF TaskInv, TypeInv
    <3>3. /\ \A t, u \in DOMAIN tasks' : tasks'[t].content = tasks'[u].content => t = u
          /\ {tasks'[t].content : t \in DOMAIN tasks'} =
                 {tasks[t].content : t \in DOMAIN tasks} \cup {<<"snapshot", step>>}
          /\ \A t \in DOMAIN tasks' :
                 \/ t \in DOMAIN tasks /\ tasks'[t] = tasks[t]
                 \/ t = Len(tasks) + 1 /\ tasks'[t].content = <<"snapshot", step>>
      BY <2>1, <3>1, <3>2, NewTask, ArgTypes DEF Kinds
    <3>4. Started' = Due \cup {<<"snapshot", step>>}
      BY <2>1, <2>2, <3>1 DEF Started, Matches
    <3>5. \A t \in DOMAIN tasks' :
              tasks'[t].content[2] < step' \/ (tasks'[t].content[2] = step'
                                               /\ tasks'[t].content[1] = "snapshot"
                                               /\ pc' \in {"step", "blocked", "done"})
      BY <2>1, <3>1, <3>3 DEF TaskInv
    <3>6. \A t \in DOMAIN tasks' : ~ (t < awaiting')
      BY <2>1, <2>3, <3>3, TaskSeq
    <3> QED BY <2>1, <2>2, <2>3, <3>1, <3>3, <3>4, <3>5, <3>6 DEF TaskInv
  <2> QED BY <2>4, <2>5
<1>2. CASE Step
  <2>1. UNCHANGED <<args, awaiting, outcome>> /\ pc = "step" /\ pc' = "check" /\ step' = step + 1
    BY <1>2 DEF Step
  <2>2. awaiting = 1 /\ outcome # "ok" /\ step \in Nat
    BY <2>1 DEF TaskInv, TypeInv
  <2>3. Due' = {tasks[t].content : t \in DOMAIN tasks}
                \cup (IF Matches(args.proof_at, step) THEN {<<"proof", step>>} ELSE {})
    BY <2>1, DueStep DEF TaskInv, Started
  <2>4. Started' = Due'
    BY <2>1 DEF Started
  <2>5. CASE ~ Matches(args.proof_at, step)
    <3>1. tasks' = tasks
      BY <1>2, <2>5 DEF Step
    <3>2. \A t \in DOMAIN tasks' : tasks'[t].content[2] < step'
      BY <2>1, <2>2, <3>1, TaskSeq DEF TaskInv, TaskSet, Contents
    <3>3. Started' = {tasks'[t].content : t \in DOMAIN tasks'}
      BY <2>3, <2>4, <2>5, <3>1
    <3> QED BY <2>1, <2>2, <3>1, <3>2, <3>3 DEF TaskInv
  <2>6. CASE Matches(args.proof_at, step)
    <3>1. tasks' = Append(tasks, Task("proof", args.proof_format))
      BY <1>2, <2>6 DEF Step
    <3>2. \A t \in DOMAIN tasks : tasks[t].content # <<"proof", step>>
      BY <2>2 DEF TaskInv
    <3>3. /\ \A t, u \in DOMAIN tasks' : tasks'[t].content = tasks'[u].content => t = u
          /\ {tasks'[t].content : t \in DOMAIN tasks'} =
                 {tasks[t].content : t \in DOMAIN tasks} \cup {<<"proof", step>>}
          /\ \A t \in DOMAIN tasks' :
                 \/ t \in DOMAIN tasks /\ tasks'[t] = tasks[t]
                 \/ t = Len(tasks) + 1 /\ tasks'[t].content = <<"proof", step>>
      BY <2>1, <3>1, <3>2, NewTask, ArgTypes DEF Kinds
    <3>4. \A t \in DOMAIN tasks : tasks[t].content[2] < step + 1
      BY <2>2, TaskSeq DEF TaskInv, TaskSet, Contents
    <3>5. \A t \in DOMAIN tasks' : tasks'[t].content[2] < step'
      BY <2>1, <2>2, <3>3, <3>4
    <3>6. \A t \in DOMAIN tasks' : ~ (t < awaiting')
      BY <2>1, <2>2, <3>3, TaskSeq
    <3> QED BY <2>1, <2>2, <2>3, <2>4, <2>6, <3>3, <3>5, <3>6 DEF TaskInv
  <2> QED BY <2>5, <2>6
<1>3. CASE StepFails \/ StepBlocks \/ Check \/ Output
  <2>1. UNCHANGED <<args, step, tasks, awaiting>> /\ outcome' # "ok"
          /\ pc \in {"step", "check", "output"} /\ pc' \in {"done", "blocked", "loop", "await"}
          /\ (pc' \in {"loop", "await"} => pc # "step")
    BY <1>3 DEF StepFails, StepBlocks, Check, Output, Leave, TypeInv
  <2>2. pc' \in {"loop", "await"} => Started' = Started
    BY <2>1 DEF Started, Due, Executed, Matches
  <2> QED BY <1>3, <2>1, <2>2 DEF TaskInv,
                                  StepFails, StepBlocks, Check, Output, Leave
<1>4. CASE Await
  <2>1. UNCHANGED <<args, step, tasks>> /\ pc = "await" /\ pc' \in {"await", "done"}
    BY <1>4 DEF Await, Leave
  <2>2. Started' = Started
    BY <2>1 DEF Started, Due, Executed, Matches
  <2>3. \A t \in DOMAIN tasks : t < awaiting' => tasks[t].state = "done"
    BY <1>4, TaskSeq DEF Await, TaskInv, TypeInv
  <2>4. outcome' = "ok" => awaiting' > Len(tasks)
    BY <1>4 DEF Await, Leave, TypeInv
  <2> QED BY <2>1, <2>2, <2>3, <2>4 DEF TaskInv, TypeInv
<1>5. ASSUME NEW t \in DOMAIN tasks, TaskCreate(t) \/ TaskWrite(t) \/ TaskDrop(t)
      PROVE  TaskInv'
  <2>1. PICK s \in States : SetTask(t, s)
    BY <1>5 DEF TaskCreate, TaskWrite, TaskDrop, States
  <2>2. tasks[t].state # "done" /\ TaskUnchanged
    BY <1>5 DEF TaskCreate, TaskWrite, TaskDrop
  <2>3. /\ DOMAIN tasks' = DOMAIN tasks /\ Len(tasks') = Len(tasks)
        /\ \A u \in DOMAIN tasks : /\ tasks'[u].content = tasks[u].content
                                   /\ tasks'[u].path = tasks[u].path
                                   /\ tasks'[u].state = IF u = t THEN s ELSE tasks[u].state
    BY <2>1, SetTaskEffect
  <2>4. Started' = Started
    BY <2>2 DEF TaskUnchanged, Started, Due, Executed, Matches
  <2>5. {tasks'[u].content : u \in DOMAIN tasks'} = {tasks[u].content : u \in DOMAIN tasks}
    BY <2>3
  <2> QED BY <2>2, <2>3, <2>4, <2>5 DEF TaskUnchanged, TaskInv
<1>6. CASE ServerExit \/ UNCHANGED vars
  <2>1. UNCHANGED <<args, pc, step, awaiting, outcome, tasks>>
    BY <1>6 DEF ServerExit, vars
  <2>2. Started' = Started
    BY <2>1 DEF Started, Due, Executed, Matches
  <2> QED BY <2>1, <2>2 DEF TaskInv
<1> QED BY <1>1, <1>2, <1>3, <1>4, <1>5, <1>6 DEF Next, KernelStep, TaskStep

-----------------------------------------------------------------------------
(* The files.                                                              *)
LEMMA FileInit == Init => FileInv
BY DEF Init, FileInv

(* A step that starts no task and leaves the files alone.                  *)
LEMMA FileSame ==
    ASSUME FileInv, UNCHANGED <<tasks, files>>,
           ~ FitsBuffer => ((pc' = "await" \/ outcome' = "ok") /\ args'.output = "file"
                                => output' = step')
    PROVE  FileInv'
BY DEF FileInv, Alone

(* A step that may start one.                                              *)
LEMMA FileAppend ==
    ASSUME TypeInv, FileInv, UNCHANGED files,
           NEW kind \in Kinds, NEW format \in Formats,
           tasks' = Append(tasks, Task(kind, format)),
           pc' # "await", outcome' # "ok"
    PROVE  FileInv'
<1> DEFINE new == Task(kind, format)
<1>1. new \in TaskSet /\ new.state = "queued"
  BY TaskType
<1> HIDE DEF new
<1>2. tasks' = Append(tasks, new)
  BY DEF new
<1>3. /\ DOMAIN tasks' = DOMAIN tasks \cup {Len(tasks) + 1}
      /\ Len(tasks) + 1 \notin DOMAIN tasks
      /\ tasks'[Len(tasks) + 1] = new
      /\ \A t \in DOMAIN tasks : tasks'[t] = tasks[t]
  BY <1>1, <1>2, AppendEffect
<1>4. \A t \in DOMAIN tasks : Alone(t)' => Alone(t)
  BY <1>3 DEF Alone
<1>5. \A t \in DOMAIN tasks' : tasks'[t].state \in {"created", "done"} =>
          t \in DOMAIN tasks /\ tasks'[t] = tasks[t]
  BY <1>1, <1>3
<1>6. \A p \in DOMAIN files' : \E t \in DOMAIN tasks' : tasks'[t].path = p
  BY <1>3 DEF FileInv
<1> QED BY <1>4, <1>5, <1>6 DEF FileInv

LEMMA FileStep == TypeInv /\ FileInv /\ [Next]_vars => FileInv'
<1> SUFFICES ASSUME TypeInv, FileInv, [Next]_vars PROVE FileInv'
  OBVIOUS
<1>1. CASE LoopTop
  <2>1. pc' # "await" /\ outcome' # "ok" /\ files' = files
    BY <1>1 DEF LoopTop, Leave, TypeInv
  <2>2. CASE tasks' = tasks
    BY <2>1, <2>2, FileSame
  <2>3. CASE tasks' # tasks
    <3>1. tasks' = Append(tasks, Task("snapshot", args.snapshot_format))
      BY <1>1, <2>3 DEF LoopTop, Leave
    <3> QED BY <2>1, <3>1, FileAppend, ArgTypes DEF Kinds
  <2> QED BY <2>2, <2>3
<1>2. CASE Step
  <2>1. pc' # "await" /\ outcome' # "ok" /\ files' = files
    BY <1>2 DEF Step, TypeInv
  <2>2. CASE tasks' = tasks
    BY <2>1, <2>2, FileSame
  <2>3. CASE tasks' # tasks
    <3>1. tasks' = Append(tasks, Task("proof", args.proof_format))
      BY <1>2, <2>3 DEF Step
    <3> QED BY <2>1, <3>1, FileAppend, ArgTypes DEF Kinds
  <2> QED BY <2>2, <2>3
<1>3. CASE StepFails \/ StepBlocks \/ Check
  <2>1. pc' # "await" /\ outcome' # "ok" /\ UNCHANGED <<tasks, files>>
    BY <1>3 DEF StepFails, StepBlocks, Check, Leave, TypeInv
  <2> QED BY <2>1, FileSame
<1>4. CASE Output
  <2>1. UNCHANGED <<args, step, tasks, files>> /\ outcome' # "ok"
    BY <1>4 DEF Output, Leave, TypeInv
  <2>2. ~ FitsBuffer /\ pc' = "await" /\ args'.output = "file" => output' = step'
    BY <1>4 DEF Output, Leave, Written
  <2> QED BY <2>1, <2>2, FileSame
<1>5. CASE Await
  <2>1. UNCHANGED <<args, step, output, tasks, files>> /\ pc = "await"
    BY <1>5 DEF Await
  <2> QED BY <2>1, FileSame DEF FileInv
<1>6. CASE ServerExit \/ UNCHANGED vars
  <2>1. UNCHANGED <<args, pc, step, outcome, output, tasks, files>>
    BY <1>6 DEF ServerExit, vars
  <2> QED BY <2>1, FileSame DEF FileInv
<1>7. ASSUME NEW t \in DOMAIN tasks, TaskCreate(t) \/ TaskWrite(t) \/ TaskDrop(t)
      PROVE  FileInv'
  <2>1. PICK s \in States : SetTask(t, s)
    BY <1>7 DEF TaskCreate, TaskWrite, TaskDrop, States
  <2>2. UNCHANGED <<args, pc, step, outcome, output>>
    BY <1>7 DEF TaskCreate, TaskWrite, TaskDrop, TaskUnchanged
  <2>3. /\ DOMAIN tasks' = DOMAIN tasks
        /\ \A u \in DOMAIN tasks : /\ tasks'[u].content = tasks[u].content
                                   /\ tasks'[u].path = tasks[u].path
                                   /\ tasks'[u].state = IF u = t THEN s ELSE tasks[u].state
    BY <2>1, SetTaskEffect
  <2>4. \A u \in DOMAIN tasks : Alone(u)' <=> Alone(u)
    BY <2>3 DEF Alone
  <2>5. \A u \in DOMAIN tasks : Alone(u) /\ u # t => tasks[u].path # tasks[t].path
    BY DEF Alone
  <2>6. CASE UNCHANGED files /\ s \notin {"created", "done"}
    BY <2>2, <2>3, <2>4, <2>6 DEF FileInv
  <2>7. CASE /\ s = "created"
             /\ files' = [p \in DOMAIN files \cup {tasks[t].path} |->
                              IF p = tasks[t].path THEN {} ELSE files[p]]
    <3>1. DOMAIN files' = DOMAIN files \cup {tasks[t].path} /\ files'[tasks[t].path] = {}
      BY <2>7
    <3>2. \A u \in DOMAIN tasks : Alone(u) /\ u # t /\ tasks[u].path \in DOMAIN files =>
              files'[tasks[u].path] = files[tasks[u].path]
      BY <2>5, <2>7
    <3>3. \A u \in DOMAIN tasks' : tasks'[u].state \in {"created", "done"} =>
              tasks'[u].path \in DOMAIN files'
      BY <2>3, <3>1 DEF FileInv
    <3>4. \A p \in DOMAIN files' : \E u \in DOMAIN tasks' : tasks'[u].path = p
      BY <2>3, <3>1 DEF FileInv
    <3>5. ~ FitsBuffer => \A u \in DOMAIN tasks' : Alone(u)' =>
              /\ tasks'[u].state = "created" => files'[tasks'[u].path] = {}
              /\ tasks'[u].state = "done" => files'[tasks'[u].path] = {tasks'[u].content}
      <4> SUFFICES ASSUME ~ FitsBuffer, NEW u \in DOMAIN tasks, Alone(u)
                   PROVE  /\ tasks'[u].state = "created" => files'[tasks'[u].path] = {}
                          /\ tasks'[u].state = "done" =>
                                 files'[tasks'[u].path] = {tasks'[u].content}
        BY <2>3, <2>4
      <4>1. CASE u = t
        BY <2>3, <2>7, <3>1, <4>1
      <4>2. CASE u # t
        <5>1. tasks'[u].state = tasks[u].state
          BY <2>3, <4>2
        <5>2. tasks[u].state \in {"created", "done"} =>
                  files'[tasks[u].path] = files[tasks[u].path]
          BY <4>2, <3>2 DEF FileInv
        <5> QED BY <2>3, <5>1, <5>2 DEF FileInv
      <4> QED BY <4>1, <4>2
    <3> QED BY <2>2, <3>3, <3>4, <3>5 DEF FileInv
  <2>8. CASE /\ s = "done" /\ tasks[t].state = "created"
             /\ \E bytes \in Written({{tasks[t].content}}, {{}}) :
                    files' = [files EXCEPT ![tasks[t].path] = @ \cup bytes]
    <3>1. PICK bytes \in Written({{tasks[t].content}}, {{}}) :
              files' = [files EXCEPT ![tasks[t].path] = @ \cup bytes]
      BY <2>8
    <3>2. tasks[t].path \in DOMAIN files
      BY <2>8 DEF FileInv
    <3>3. DOMAIN files' = DOMAIN files /\ files'[tasks[t].path] = files[tasks[t].path] \cup bytes
      BY <3>1, <3>2
    <3>4. \A u \in DOMAIN tasks : Alone(u) /\ u # t /\ tasks[u].path \in DOMAIN files =>
              files'[tasks[u].path] = files[tasks[u].path]
      BY <2>5, <3>1
    <3>5. ~ FitsBuffer => bytes = {tasks[t].content}
      BY <3>1 DEF Written
    <3>6. \A u \in DOMAIN tasks' : tasks'[u].state \in {"created", "done"} =>
              tasks'[u].path \in DOMAIN files'
      BY <2>3, <3>2, <3>3 DEF FileInv
    <3>7. \A p \in DOMAIN files' : \E u \in DOMAIN tasks' : tasks'[u].path = p
      BY <2>3, <3>3 DEF FileInv
    <3>8. ~ FitsBuffer => \A u \in DOMAIN tasks' : Alone(u)' =>
              /\ tasks'[u].state = "created" => files'[tasks'[u].path] = {}
              /\ tasks'[u].state = "done" => files'[tasks'[u].path] = {tasks'[u].content}
      <4> SUFFICES ASSUME ~ FitsBuffer, NEW u \in DOMAIN tasks, Alone(u)
                   PROVE  /\ tasks'[u].state = "created" => files'[tasks'[u].path] = {}
                          /\ tasks'[u].state = "done" =>
                                 files'[tasks'[u].path] = {tasks'[u].content}
        BY <2>3, <2>4
      <4>1. CASE u = t
        BY <2>3, <2>8, <3>3, <3>5, <4>1 DEF FileInv
      <4>2. CASE u # t
        <5>1. tasks'[u].state = tasks[u].state
          BY <2>3, <4>2
        <5>2. tasks[u].state \in {"created", "done"} =>
                  files'[tasks[u].path] = files[tasks[u].path]
          BY <4>2, <3>4 DEF FileInv
        <5> QED BY <2>3, <5>1, <5>2 DEF FileInv
      <4> QED BY <4>1, <4>2
    <3> QED BY <2>2, <3>6, <3>7, <3>8 DEF FileInv
  <2>9. /\ UNCHANGED files /\ (SetTask(t, "failed") \/ SetTask(t, "dropped"))
        \/ /\ SetTask(t, "created")
           /\ files' = [p \in DOMAIN files \cup {tasks[t].path} |->
                              IF p = tasks[t].path THEN {} ELSE files[p]]
        \/ /\ SetTask(t, "done") /\ tasks[t].state = "created"
           /\ \E bytes \in Written({{tasks[t].content}}, {{}}) :
                    files' = [files EXCEPT ![tasks[t].path] = @ \cup bytes]
    BY <1>7 DEF TaskCreate, TaskWrite, TaskDrop
  <2>10. \A r \in States : SetTask(t, r) => s = r
    <3> TAKE r \in States
    <3> HAVE SetTask(t, r)
    <3>1. tasks'[t].state = r
      BY SetTaskEffect
    <3> QED BY <2>3, <3>1
  <2> QED BY <2>6, <2>7, <2>8, <2>9, <2>10 DEF States
<1> QED BY <1>1, <1>2, <1>3, <1>4, <1>5, <1>6, <1>7 DEF Next, KernelStep, TaskStep

-----------------------------------------------------------------------------
LEMMA Invariance == Spec => []IInv
<1>1. Init => IInv
  BY TypeInit, LoopInit, ServerInit, PathInit, TaskInit, FileInit DEF IInv
<1>2. IInv /\ [Next]_vars => IInv'
  BY TypeStep, LoopStep, ServerStep, PathStep, TaskStepInv, FileStep DEF IInv
<1> QED BY <1>1, <1>2, PTL DEF Spec

(* The types of run()'s state, and that no task writes to a file it has    *)
(* not created.                                                            *)
THEOREM TypeCorrect == Spec => []TypeOK
<1>1. IInv => TypeOK
  <2> SUFFICES ASSUME IInv PROVE TypeOK
    OBVIOUS
  <2>1. step \in args.start .. args.exit
    BY ArgTypes DEF IInv, TypeInv
  <2>2. \A t \in DOMAIN tasks : tasks[t].state \in States
    BY TaskSeq DEF IInv, TaskSet
  <2> QED BY <2>1, <2>2 DEF IInv, TypeInv, FileInv, TypeOK, States
<1> QED BY <1>1, Invariance, PTL

(* Kernel::run executes no step that matches --stop-at, and when it        *)
(* reports success it stands at such a step or the guest has exited.       *)
THEOREM StopsCorrect == Spec => []StopsWhereAsked
<1>1. IInv => StopsWhereAsked
  BY DEF IInv, LoopInv, StopsWhereAsked
<1> QED BY <1>1, Invariance, PTL

(* One of any c consecutive numbers is a multiple of c.                    *)
LEMMA MultipleWithin ==
    ASSUME NEW d \in Nat, NEW c \in Nat \ {0}
    PROVE  \E m \in d .. (d + c - 1) : m % c = 0
<1> DEFINE q == d \div c
           r == d % c
<1>1. d = c * q + r /\ r \in 0 .. (c - 1) /\ q \in Nat
  OBVIOUS
<1>2. \A k \in Nat : (c * k) % c = 0
  OBVIOUS
<1>3. c * (q + 1) = c * q + c
  BY <1>1
<1> HIDE DEF q, r
<1>4. CASE r = 0
  <2>1. c * q = d
    BY <1>1, <1>4
  <2>2. d % c = 0
    BY <1>1, <1>2, <2>1
  <2> QED BY <2>2
<1>5. CASE r # 0
  <2> DEFINE m == c * (q + 1)
  <2>1. m % c = 0
    BY <1>1, <1>2
  <2>2. m \in d .. (d + c - 1)
    <3>1. c * q \in Int
      BY <1>1
    <3> QED BY <1>1, <1>3, <1>5, <3>1
  <2> HIDE DEF m
  <2> QED BY <2>1, <2>2
<1> QED BY <1>4, <1>5

(* The periodic look of Kernel::run: the guest takes no more than          *)
(* CheckEvery steps after the preimage server has exited.                  *)
THEOREM ServerNoticed == Spec => []ServerExitNoticed
<1>1. IInv => ServerExitNoticed
  <2> SUFFICES ASSUME IInv, HasServer, ~ serverUp, ~ (step <= downAt + CheckEvery) PROVE FALSE
    BY DEF ServerExitNoticed
  <2>1. /\ downAt \in Nat /\ step \in Nat
        /\ \A s \in downAt .. (step - 1) : s % CheckEvery = 0 => s = step - 1
    BY DEF IInv, TypeInv, ServerInv
  <2>2. CheckEvery \in Nat \ {0}
    BY KernelAssumption
  <2>3. PICK m \in downAt .. (downAt + CheckEvery - 1) : m % CheckEvery = 0
    BY <2>1, <2>2, MultipleWithin
  <2>4. m \in downAt .. (step - 1) /\ m # step - 1
    BY <2>1, <2>2, <2>3
  <2> QED BY <2>1, <2>3, <2>4
<1> QED BY <1>1, Invariance, PTL

(* Unless bytes stay behind in a buffer (FitsBuffer), a run that reports   *)
(* success has written every snapshot and proof that was due to the file   *)
(* of its own, whatever the tasks of other outputs did in the meantime,    *)
(* has created no other file, and has written the final state.             *)
THEOREM OutputsCorrect ==
    ASSUME ~ FitsBuffer
    PROVE  Spec => []OutputsWritten
<1>1. IInv => OutputsWritten
  <2> SUFFICES ASSUME IInv, outcome = "ok" PROVE OutputsWritten
    BY DEF OutputsWritten
  <2> USE DEF IInv
  <2>1. Due = {tasks[t].content : t \in DOMAIN tasks}
    <3>1. pc = "done"
      BY DEF TypeInv
    <3>2. Started = Due
      BY <3>1 DEF Started
    <3> QED BY <3>2 DEF TaskInv
  <2>2. \A t \in DOMAIN tasks : tasks[t].state = "done" /\ tasks[t].path \in DOMAIN files
    <3>1. \A t \in DOMAIN tasks : t < awaiting
      BY TaskSeq DEF TaskInv, TypeInv
    <3> QED BY <3>1 DEF TaskInv, FileInv
  <2>3. \A c : PathOf(c) = PathIn(args, c)
    BY DEF PathOf, FormatOf, PathIn
  <2>4. \A t \in DOMAIN tasks : tasks[t].path = PathOf(tasks[t].content)
    BY <2>3 DEF PathInv
  <2>5. ASSUME NEW c \in Due, \A d \in Due \ {c} : PathOf(d) # PathOf(c)
        PROVE  PathOf(c) \in DOMAIN files /\ files[PathOf(c)] = {c}
    <3>1. PICK t \in DOMAIN tasks : tasks[t].content = c
      BY <2>1
    <3>2. \A u \in DOMAIN tasks \ {t} : tasks[u].content \in Due \ {c}
      BY <2>1, <3>1 DEF TaskInv
    <3>3. Alone(t)
      BY <2>4, <2>5, <3>1, <3>2 DEF Alone
    <3> QED BY <2>2, <2>4, <3>1, <3>3 DEF FileInv
  <2>6. DOMAIN files = {PathOf(c) : c \in Due}
    <3>1. ASSUME NEW p \in DOMAIN files PROVE p \in {PathOf(c) : c \in Due}
      <4>1. PICK t \in DOMAIN tasks : tasks[t].path = p
        BY DEF FileInv
      <4>2. tasks[t].content \in Due
        BY <2>1
      <4> QED BY <2>4, <4>1, <4>2
    <3>2. ASSUME NEW c \in Due PROVE PathOf(c) \in DOMAIN files
      <4>1. PICK t \in DOMAIN tasks : tasks[t].content = c
        BY <2>1
      <4> QED BY <2>2, <2>4, <4>1
    <3> QED BY <3>1, <3>2
  <2>7. args.output = "file" => output = step
    BY DEF FileInv
  <2> QED BY <2>5, <2>6, <2>7 DEF OutputsWritten
<1> QED BY <1>1, Invariance, PTL
=============================================================================
