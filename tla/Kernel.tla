------------------------------- MODULE Kernel -------------------------------
(***************************************************************************)
(* crates/cannon/src/kernel.rs: Kernel::run.  One loop steps the guest,    *)
(* stops where it is asked to, and starts a task for every snapshot and    *)
(* proof that is due.  The tasks write their files on the threads of the   *)
(* runtime, at the same time as the loop goes on, and are awaited at the   *)
(* end.  Every ten million steps the loop looks whether the preimage       *)
(* server has exited.                                                      *)
(*                                                                         *)
(* A state of the guest is its step number: a snapshot taken at step s is  *)
(* <<"snapshot", s>>, the proof of that step <<"proof", s>>.               *)
(***************************************************************************)
EXTENDS Integers, Sequences, FiniteSets

CONSTANTS
    StartSteps,   \* step numbers the input state may have
    ExitSteps,    \* step numbers at which the guest may exit
    StopAt, ProofAt, SnapshotAt,      \* matchers the user may give
    ProofFormats, SnapshotFormats,    \* "none", or how the format given names a file
    Outputs,      \* "none", "empty" or "file"
    CheckEvery,   \* steps between two looks at the server: 10_000_000
    HasServer,    \* the kernel was built with a server command
    FitsBuffer    \* the bytes of a file fit into the buffer of its BufWriter

Never         == [kind |-> "never", n |-> 0]
Always        == [kind |-> "always", n |-> 0]
Equal(n)      == [kind |-> "equal", n |-> n]
MultipleOf(n) == [kind |-> "multiple", n |-> n]

Matcher == {m \in [kind : {"never", "always", "equal", "multiple"}, n : Nat] :
               m.kind \in {"never", "always"} => m.n = 0}

ASSUME KernelAssumption ==
    /\ StartSteps \subseteq Nat /\ ExitSteps \subseteq Nat
    /\ \A s \in StartSteps, e \in ExitSteps : s <= e
    /\ \A m \in StopAt \cup ProofAt \cup SnapshotAt : m \in Matcher
    /\ ProofFormats \cup SnapshotFormats \subseteq {"none", "numbered", "fixed"}
    /\ Outputs \subseteq {"none", "empty", "file"}
    /\ CheckEvery \in Nat \ {0}
    /\ HasServer \in BOOLEAN /\ FitsBuffer \in BOOLEAN

VARIABLES
    args,      \* what the user asked for, and when the guest will exit
    pc,        \* where run() is
    step,      \* state.step
    exited,    \* state.exited
    awaiting,  \* the task being awaited
    outcome,   \* what run() returned
    tasks,     \* io_tasks
    files,     \* path -> what has been written since the file was created
    output,    \* the step number of the final state written, -1 if none
    serverUp,  \* the server process is running
    downAt     \* history: the step number when it exited, -1 before

vars == <<args, pc, step, exited, awaiting, outcome, tasks, files, output, serverUp, downAt>>

(* create_matcher has accepted the patterns; with one it refuses, run()    *)
(* returns before anything else happens.                                   *)
Init ==
    /\ args \in [start : StartSteps, exit : ExitSteps, stop_at : StopAt, proof_at : ProofAt,
                 snapshot_at : SnapshotAt, proof_format : ProofFormats,
                 snapshot_format : SnapshotFormats, output : Outputs]
    /\ pc = "loop"
    /\ step = args.start
    /\ exited = (args.start = args.exit)   \* the input state may have exited
    /\ awaiting = 1
    /\ outcome = "none"
    /\ tasks = << >>
    /\ files = [p \in {} |-> {}]
    /\ output = -1
    /\ serverUp = HasServer
    /\ downAt = -1

-----------------------------------------------------------------------------
(* Matcher::matches.  A multiple of zero is a division by zero.            *)

Panics(m) == m.kind = "multiple" /\ m.n = 0

Matches(m, value) ==
    \/ m.kind = "always"
    \/ m.kind = "equal" /\ value = m.n
    \/ m.kind = "multiple" /\ value % m.n = 0

(* Without a format both kinds of file are called "<step>.json.gz".        *)
Path(kind, format, s) ==
    CASE format = "none"     -> <<"default", s>>
      [] format = "numbered" -> <<kind, s>>
      [] format = "fixed"    -> <<kind, 0>>

Task(kind, format) ==
    [content |-> <<kind, step>>, path |-> Path(kind, format, step), state |-> "queued"]

Leave(result) == pc' = "done" /\ outcome' = result

-----------------------------------------------------------------------------
(* The loop.                                                               *)

(* Fault: the matching step is still executed.                             *)
StopsLate == Matches(args.stop_at, step - 1)

Stops == Matches(args.stop_at, step)

LoopTop ==
    /\ pc = "loop"
    /\ IF exited
       THEN pc' = "output" /\ UNCHANGED <<outcome, tasks>>
       ELSE IF Panics(args.stop_at)
       THEN Leave("panic") /\ UNCHANGED tasks
       ELSE IF Stops
       THEN pc' = "output" /\ UNCHANGED <<outcome, tasks>>
       ELSE IF Panics(args.snapshot_at)
       THEN Leave("panic") /\ UNCHANGED tasks
       ELSE /\ pc' = "step"
            /\ tasks' = IF Matches(args.snapshot_at, step)
                        THEN Append(tasks, Task("snapshot", args.snapshot_format))
                        ELSE tasks
            /\ UNCHANGED outcome
    /\ UNCHANGED <<args, step, exited, awaiting, files, output, serverUp, downAt>>

(* The step of the guest succeeds; with a proof a task is started.         *)
Step ==
    /\ pc = "step" /\ ~ Panics(args.proof_at)
    /\ pc' = "check"
    /\ step' = step + 1
    /\ exited' = (step + 1 = args.exit)
    /\ tasks' = IF Matches(args.proof_at, step)
                THEN Append(tasks, Task("proof", args.proof_format))
                ELSE tasks
    /\ UNCHANGED <<args, awaiting, outcome, files, output, serverUp, downAt>>

(* It fails, or the proof pattern panics.                                  *)
StepFails ==
    /\ pc = "step"
    /\ Leave(IF Panics(args.proof_at) THEN "panic" ELSE "err")
    /\ UNCHANGED <<args, step, exited, awaiting, tasks, files, output, serverUp, downAt>>

(* The guest needs a server that has exited.  The kernel itself holds the  *)
(* server's ends of the pipes, and so is never told (PreimageChannel).     *)
StepBlocks ==
    /\ pc = "step" /\ HasServer /\ ~ serverUp /\ ~ Panics(args.proof_at)
    /\ pc' = "blocked"
    /\ UNCHANGED <<args, step, exited, awaiting, outcome, tasks, files, output, serverUp, downAt>>

(* Fault: every other look is left out.                                    *)
CheckDueSeldom == (step - 1) % (2 * CheckEvery) = 0

(* `step` in the code is still the number from before the step.            *)
CheckDue == (step - 1) % CheckEvery = 0

(* The server is looked at, which may itself fail.                         *)
Check ==
    /\ pc = "check"
    /\ \/ CheckDue /\ HasServer /\ Leave("err")
       \/ /\ CheckDue => ~ HasServer \/ serverUp
          /\ pc' = "loop" /\ UNCHANGED outcome
    /\ UNCHANGED <<args, step, exited, awaiting, tasks, files, output, serverUp, downAt>>

-----------------------------------------------------------------------------
(* The end: the final state, then the tasks in the order they were started.*)

(* What a file may hold after write_all has succeeded.  Bytes that fit     *)
(* into the buffer reach the file when the BufWriter is dropped, and an    *)
(* error is not reported then.                                             *)
Written(new, old) == IF FitsBuffer THEN new \cup old ELSE new

Output ==
    /\ pc = "output"
    /\ \/ /\ pc' = "await"
          /\ output' \in IF args.output = "file" THEN Written({step}, {output}) ELSE {output}
          /\ UNCHANGED outcome
       \/ args.output = "file" /\ Leave("err") /\ UNCHANGED output
    /\ UNCHANGED <<args, step, exited, awaiting, tasks, files, serverUp, downAt>>

(* Fault: the tasks are not awaited.                                       *)
AwaitNone ==
    /\ pc = "await"
    /\ Leave("ok")
    /\ UNCHANGED <<args, step, exited, awaiting, tasks, files, output, serverUp, downAt>>

(* Fault: a task that fails is awaited for ever.                           *)
AwaitDone ==
    /\ pc = "await"
    /\ \/ awaiting > Len(tasks) /\ Leave("ok") /\ UNCHANGED awaiting
       \/ /\ awaiting <= Len(tasks) /\ tasks[awaiting].state = "done"
          /\ awaiting' = awaiting + 1
          /\ UNCHANGED <<pc, outcome>>
    /\ UNCHANGED <<args, step, exited, tasks, files, output, serverUp, downAt>>

Await ==
    /\ pc = "await"
    /\ \/ /\ awaiting > Len(tasks)
          /\ Leave("ok")
          /\ UNCHANGED awaiting
       \/ /\ awaiting <= Len(tasks) /\ tasks[awaiting].state = "done"
          /\ awaiting' = awaiting + 1
          /\ UNCHANGED <<pc, outcome>>
       \/ /\ awaiting <= Len(tasks) /\ tasks[awaiting].state = "failed"
          /\ Leave("err")
          /\ UNCHANGED awaiting
    /\ UNCHANGED <<args, step, exited, tasks, files, output, serverUp, downAt>>

-----------------------------------------------------------------------------
(* A task, on a thread of the runtime: create the file, then write it.     *)

SetTask(t, state) == tasks' = [tasks EXCEPT ![t].state = state]

TaskUnchanged ==
    UNCHANGED <<args, pc, step, exited, awaiting, outcome, output, serverUp, downAt>>

(* Fault: the file is not created.                                         *)
TaskCreateNone(t) ==
    /\ tasks[t].state = "queued"
    /\ SetTask(t, "created")
    /\ UNCHANGED files
    /\ TaskUnchanged

TaskCreate(t) ==
    /\ tasks[t].state = "queued"
    /\ \/ /\ SetTask(t, "created")
          /\ files' = [p \in DOMAIN files \cup {tasks[t].path} |->
                          IF p = tasks[t].path THEN {} ELSE files[p]]
       \/ SetTask(t, "failed") /\ UNCHANGED files
    /\ TaskUnchanged

TaskWrite(t) ==
    /\ tasks[t].state = "created"
    /\ \/ /\ SetTask(t, "done")
          /\ \E bytes \in Written({{tasks[t].content}}, {{}}) :
                 files' = [files EXCEPT ![tasks[t].path] = @ \cup bytes]
       \/ SetTask(t, "failed") /\ UNCHANGED files
    /\ TaskUnchanged

(* When run() returns before all tasks are awaited, the runtime is dropped *)
(* and takes with it the tasks that have not begun.                        *)
TaskDrop(t) ==
    /\ tasks[t].state = "queued"
    /\ pc = "done" /\ outcome # "ok"
    /\ SetTask(t, "dropped")
    /\ UNCHANGED files
    /\ TaskUnchanged

ServerExit ==
    /\ serverUp
    /\ serverUp' = FALSE
    /\ downAt' = step
    /\ UNCHANGED <<args, pc, step, exited, awaiting, outcome, tasks, files, output>>

KernelStep == LoopTop \/ Step \/ StepFails \/ StepBlocks \/ Check \/ Output \/ Await
TaskStep == \E t \in DOMAIN tasks : TaskCreate(t) \/ TaskWrite(t) \/ TaskDrop(t)

Next == KernelStep \/ TaskStep \/ ServerExit

(* The thread of the kernel and the threads of the runtime keep running.   *)
Spec == Init /\ [][Next]_vars /\ WF_vars(KernelStep) /\ WF_vars(TaskStep)

-----------------------------------------------------------------------------
TypeOK ==
    /\ pc \in {"loop", "step", "blocked", "check", "output", "await", "done"}
    /\ step \in args.start .. args.exit
    /\ exited \in BOOLEAN /\ serverUp \in BOOLEAN
    /\ outcome \in {"none", "ok", "err", "panic"}
    /\ awaiting \in 1 .. (Len(tasks) + 1)
    /\ \A t \in DOMAIN tasks :
           /\ tasks[t].state \in {"queued", "created", "done", "failed", "dropped"}
           /\ tasks[t].state \in {"created", "done"} => tasks[t].path \in DOMAIN files

(* The steps the run went through, and what was due on the way.            *)
Executed == args.start .. (step - 1)
Due ==
    {<<"snapshot", s>> : s \in {q \in Executed : Matches(args.snapshot_at, q)}} \cup
    {<<"proof", s>>    : s \in {q \in Executed : Matches(args.proof_at, q)}}
FormatOf(kind) == IF kind = "proof" THEN args.proof_format ELSE args.snapshot_format
PathOf(c) == Path(c[1], FormatOf(c[1]), c[2])

(* "Wrote snapshot at step {} successfully", "Wrote proof at step {}       *)
(* successfully", and "Wait for all of the i/o tasks to finish": a run     *)
(* that reports success has written the file of every snapshot and proof   *)
(* that was due, whole and unmixed, unless another one had the same path;  *)
(* and the final state, if asked for, is that of the last step.            *)
OutputsWritten ==
    outcome = "ok" =>
        /\ \A c \in Due :
               (\A d \in Due \ {c} : PathOf(d) # PathOf(c)) =>
                   PathOf(c) \in DOMAIN files /\ files[PathOf(c)] = {c}
        /\ DOMAIN files = {PathOf(c) : c \in Due}
        /\ args.output = "file" => output = step

(* No step matching stop_at is ever executed or proved, and a run that     *)
(* ends well ends there or where the guest exits.                          *)
StopsWhereAsked ==
    ~ Panics(args.stop_at) =>
        /\ \A s \in Executed : ~ Matches(args.stop_at, s)
        /\ outcome = "ok" => exited \/ Matches(args.stop_at, step)

(* "Periodically check if the preimage server process has exited": the     *)
(* guest takes no more than CheckEvery steps after the server has exited.  *)
ServerExitNoticed ==
    (HasServer /\ ~ serverUp) => step <= downAt + CheckEvery

(* The run of a guest that exits comes to an end, unless it waits for a    *)
(* server that has exited; and then no task is left unfinished.            *)
RunEnds ==
    <>[](pc = "blocked" \/ (pc = "done" /\ \A t \in DOMAIN tasks :
                                              tasks[t].state \in {"done", "failed", "dropped"}))
=============================================================================
