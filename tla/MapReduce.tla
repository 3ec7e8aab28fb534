------------------------------ MODULE MapReduce ------------------------------
(***************************************************************************)
(* Distributed jobs of mit/src/mapreduce: the master's run() goroutine     *)
(* with the two phases of schedule(), one goroutine per task that takes a  *)
(* worker from registerChannel and calls it, the accept loop of every      *)
(* worker with its limit nRPC, the crash of a worker's process, killWorkers*)
(* and merge.                                                              *)
(*                                                                         *)
(* Files are abstracted to who has written them: mapped are the map tasks  *)
(* whose intermediate files exist, and reduced[r] are the map tasks whose  *)
(* files reduce task r has read.  Go's task i is task i + 1 here.          *)
(***************************************************************************)
EXTENDS Integers, Sequences, FiniteSets, SequencesExt

CONSTANTS
    Worker,      \* the workers
    NFiles,      \* input files: the map tasks are 1 .. NFiles
    NReduce,     \* the reduce tasks are 1 .. NReduce
    Limited,     \* the workers that are started with a limit nRPC
    RPCLimit,    \* that limit; the others have -1, no limit
    Crashing,    \* the workers whose process may be killed
    LateStart    \* may a task's goroutine start after wg.Wait() has looked?

ASSUME MapReduceAssumption ==
    /\ {NFiles, NReduce, RPCLimit} \subseteq Nat \ {0}
    /\ Limited \subseteq Worker /\ Crashing \subseteq Worker
    /\ LateStart \in BOOLEAN

VARIABLES
    main,        \* where run() is
    task,        \* task[phase][i]: the goroutine of a task
    wg,          \* wg[phase]: the counter of the phase's WaitGroup
    senders,     \* senders[w]: goroutines that send w to registerChannel
    registered,  \* mr.workers
    wk,          \* wk[w]: the struct Worker of w and its accept loop
    killing,     \* killWorkers: the next worker and the call to it
    mapped,      \* map tasks whose output has been written
    reduced,     \* reduced[r]: the map tasks that r's output is made of
    stats        \* mr.stats, each with the worker and what it really did

vars == <<main, task, wg, senders, registered, wk, killing, mapped, reduced, stats>>
master == <<main, killing, stats>>
files == <<mapped, reduced>>

mapPhase == "map"
reducePhase == "reduce"
Phase == {mapPhase, reducePhase}

Tasks(phase) == IF phase = mapPhase THEN 1 .. NFiles ELSE 1 .. NReduce

NoWorker == "none"
Idle(pc) == [pc |-> pc, worker |-> NoWorker]

(* The output of a reduce task that has not run. *)
NoOutput == {0}

-----------------------------------------------------------------------------
(* Workers *)

(* Nobody listens any more: the loop ended or the process was killed. *)
Exited(w) == wk[w].pc \in {"exited", "killed"}

(* RunWorker up to its loop: listen, then register with the master.        *)
(* Register appends the worker and starts a goroutine that offers it.  It  *)
(* comes too late while killWorkers holds the master's lock, and fails     *)
(* when the master has stopped: the worker goes on to its loop all the same*)
Register(w) ==
    /\ wk[w].pc = "off"
    /\ wk' = [wk EXCEPT ![w].pc = "check"]
    /\ \/ /\ main \in Phase \/ (main = "kill" /\ killing = [next |-> 1, pc |-> "next"])
          /\ registered' = Append(registered, w)
          /\ senders' = [senders EXCEPT ![w] = @ + 1]
       \/ /\ main \notin Phase
          /\ UNCHANGED <<registered, senders>>
    /\ UNCHANGED <<master, task, wg, files>>

(* The head of the accept loop. *)
CheckLimit(w) ==
    /\ wk[w].pc = "check"
    /\ wk' = [wk EXCEPT ![w].pc = IF wk[w].nRPC = 0 THEN "exited" ELSE "accept"]
    /\ UNCHANGED <<master, task, wg, senders, registered, files>>

Accepted(w) == [wk EXCEPT ![w].pc = "count", ![w].nRPC = @ - 1]

(* The connection of a task's call is accepted and served by a goroutine. *)
AcceptTask(w) ==
    \E phase \in Phase : \E i \in Tasks(phase) :
        /\ wk[w].pc = "accept"
        /\ task[phase][i] = [pc |-> "dialed", worker |-> w]
        /\ wk' = Accepted(w)
        /\ task' = [task EXCEPT ![phase][i].pc = "serving"]
        /\ UNCHANGED <<master, wg, senders, registered, files>>

AcceptShutdown(w) ==
    /\ wk[w].pc = "accept"
    /\ killing.pc = "dialed" /\ registered[killing.next] = w
    /\ wk' = Accepted(w)
    /\ killing' = [killing EXCEPT !.pc = "serving"]
    /\ UNCHANGED <<main, stats, task, wg, senders, registered, files>>

(* The loop counts the call while the goroutine serves it. *)
CountTask(w) ==
    /\ wk[w].pc = "count"
    /\ wk' = [wk EXCEPT ![w].pc = "check", ![w].nTasks = @ + 1]
    /\ UNCHANGED <<master, task, wg, senders, registered, files>>

(* The process of the worker is killed. *)
Crash(w) ==
    /\ w \in Crashing
    /\ wk[w].pc \notin {"off", "killed"}
    /\ wk' = [wk EXCEPT ![w].pc = "killed"]
    /\ UNCHANGED <<master, task, wg, senders, registered, files>>

(* doMap writes the intermediate files of map task i. *)
doMap(i) ==
    /\ mapped' = mapped \cup {i}
    /\ UNCHANGED reduced

(* Mutant: the loop over the intermediate files ends one too early. *)
doReduceOneLess(r) ==
    /\ reduced' = [reduced EXCEPT ![r] = mapped \ {NFiles}]
    /\ UNCHANGED mapped

(* doReduce reads the intermediate files that are there and skips those it *)
(* misses; what it has written before is overwritten.                      *)
doReduce(r) ==
    /\ reduced' = [reduced EXCEPT ![r] = mapped]
    /\ UNCHANGED mapped

DoTask(phase, i) ==
    /\ task[phase][i].pc = "serving"
    /\ wk[task[phase][i].worker].pc # "killed"
    /\ task' = [task EXCEPT ![phase][i].pc = "served"]
    /\ wk' = [wk EXCEPT ![task[phase][i].worker].done = @ + 1]
    /\ \/ phase = mapPhase /\ doMap(i)
       \/ phase = reducePhase /\ doReduce(i)
    /\ UNCHANGED <<master, wg, senders, registered>>

-----------------------------------------------------------------------------
(* schedule: the goroutine of task i *)

Alive == main \notin {"panic", "fatal"}

(* wg.Add(1) *)
Begin(phase, i) ==
    /\ Alive /\ task[phase][i].pc = "new"
    /\ task' = [task EXCEPT ![phase][i] = Idle("ready")]
    /\ wg' = [wg EXCEPT ![phase] = @ + 1]
    /\ UNCHANGED <<master, senders, registered, wk, files>>

(* A worker is taken from registerChannel and called.  Every task looks up *)
(* mr.files[i], a reduce task too.                                         *)
TakeWorker(phase, i) ==
    \E w \in Worker :
        /\ Alive /\ task[phase][i].pc = "ready"
        /\ senders[w] > 0
        /\ senders' = [senders EXCEPT ![w] = @ - 1]
        /\ IF i > NFiles
           THEN main' = "panic" /\ UNCHANGED task
           ELSE /\ task' = [task EXCEPT ![phase][i] =
                        IF Exited(w) THEN Idle("ready")
                                     ELSE [pc |-> "dialed", worker |-> w]]
                /\ UNCHANGED main
        /\ UNCHANGED <<killing, stats, wg, registered, wk, files>>

(* Mutant: a call that failed ends the task as well. *)
CallFailsDone(phase, i) ==
    /\ Alive /\ task[phase][i].pc \in {"dialed", "serving", "served"}
    /\ Exited(task[phase][i].worker)
    /\ task' = [task EXCEPT ![phase][i] = Idle("done")]
    /\ wg' = [wg EXCEPT ![phase] = @ - 1]
    /\ UNCHANGED <<master, senders, registered, wk, files>>

(* The connection broke: the worker is not put back, the task starts over. *)
(* When the accept loop ends, calls that are being served may end with the *)
(* process (main/wc.go) or go on (the tests run workers as goroutines).    *)
CallFails(phase, i) ==
    /\ Alive /\ task[phase][i].pc \in {"dialed", "serving", "served"}
    /\ Exited(task[phase][i].worker)
    /\ task' = [task EXCEPT ![phase][i] = Idle("ready")]
    /\ UNCHANGED <<master, wg, senders, registered, wk, files>>

(* Mutant: the worker is not offered again. *)
CallReturnsOnce(phase, i) ==
    /\ Alive /\ task[phase][i].pc = "served"
    /\ task' = [task EXCEPT ![phase][i] = Idle("done")]
    /\ wg' = [wg EXCEPT ![phase] = @ - 1]
    /\ UNCHANGED <<master, senders, registered, wk, files>>

(* The call returned: another goroutine offers the worker again. *)
CallReturns(phase, i) ==
    LET w == task[phase][i].worker
    IN  /\ Alive /\ task[phase][i].pc = "served"
        /\ task' = [task EXCEPT ![phase][i] = Idle("done")]
        /\ senders' = [senders EXCEPT ![w] = @ + 1]
        /\ wg' = [wg EXCEPT ![phase] = @ - 1]
        /\ UNCHANGED <<master, registered, wk, files>>

-----------------------------------------------------------------------------
(* run *)

Started(phase) == [task EXCEPT ![phase] = [i \in Tasks(phase) |-> Idle("new")]]

(* wg.Wait() returns, the next phase starts its goroutines. *)
Wait(phase) ==
    /\ main = phase
    /\ wg[phase] = 0
    /\ ~LateStart => \A i \in Tasks(phase) : task[phase][i].pc # "new"
    /\ main' = IF phase = mapPhase THEN reducePhase ELSE "kill"
    /\ task' = IF phase = mapPhase THEN Started(reducePhase) ELSE task
    /\ UNCHANGED <<killing, stats, wg, senders, registered, wk, files>>

(* killWorkers calls Shutdown on one worker after the other. *)
DialShutdown ==
    /\ main = "kill"
    /\ killing.pc = "next"
    /\ killing.next <= Len(registered)
    /\ killing' = IF Exited(registered[killing.next])
                  THEN [killing EXCEPT !.next = @ + 1]
                  ELSE [killing EXCEPT !.pc = "dialed"]
    /\ UNCHANGED <<main, stats, task, wg, senders, registered, wk, files>>

ShutdownFails ==
    /\ killing.pc \in {"dialed", "serving"}
    /\ Exited(registered[killing.next])
    /\ killing' = [next |-> killing.next + 1, pc |-> "next"]
    /\ UNCHANGED <<main, stats, task, wg, senders, registered, wk, files>>

(* Worker.Shutdown, and its answer. *)
Shutdown ==
    LET w == registered[killing.next]
    IN  /\ killing.pc = "serving"
        /\ wk[w].pc # "killed"
        /\ stats' = Append(stats, [worker |-> w, ntasks |-> wk[w].nTasks,
                                   done |-> wk[w].done])
        /\ wk' = [wk EXCEPT ![w].nRPC = 1, ![w].nTasks = @ - 1]
        /\ killing' = [next |-> killing.next + 1, pc |-> "next"]
        /\ UNCHANGED <<main, task, wg, senders, registered, files>>

(* stopRPCServer and merge, which gives up if an output file is missing. *)
Merge ==
    /\ main = "kill"
    /\ killing.pc = "next" /\ killing.next > Len(registered)
    /\ main' = IF \E r \in 1 .. NReduce : reduced[r] = NoOutput THEN "fatal" ELSE "done"
    /\ UNCHANGED <<killing, stats, task, wg, senders, registered, wk, files>>

-----------------------------------------------------------------------------
Init ==
    /\ main = mapPhase
    /\ task = [phase \in Phase |->
                [i \in Tasks(phase) |->
                    Idle(IF phase = mapPhase THEN "new" ELSE "none")]]
    /\ wg = [phase \in Phase |-> 0]
    /\ senders = [w \in Worker |-> 0]
    /\ registered = <<>>
    /\ wk = [w \in Worker |-> [pc |-> "off", nTasks |-> 0, done |-> 0,
                               nRPC |-> IF w \in Limited THEN RPCLimit ELSE -1]]
    /\ killing = [next |-> 1, pc |-> "next"]
    /\ mapped = {}
    /\ reduced = [r \in 1 .. NReduce |-> NoOutput]
    /\ stats = <<>>

WorkerStep(w) ==
    \/ Register(w)
    \/ CheckLimit(w)
    \/ AcceptTask(w)
    \/ AcceptShutdown(w)
    \/ CountTask(w)

TaskStep(phase, i) ==
    \/ Begin(phase, i)
    \/ TakeWorker(phase, i)
    \/ DoTask(phase, i)
    \/ CallFails(phase, i)
    \/ CallReturns(phase, i)

RunStep ==
    \/ \E phase \in Phase : Wait(phase)
    \/ DialShutdown
    \/ ShutdownFails
    \/ Shutdown
    \/ Merge

Next ==
    \/ RunStep
    \/ \E phase \in Phase : \E i \in Tasks(phase) : TaskStep(phase, i)
    \/ \E w \in Worker : WorkerStep(w) \/ Crash(w)

(***************************************************************************)
(* Every goroutine that can run does run; of several goroutines that wait  *)
(* at a channel or a socket, Go and the kernel serve the first.  Nothing   *)
(* obliges a worker's process to crash.                                    *)
(***************************************************************************)
Fairness ==
    /\ WF_vars(RunStep)
    /\ \A w \in Worker : WF_vars(WorkerStep(w))
    /\ \A phase \in Phase : \A i \in Tasks(phase) :
        WF_vars(TaskStep(phase, i)) /\ SF_vars(TakeWorker(phase, i))

Spec == Init /\ [][Next]_vars
FairSpec == Spec /\ Fairness

-----------------------------------------------------------------------------
(* Properties. *)

(* The goroutines that have worker w in hand. *)
Holders(w) ==
    {<<phase, i>> \in Phase \X (1 .. NFiles + NReduce) :
        i \in Tasks(phase) /\ task[phase][i].worker = w}

(* schedule.go: as long as the master runs, a worker is offered to one     *)
(* task at a time, and as long as the worker listens it is not lost: it is *)
(* on offer or a task has it in hand, however the phases overlap.          *)
WorkerAccounted ==
    Alive => \A w \in Worker :
        LET places == senders[w] + Cardinality(Holders(w))
        IN  /\ places <= 1
            /\ w \in ToSet(registered) /\ ~Exited(w) => places = 1

(* schedule.go, schedule: "only once all of them have been completed       *)
(* successfully should the function return".                               *)
PhaseBarrier ==
    /\ main \notin {mapPhase, "panic"} =>
        \A i \in Tasks(mapPhase) : task[mapPhase][i].pc = "done" /\ i \in mapped
    /\ main \notin Phase \cup {"panic"} =>
        \A i \in Tasks(reducePhase) : task[reducePhase][i].pc = "done"

(* Sequential runs every map task and then every reduce task by itself:    *)
(* what its output is made of.                                             *)
Sequential == [r \in 1 .. NReduce |-> 1 .. NFiles]

(* master.go, Distributed: a job that ends has the result that Sequential  *)
(* computes, made of the output of every map task, however many workers    *)
(* failed on the way; and merge finds its files.                           *)
OutputComplete ==
    /\ main # "fatal"
    /\ main = "done" => reduced = Sequential

(* master.go, Wait: as long as one worker survives, the job ends. *)
JobCompletes == <>(main = "done")

(* worker.go, Shutdown: "We should respond with the number of tasks we     *)
(* have processed", and "Don't count the shutdown RPC".  What a worker     *)
(* reports to killWorkers is the number of tasks it has done.              *)
CountIsExact == \A n \in DOMAIN stats : stats[n].ntasks = stats[n].done

=============================================================================
