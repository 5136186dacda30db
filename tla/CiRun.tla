------------------------------- MODULE CiRun -------------------------------
(***************************************************************************)
(* `bun run ci` (scripts/ci.ts, scripts/ci/phases.ts): the gate that runs  *)
(* the repository's checks phase by phase, a phase one task at a time or   *)
(* as a pool of processes, and stops at the first failure.                 *)
(*                                                                         *)
(* The phases are a parameter: the eight checks of a real run are told     *)
(* apart by the phase they are in and by whether they are advisory.  The   *)
(* outcome of every task is drawn when its process ends.                   *)
(***************************************************************************)
EXTENDS Integers, Sequences, FiniteSets, SequencesExt

CONSTANTS
    CiTasks,        \* the tasks of all phases
    Phases,         \* sequence of [name, kind, tasks (a sequence, not empty),
                    \* advisory (those of its tasks that may fail; only a pool has any)]
    Limits          \* values of --concurrency; 0 stands for "not given"

\* Phases have names, no task is in two places, and only a pool has advisory tasks.
TasksOf(p) == ToSet(p.tasks)
ASSUME CiConstants ==
    /\ IsFiniteSet(CiTasks) /\ Limits \subseteq Nat
    /\ Phases \in Seq([name : STRING \ {"none", "unknown"}, tasks : Seq(CiTasks) \ {<<>>},
                       kind : {"sequential", "parallel", "docker"}, advisory : SUBSET CiTasks])
    /\ \A i, j \in 1..Len(Phases) :
          /\ Phases[i].name = Phases[j].name => i = j
          /\ \A a \in 1..Len(Phases[i].tasks), b \in 1..Len(Phases[j].tasks) :
                Phases[i].tasks[a] = Phases[j].tasks[b] => i = j /\ a = b
          /\ i # j => Phases[i].advisory \cap TasksOf(Phases[j]) = {}
          /\ Phases[i].kind # "parallel" => Phases[i].advisory = {}

VARIABLES ci,      \* the gate
          task     \* what became of each task

ciVars == <<ci, task>>

Names == {Phases[i].name : i \in 1..Len(Phases)}
NoPhase == "none"     \* no --phase was given
Unknown == "unknown"  \* a --phase that no phase has

Selections == [phase : Names \cup {NoPhase, Unknown}, noDocker : BOOLEAN, dockerOnly : BOOLEAN]

Docker(p) == p.kind = "docker"
Excluded(sel, p) == \/ sel.noDocker /\ Docker(p)
                    \/ sel.dockerOnly /\ ~Docker(p)

(* selectPhases answers an error in three cases ...                        *)
SelectionRefused(sel) ==
    \/ sel.noDocker /\ sel.dockerOnly
    \/ sel.phase = Unknown
    \/ \E i \in 1..Len(Phases) : Phases[i].name = sel.phase /\ Excluded(sel, Phases[i])

(* ... and otherwise the phase asked for, or all that are not excluded.    *)
(* (Mutant: SelectedButDocker forgets --phase.)                           *)
SelectedButDocker(sel, p) == ~Excluded(sel, p)
Selected(sel, p) == IF sel.phase = NoPhase THEN ~Excluded(sel, p) ELSE p.name = sel.phase

(* The selected phases from the one at a place on, and the one under way. *)
SelectedFrom(at) == {i \in at..Len(Phases) : Selected(ci.sel, Phases[i])}
Phase == Phases[ci.at]
InFlight == {t \in CiTasks : task[t] = "running"}

(* Processes at once: as many as --concurrency allows, all by default; one  *)
(* at a time in a sequential phase.                                         *)
Width(p, limit) == IF p.kind # "parallel" THEN 1
                   ELSE IF limit > 0 THEN limit ELSE Len(p.tasks)

(* fill: tasks leave the queue in order until the width is reached; the     *)
(* queue of a phase is what comes after the tasks taken from it.            *)
Filled(p, taken, running, limit) ==
    LET room == Width(p, limit) - running
    IN  IF room < Len(p.tasks) - taken THEN taken + room ELSE Len(p.tasks)
Started(statuses, p, from, to) ==
    [t \in CiTasks |-> IF \E i \in (from + 1)..to : p.tasks[i] = t THEN "running"
                      ELSE statuses[t]]

(* Only an advisory task of a pool may fail.                                *)
Advisory(p, t) == t \in p.advisory

CiInit ==
    /\ \E sel \in Selections, limit \in Limits :
          ci = [sel |-> sel, limit |-> limit, phase |-> "arguments", at |-> 0, taken |-> 0,
                failed |-> "none", code |-> 0, swept |-> FALSE]
    /\ task = [t \in CiTasks |-> "waiting"]

Ended(code) == [ci EXCEPT !.phase = "exited", !.code = code]

(* The arguments are read: a selection that selects nothing valid is 2, and *)
(* a gate that needs Docker asks for it first.                              *)
Arguments ==
    /\ ci.phase = "arguments"
    /\ ci' = IF SelectionRefused(ci.sel) THEN Ended(2)
             ELSE IF \E i \in SelectedFrom(1) : Docker(Phases[i])
             THEN [ci EXCEPT !.phase = "docker"]
             ELSE [ci EXCEPT !.phase = "between"]
    /\ UNCHANGED task

DockerAnswers ==
    /\ ci.phase = "docker"
    /\ \/ ci' = [ci EXCEPT !.phase = "between"]
       \/ ci' = Ended(1)
    /\ UNCHANGED task

(* The next phase begins, or the gate is passed. *)
NextPhase ==
    /\ ci.phase = "between"
    /\ \/ /\ SelectedFrom(ci.at + 1) = {}
          /\ ci' = Ended(0)
          /\ UNCHANGED task
       \/ \E i \in SelectedFrom(ci.at + 1) :
             LET to == Filled(Phases[i], 0, 0, ci.limit) IN
             /\ \A j \in SelectedFrom(ci.at + 1) : i <= j
             /\ ci' = [ci EXCEPT !.phase = "running", !.at = i, !.taken = to]
             /\ task' = Started(task, Phases[i], 0, to)

(* A process ends and its result is the first of the race: the queue is     *)
(* filled up again, or the phase is over.                                   *)
TaskPasses(t) ==
    /\ ci.phase = "running" /\ task[t] = "running"
    /\ \E result \in {"passed"} \cup (IF Advisory(Phase, t) THEN {"warned"} ELSE {}) :
          LET done == [task EXCEPT ![t] = result]
              to   == Filled(Phase, ci.taken, Cardinality(InFlight) - 1, ci.limit)
          IN  /\ task' = Started(done, Phase, ci.taken, to)
              /\ ci' = [ci EXCEPT !.taken = to,
                           !.phase = IF InFlight = {t} /\ to = ci.taken THEN "between" ELSE @]

(* The first failure that is not advisory: every other process of the pool  *)
(* is killed; a sequential phase has none and ends the gate at once.        *)
TaskFails(t) ==
    /\ ci.phase = "running" /\ task[t] = "running"
    /\ ~Advisory(Phase, t)
    /\ task' = [u \in CiTasks |-> IF u = t THEN "failed"
                                  ELSE IF task[u] = "running" THEN "killed" ELSE task[u]]
    /\ ci' = IF Phase.kind = "parallel"
             THEN [ci EXCEPT !.phase = "settling", !.failed = t]
             ELSE [Ended(1) EXCEPT !.failed = t]

(* allSettled: a killed process is waited for, whatever its status is. *)
KilledEnds(t) ==
    /\ ci.phase = "settling" /\ task[t] = "killed"
    /\ task' = [task EXCEPT ![t] = "gone"]
    /\ UNCHANGED ci

(* cleanupOrphans, and the gate ends with the failure that came first. *)
Sweep ==
    /\ ci.phase = "settling"
    /\ \A t \in CiTasks : task[t] # "killed"
    /\ ci' = [Ended(1) EXCEPT !.swept = TRUE]
    /\ UNCHANGED task

CiNext ==
    \/ Arguments \/ DockerAnswers \/ NextPhase \/ Sweep
    \/ \E t \in CiTasks : TaskPasses(t) \/ TaskFails(t) \/ KilledEnds(t)

CiSpec == CiInit /\ [][CiNext]_ciVars

(***************************************************************************)
(* What the gate promises                                                  *)
(***************************************************************************)

Statuses == {"waiting", "running", "passed", "warned", "failed", "killed", "gone"}
CiTypeOK ==
    /\ ci.sel \in Selections /\ ci.limit \in Limits
    /\ ci.phase \in {"arguments", "docker", "between", "running", "settling", "exited"}
    /\ ci.at \in 0..Len(Phases) /\ ci.taken \in Nat
    /\ ci.failed \in CiTasks \cup {"none"} /\ ci.code \in 0..2 /\ ci.swept \in BOOLEAN
    /\ task \in [CiTasks -> Statuses]

(* What a developer asked for, read off the command line: every phase but   *)
(* those the docker flags leave out, or the one phase that was named.       *)
Wanted(sel) ==
    UNION {TasksOf(Phases[i]) : i \in
             {i \in 1..Len(Phases) :
                 /\ sel.phase \in {NoPhase, Phases[i].name}
                 /\ sel.noDocker => Phases[i].kind # "docker"
                 /\ sel.dockerOnly => Phases[i].kind = "docker"}}

(* A gate that passes has run every task that was asked for, none of them   *)
(* failed but for the advisory ones, and it has run nothing else: neither   *)
(* the queue of the pool nor a task settled out of order loses one.         *)
PassedMeansAllRan ==
    ci.phase = "exited" /\ ci.code = 0 =>
        \A t \in CiTasks :
            IF t \in Wanted(ci.sel)
            THEN \/ task[t] = "passed"
                 \/ task[t] = "warned" /\ \E i \in 1..Len(Phases) : t \in Phases[i].advisory
            ELSE task[t] = "waiting"

(* A gate that ends leaves no process behind, and the leftovers of a pool   *)
(* that was killed were swept (cleanupOrphans).                             *)
NothingRunsAfterCi ==
    ci.phase = "exited" =>
        \A t \in CiTasks : task[t] \notin {"running", "killed"} /\ (task[t] = "gone" => ci.swept)

(* Never more processes at once than --concurrency allows, and those of one *)
(* phase only: a phase begins when the one before is over.                  *)
WithinTheWidth ==
    ci.phase = "running" =>
        /\ InFlight \subseteq TasksOf(Phase)
        /\ Phase.kind # "parallel" => Cardinality(InFlight) = 1
        /\ ci.limit > 0 => Cardinality(InFlight) <= ci.limit

(* All three: a green gate has run every task it was asked for, what it    *)
(* started has ended with it, and its pool keeps its width.                *)
GateIsHonest == PassedMeansAllRan /\ NothingRunsAfterCi /\ WithinTheWidth

(* What must come to its end: a pool is never left with a queue and no      *)
(* process to wait for.                                                     *)
PoolAtWork == ci.phase \in {"between", "running"}
=============================================================================
