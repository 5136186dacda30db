------------------------------ MODULE DevRun ------------------------------
(***************************************************************************)
(* `bun run dev` (scripts/dev/run.ts): a supervisor that prepares the      *)
(* development stack stage by stage, starts the services one after the     *)
(* other, waiting for each to announce itself, and then watches them until *)
(* one exits or a signal asks for the end.                                 *)
(*                                                                         *)
(* The supervisor and its services are processes of the operating system:  *)
(* a service may announce itself or exit at any moment, also while the     *)
(* supervisor is waiting for another one, and a signal may reach the       *)
(* supervisor before it has installed a handler or after the one-shot      *)
(* handler was used.  Terminal output is left out.                         *)
(***************************************************************************)
EXTENDS Integers, Sequences, FiniteSets

CONSTANTS Codes,       \* exit codes of a process, 0 among them
          MaxSignals   \* bound on the signals sent to the supervisor

ASSUME CodesAssumption == Codes \subseteq Nat /\ 0 \in Codes
ASSUME SignalsBound == MaxSignals \in Nat

VARIABLES dev,       \* the supervisor
          service,   \* the services, as processes
          signals    \* signals sent to the supervisor so far

devVars == <<dev, service, signals>>

Services == {"api", "web", "inspector"}
Signals == {"SIGINT", "SIGTERM"}

(* The stages that come before the first service, in order.  Those of      *)
(* Gates end the supervisor when they fail; the others cannot fail it.     *)
Stages == << "worktree", "rootEnv", "docker", "dump", "compose", "tagDb",
             "searchIndexer", "webEnv", "urls", "reclaimable", "preflight", "apiBuild" >>
Gates == {"worktree", "docker", "dump", "compose", "searchIndexer", "preflight", "apiBuild"}

(* `process.exit(code || 1)`: a failure never leaves with 0.               *)
FailureCode(code) == IF code = 0 THEN 1 ELSE code

(* The services that are started, in the order in which they are. *)
Order(inspector) == IF inspector THEN <<"api", "web", "inspector">> ELSE <<"api", "web">>

(* The cleanup argument of waitReady: everything started before.  Here     *)
(* `started` is how many services were started, the awaited one included.  *)
(* (NoCleanup is the mutant that calls waitReady without the argument.)    *)
NoCleanup(inspector, started) == {}
StartedBefore(inspector, started) == {Order(inspector)[i] : i \in 1..(started - 1)}

(* A line that announces a service is matched unless the handler returned  *)
(* before: with --verbose, the web's handler prints every line and looks   *)
(* at none.                                                                *)
Matches(verbose, s) == ~(verbose /\ s = "web")

Unborn == [state |-> "unborn", said |-> FALSE, first |-> "pending", code |-> 0, told |-> "nothing"]

Init ==
    /\ \E verbose, inspector \in BOOLEAN :
          dev = [phase |-> "preparing", verbose |-> verbose, inspector |-> inspector,
                 at |-> 1, handlers |-> {}, stops |-> {}, leave |-> 0,
                 asked |-> FALSE, code |-> 0]
    /\ service = [s \in Services |-> Unborn]
    /\ signals = 0

Awaited == Order(dev.inspector)[dev.at]
Alive(s) == service[s].state = "running"
Exit(code) == [dev EXCEPT !.phase = "exited", !.code = code]

(* One stage of the preparation ends well, and the next begins; after the  *)
(* last one the first service is started.                                  *)
StageDone ==
    /\ dev.phase = "preparing"
    /\ IF dev.at < Len(Stages)
       THEN dev' = [dev EXCEPT !.at = @ + 1] /\ UNCHANGED service
       ELSE /\ dev' = [dev EXCEPT !.phase = "waiting", !.at = 1]
            /\ service' = [service EXCEPT !["api"].state = "running"]
    /\ UNCHANGED signals

StageFailed ==
    /\ dev.phase = "preparing"
    /\ Stages[dev.at] \in Gates
    /\ \E code \in Codes \ {0} : dev' = Exit(FailureCode(code))
    /\ UNCHANGED <<service, signals>>

(* A service prints the line that announces it; when the line is matched,  *)
(* the promise that waitReady races against the exit is resolved.          *)
Announce(s) ==
    /\ Alive(s)
    /\ ~service[s].said
    /\ service' = [service EXCEPT ![s].said = TRUE,
                       ![s].first = IF Matches(dev.verbose, s) THEN "ready" ELSE @]
    /\ UNCHANGED <<dev, signals>>

(* A service exits, by itself or because it was told to. *)
ServiceExits(s) ==
    /\ Alive(s)
    /\ \E code \in Codes :
          service' = [service EXCEPT ![s].state = "dead", ![s].code = code,
                         ![s].first = IF @ = "pending" THEN "exited" ELSE @]
    /\ UNCHANGED <<dev, signals>>

(* waitReady resolved with readiness: the next service is started, or, when *)
(* all are up, the handlers of the signals are installed.                   *)
Ready ==
    /\ dev.phase = "waiting"
    /\ service[Awaited].first = "ready"
    /\ IF dev.at < Len(Order(dev.inspector))
       THEN /\ dev' = [dev EXCEPT !.at = @ + 1]
            /\ service' = [service EXCEPT ![Order(dev.inspector)[dev.at + 1]].state = "running"]
       ELSE /\ dev' = [dev EXCEPT !.phase = "watching", !.handlers = Signals]
            /\ UNCHANGED service
    /\ UNCHANGED signals

Terminated(stops) ==
    [s \in Services |-> IF s \in stops THEN [service[s] EXCEPT !.told = "SIGTERM"] ELSE service[s]]

(* shutdown(children): SIGTERM to each, to leave with `code` in the end. *)
Stop(stops, code, handlers, asked) ==
    /\ dev' = [dev EXCEPT !.phase = "stopping", !.stops = stops, !.leave = code,
                          !.handlers = handlers, !.asked = asked]
    /\ service' = Terminated(stops)

(* waitReady resolved with an exit: what was started before is stopped. *)
ExitedBeforeReady ==
    /\ dev.phase = "waiting"
    /\ service[Awaited].first = "exited"
    /\ LET before == StartedBefore(dev.inspector, dev.at)
           code == FailureCode(service[Awaited].code)
       IN  IF before = {}
           THEN dev' = Exit(code) /\ UNCHANGED service
           ELSE Stop(before, code, {}, FALSE)
    /\ UNCHANGED signals

(* The race over the exits of all services: the first that exited. *)
Running == {Order(dev.inspector)[i] : i \in 1..Len(Order(dev.inspector))}
ServiceCrashed ==
    /\ dev.phase = "watching"
    /\ \E s \in Running :
          /\ service[s].state = "dead"
          /\ Stop(Running \ {s}, FailureCode(service[s].code), dev.handlers, FALSE)
    /\ UNCHANGED signals

(* Both branches of shutdown's race: all have exited, or the five seconds   *)
(* are over.  Whoever is still alive is killed, and the supervisor leaves.  *)
Leave(overdue) ==
    /\ dev.phase = "stopping"
    /\ overdue \/ \A s \in dev.stops : ~Alive(s)
    /\ service' = [s \in Services |-> IF s \in dev.stops /\ Alive(s)
                                      THEN [service[s] EXCEPT !.told = "SIGKILL"] ELSE service[s]]
    /\ dev' = Exit(dev.leave)
    /\ UNCHANGED signals

(* A signal reaches the supervisor.  A handler is used once; without one    *)
(* the signal's default action ends the process on the spot.                *)
Signal(sig) ==
    /\ signals < MaxSignals
    /\ dev.phase \notin {"exited", "killed"}
    /\ signals' = signals + 1
    /\ \/ /\ sig \in dev.handlers /\ dev.phase = "watching"
          /\ Stop(Running, 0, dev.handlers \ {sig}, TRUE)
       \/ /\ sig \in dev.handlers /\ dev.phase = "stopping"
          /\ dev' = [dev EXCEPT !.handlers = @ \ {sig}]
          /\ UNCHANGED service
       \/ /\ sig \notin dev.handlers
          /\ dev' = [dev EXCEPT !.phase = "killed"]
          /\ UNCHANGED service

Supervise == StageDone \/ StageFailed \/ Ready \/ ExitedBeforeReady \/ ServiceCrashed
DevNext ==
    \/ Supervise
    \/ \E overdue \in BOOLEAN : Leave(overdue)
    \/ \E s \in Services : Announce(s) \/ ServiceExits(s)
    \/ \E sig \in Signals : Signal(sig)

DevSpec == Init /\ [][DevNext]_devVars

(***************************************************************************)
(* What the supervisor owes the developer                                  *)
(***************************************************************************)

DevTypeOK ==
    /\ dev.phase \in {"preparing", "waiting", "watching", "stopping", "exited", "killed"}
    /\ dev.verbose \in BOOLEAN /\ dev.inspector \in BOOLEAN /\ dev.asked \in BOOLEAN
    /\ dev.handlers \subseteq Signals /\ dev.stops \subseteq Services
    /\ dev.leave \in Codes \cup {1} /\ dev.code \in Codes \cup {1}
    /\ service \in [Services -> [state : {"unborn", "running", "dead"}, said : BOOLEAN,
                                 first : {"pending", "ready", "exited"},
                                 code : Codes, told : {"nothing", "SIGTERM", "SIGKILL"}]]
    /\ signals \in 0..MaxSignals

(* A supervisor that leaves by process.exit has left no service running     *)
(* that it did not kill, whichever services came up, crashed or ignored     *)
(* SIGTERM, in whatever order (shutdown and the cleanup of waitReady).      *)
NothingOutlivesDev ==
    dev.phase = "exited" => \A s \in Services : Alive(s) => service[s].told = "SIGKILL"

(* Status 0 is the answer to a signal and to nothing else: a stage or a     *)
(* service that ended, even with status 0, fails the command, which is what *)
(* the smoke run and a shell loop rely on.                                  *)
ZeroOnlyWhenAsked == dev.phase = "exited" /\ dev.code = 0 => dev.asked

(* Both: the end of a session takes its services along, and its exit code  *)
(* says why it ended.                                                      *)
DevLeavesCleanly == NothingOutlivesDev /\ ZeroOnlyWhenAsked

(* What must come to its end, also when a service ignores SIGTERM: the five *)
(* seconds of grace bound the wait.                                         *)
Ending == dev.phase = "stopping"

(* Started with --inspector, a session whose web announced itself starts    *)
(* the inspector, unless the session ends: docs/development.md promises it. *)
InspectorFollowsTheWeb ==
    dev.inspector /\ service["web"].said
        ~> service["inspector"].state # "unborn" \/ dev.phase \in {"stopping", "exited", "killed"}
=============================================================================
