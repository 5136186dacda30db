----------------------------- MODULE SmokeRun -----------------------------
(***************************************************************************)
(* `bun run smoke:*` (scripts/smoke): starts the surface it is to probe,   *)
(* waits until it answers, sends the probes of every suite through a pool  *)
(* of workers, judges the answers, checks the API's conformance, takes the *)
(* surface down again and leaves with a verdict.                           *)
(*                                                                         *)
(* Two threads of control share the teardown: the run itself, and the      *)
(* handler of a signal, which does not stop the run.  The second one to    *)
(* call teardown() returns from it at once, while the first is still at it.*)
(*                                                                         *)
(* A probe is a model value with the surfaces it is for and the class of   *)
(* answer it expects; the answers are those classes.  The differential,    *)
(* conditional, latency and hammer checks after the suites are probes that *)
(* pass, fail or are skipped.  `--suite <name>` passes over the suites of  *)
(* other names, and over none of the checks.                               *)
(***************************************************************************)
EXTENDS Integers, Sequences, FiniteSets, SequencesExt

CONSTANTS
    Groups,       \* sequence of [name, serial, probes]: the suites, then the "checks"
    Suites,       \* what --suite is given, "every" when it is not: a suite's name or no suite's
    ProbeOn,      \* function: probe -> the surfaces it is for
    Expectation,  \* function: probe -> "ok", "not-found", "client-error", "healthy" or "any"
    Skippable,    \* conditional checks, skipped when the answer carries no ETag
    Concurrency,  \* width of the pool
    MaxInterrupts \* bound on the signals sent to the run

Surfaces == {"origin", "stack", "prod"}
Probes == UNION {ToSet(Groups[i].probes) : i \in 1..Len(Groups)}

\* Every probe is in one place of one group, and the pool has a worker.
ASSUME SmokeConstants ==
    /\ Groups \in Seq([name : Suites \cup {"checks"}, serial : BOOLEAN, probes : Seq(DOMAIN ProbeOn)])
    /\ IsFiniteSet(Probes)
    /\ \A i, j \in 1..Len(Groups) :
          \A a \in 1..Len(Groups[i].probes), b \in 1..Len(Groups[j].probes) :
             Groups[i].probes[a] = Groups[j].probes[b] => i = j /\ a = b
    /\ ProbeOn \in [DOMAIN ProbeOn -> SUBSET Surfaces]
    /\ Expectation \in [DOMAIN ProbeOn -> {"ok", "not-found", "client-error", "healthy", "any"}]
    /\ Concurrency \in Nat \ {0} /\ MaxInterrupts \in Nat

VARIABLES smoke,    \* the run
          probe,    \* each probe: its state, and the requests it has sent
          server,   \* the surface: the process or the containers behind it
          down      \* the teardown under way: who called it, how far it is, and which of
                    \* its commands failed (nobody looks at what they exit with)

smokeVars == <<smoke, probe, server, down>>

(* resolveSurface: a server is started for the two local surfaces, and      *)
(* only requests to production are repeated (fetchWireResilient).           *)
Manages(surface) == surface # "prod"
Attempts(surface) == IF Manages(surface) THEN 1 ELSE 3

(* Answers: a status, or none at all. *)
Answers == {"200", "404", "400", "500", "lost"}
Transient(answer) == answer \in {"500", "lost"}

(* statusMatches, with "any" for a probe without an expectation, whose      *)
(* checks look at the answer instead.  An answer that never came fails.     *)
StatusMatches(expect, answer) ==
    CASE expect = "ok" -> answer = "200"
      [] expect = "not-found" -> answer = "404"
      [] expect = "client-error" -> answer \in {"400", "404"}
      [] expect = "healthy" -> answer # "500"
      [] expect = "any" -> TRUE
Acceptable(expect, answer) == answer # "lost" /\ StatusMatches(expect, answer)

(* The suite filter, and the probes a run sends: those of the suites it was *)
(* asked for, as far as they are for its surface.                           *)
Asked(suite, g) == g.name = "checks" \/ suite \in {"every", g.name}
Sees(run, p) ==
    /\ run.surface \in ProbeOn[p]
    /\ \E k \in 1..Len(Groups) : p \in ToSet(Groups[k].probes) /\ Asked(run.suite, Groups[k])

(* The places, from one on, of the probes of a group that the run sends. *)
Visible(g, run, from) == {i \in from..Len(g.probes) : Sees(run, g.probes[i])}

SmokeInit ==
    /\ \E surface \in Surfaces, suite \in Suites :
          smoke = [surface |-> surface, suite |-> suite, phase |-> "starting", group |-> 0, next |-> 1,
                   handlers |-> {}, interrupts |-> 0, calls |-> 0, conforms |-> TRUE,
                   code |-> -1, started |-> TRUE]
    /\ probe = [p \in Probes |-> [state |-> "waiting", sent |-> 0]]
    /\ server = [state |-> "none", orphans |-> FALSE]
    /\ down = [by |-> "nobody", step |-> "stop", leave |-> 0, failed |-> {}]

SmokeSignals == {"SIGINT", "SIGTERM"}
SmokeEnded(code) == [smoke EXCEPT !.phase = "exited", !.code = code]

(* startSurface; the handlers are installed when it returns.  Compose may   *)
(* fail, and then the run leaves at once, with whatever containers came up. *)
Start ==
    /\ smoke.phase = "starting"
    /\ \/ /\ smoke.surface = "stack"
          /\ server' = [server EXCEPT !.state = "partial"]
          /\ smoke' = [SmokeEnded(1) EXCEPT !.started = FALSE]
       \/ /\ server' = IF Manages(smoke.surface) THEN [server EXCEPT !.state = "up"] ELSE server
          /\ smoke' = [smoke EXCEPT !.handlers = SmokeSignals,
                          !.phase = IF smoke.surface = "origin" THEN "booting" ELSE "probing"]
    /\ UNCHANGED <<probe, down>>

(***************************************************************************)
(* The teardown                                                            *)
(***************************************************************************)

(* A call of teardown(): the first caller does the work and leaves with     *)
(* `code` when it is done; any later one returns at once and leaves.        *)
Teardown(by, code, run) ==
    IF down.by = "nobody"
    THEN /\ down' = [by |-> by, step |-> "stop", leave |-> code, failed |-> {}]
         /\ smoke' = [run EXCEPT !.calls = @ + 1]
    ELSE /\ smoke' = [run EXCEPT !.calls = @ + 1, !.phase = "exited", !.code = code]
         /\ UNCHANGED down

(* stop(): nothing for production; for the origin SIGTERM, and SIGKILL once *)
(* the grace is over, to `bun run dev`: which ends its own children on the  *)
(* first and leaves them on the second; `compose down` for the stack, which *)
(* may fail, and then all of it is left up, or some.                        *)
StopServer ==
    /\ smoke.phase # "exited"
    /\ down.by # "nobody" /\ down.step = "stop"
    /\ \/ /\ server' = IF server.state = "up" THEN [server EXCEPT !.state = "down"] ELSE server
          /\ down' = [down EXCEPT !.step = "clean"]
       \/ /\ smoke.surface = "origin" /\ server.state = "up"
          /\ server' = [state |-> "down", orphans |-> TRUE]
          /\ down' = [down EXCEPT !.step = "clean"]
       \/ /\ smoke.surface = "stack" /\ server.state = "up"
          /\ \E left \in {"up", "partial"} : server' = [server EXCEPT !.state = left]
          /\ down' = [down EXCEPT !.step = "clean", !.failed = {"compose-down"}]
    /\ UNCHANGED <<smoke, probe>>

(* cleanup(): `bun run clean` ends the services that were left, unless it   *)
(* fails, which nobody notices either.                                      *)
Cleaned(s) == [s EXCEPT !.orphans = FALSE]
Clean ==
    /\ smoke.phase # "exited"
    /\ down.by # "nobody" /\ down.step = "clean"
    /\ \/ /\ server' = Cleaned(server)
          /\ down' = [down EXCEPT !.step = "done"]
       \/ /\ server' = server
          /\ down' = [down EXCEPT !.step = "done", !.failed = @ \cup {"clean"}]
    /\ UNCHANGED <<smoke, probe>>

(* The first caller's teardown is over, and it leaves.                      *)
LeaveAfterTeardown ==
    /\ smoke.phase # "exited"
    /\ down.step = "done"
    /\ smoke' = SmokeEnded(down.leave)
    /\ UNCHANGED <<probe, server, down>>

(* A signal: the handler, used once, tears down and leaves with 130, while  *)
(* the run goes on; without a handler the process ends on the spot.         *)
Interrupt(sig) ==
    /\ smoke.phase # "exited" /\ smoke.interrupts < MaxInterrupts
    /\ IF sig \in smoke.handlers
       THEN Teardown("handler", 130,
                [smoke EXCEPT !.interrupts = @ + 1, !.handlers = @ \ {sig}])
       ELSE /\ smoke' = [SmokeEnded(130) EXCEPT !.interrupts = @ + 1, !.calls = @ + 1,
                                          !.started = smoke.phase # "starting"]
            /\ UNCHANGED down
    /\ UNCHANGED <<probe, server>>

(***************************************************************************)
(* The run                                                                 *)
(***************************************************************************)

(* waitForServer for the web and the API: both answer below 500 before the  *)
(* deadline, or the run bails out.                                          *)
Answering ==
    /\ smoke.phase = "booting" /\ server.state = "up"
    /\ smoke' = [smoke EXCEPT !.phase = "probing"]
    /\ UNCHANGED <<probe, server, down>>
NeverCameUp ==
    /\ smoke.phase = "booting"
    /\ Teardown("run", 1, [smoke EXCEPT !.phase = "leaving"])
    /\ UNCHANGED <<probe, server>>

Group == Groups[smoke.group]
Sending == {p \in Probes : probe[p].state = "sending"}

(* A group is over when its pool is: the next one begins, or conformance.   *)
(* One of which the run sends no probe is over at once.                     *)
NextGroup ==
    /\ smoke.phase = "probing" /\ Sending = {}
    /\ smoke.group > 0 => Visible(Group, smoke, smoke.next) = {}
    /\ smoke' = IF smoke.group < Len(Groups)
                THEN [smoke EXCEPT !.group = @ + 1, !.next = 1]
                ELSE [smoke EXCEPT !.phase = "conformance"]
    /\ UNCHANGED <<probe, server, down>>

(* A worker of the pool takes the next probe: `next` is shared.             *)
Workers(g) == IF g.serial THEN 1 ELSE Concurrency
Take ==
    /\ smoke.phase = "probing" /\ smoke.group > 0
    /\ Cardinality(Sending) < Workers(Group)
    /\ \E i \in Visible(Group, smoke, smoke.next) :
          /\ \A j \in Visible(Group, smoke, smoke.next) : i <= j
          /\ probe' = [probe EXCEPT ![Group.probes[i]] = [state |-> "sending", sent |-> 1]]
          /\ smoke' = [smoke EXCEPT !.next = i + 1]
    /\ UNCHANGED <<server, down>>

(* An answer: a transient one is asked for again while attempts are left,   *)
(* any other is judged.  What is not up does not answer.                    *)
Possible(answer) == (Manages(smoke.surface) /\ server.state # "up") => answer = "lost"
Verdict(p, answer) ==
    IF ~Acceptable(Expectation[p], answer) THEN {"failed"}
    ELSE IF p \in Skippable THEN {"passed", "failed", "skipped"} ELSE {"passed", "failed"}
Answer(p, answer) ==
    /\ smoke.phase = "probing" /\ probe[p].state = "sending" /\ Possible(answer)
    /\ IF Transient(answer) /\ probe[p].sent < Attempts(smoke.surface)
       THEN probe' = [probe EXCEPT ![p].sent = @ + 1]
       ELSE \E verdict \in Verdict(p, answer) : probe' = [probe EXCEPT ![p].state = verdict]
    /\ UNCHANGED <<smoke, server, down>>

(* scripts/api/conformance.ts: its status is kept; the stack has none.      *)
Conformance ==
    /\ smoke.phase = "conformance"
    /\ \E code \in {0, 1} :
          /\ smoke.surface = "stack" => code = 0
          /\ server.state = "down" => code = 1
          /\ smoke' = [smoke EXCEPT !.phase = "reporting", !.conforms = code = 0]
    /\ UNCHANGED <<probe, server, down>>

(* The report: 1 when the API does not conform or a probe failed, else 0;   *)
(* it is printed after the teardown.                                        *)
(* (ProbesAlone is the mutant that forgets what conformance.ts said.)       *)
ProbesAlone(conforms, probes) == IF \E p \in Probes : probes[p].state = "failed" THEN 1 ELSE 0
ReportCode(conforms, probes) == IF ~conforms THEN 1 ELSE ProbesAlone(conforms, probes)
Report ==
    /\ smoke.phase = "reporting"
    /\ Teardown("run", ReportCode(smoke.conforms, probe), [smoke EXCEPT !.phase = "leaving"])
    /\ UNCHANGED <<probe, server>>

SmokeRuns ==
    \/ Start \/ Answering \/ NeverCameUp \/ NextGroup \/ Take \/ Conformance \/ Report
    \/ \E p \in Probes, answer \in Answers : Answer(p, answer)
TearsDown == StopServer \/ Clean \/ LeaveAfterTeardown
SmokeNext == SmokeRuns \/ TearsDown \/ \E sig \in SmokeSignals : Interrupt(sig)

SmokeSpec == SmokeInit /\ [][SmokeNext]_smokeVars

(***************************************************************************)
(* What a smoke run owes the gate                                          *)
(***************************************************************************)

SmokeTypeOK ==
    /\ smoke.surface \in Surfaces /\ smoke.suite \in Suites
    /\ smoke.phase \in {"starting", "booting", "probing", "conformance", "reporting",
                        "leaving", "exited"}
    /\ smoke.group \in 0..Len(Groups) /\ smoke.code \in {-1, 0, 1, 130}
    /\ smoke.handlers \subseteq SmokeSignals
    /\ probe \in [Probes -> [state : {"waiting", "sending", "passed", "failed", "skipped"},
                             sent : 0..3]]
    /\ server \in [state : {"none", "up", "partial", "down"}, orphans : BOOLEAN]
    /\ down \in [by : {"nobody", "run", "handler"}, step : {"stop", "clean", "done"},
                 leave : {0, 1, 130}, failed : SUBSET {"compose-down", "clean"}]

(* A run that leaves with 0 sent every probe for its surface of the suites  *)
(* it was asked for, of all of them without --suite, and of the checks after*)
(* them, and none failed; and the API conformed: no signal, no repeated     *)
(* request and no worker that ran ahead makes it green by accident.         *)
GreenMeansProbed ==
    smoke.phase = "exited" /\ smoke.code = 0 =>
        /\ \A p \in Probes : IF Sees(smoke, p)
                             THEN probe[p].state \in {"passed", "skipped"}
                             ELSE probe[p].sent = 0
        /\ smoke.conforms

(* When only one of the run and the handlers asked for the teardown, the    *)
(* run leaves nothing behind but what a command it ran for it failed to end:*)
(* neither the surface it started nor services whose supervisor had to be   *)
(* killed.  With two callers the second leaves the first one's work undone, *)
(* and a stack that failed to come up is left.                              *)
SmokeLeavesNothing ==
    smoke.phase = "exited" /\ smoke.calls = 1 /\ smoke.started =>
        /\ server.state \in {"none", "down"} \/ "compose-down" \in down.failed
        /\ ~server.orphans \/ "clean" \in down.failed

(* The rate-limit suite is serial: two of its probes are never under way at *)
(* once, and nothing else is sent with them.                                *)
SerialIsAlone ==
    \A i \in 1..Len(Groups), p \in Sending :
        Groups[i].serial /\ p \in ToSet(Groups[i].probes) => Sending = {p}

(* All three: a green run has sent what it was asked for, it leaves nothing *)
(* up that its commands could end, and the probes that use up a limit run   *)
(* alone.                                                                   *)
SmokeIsHonest == GreenMeansProbed /\ SmokeLeavesNothing /\ SerialIsAlone

(* What must come to its end, and the run with it, whoever asked for it.    *)
TearingDown == down.by # "nobody" /\ smoke.phase # "exited"
=============================================================================
