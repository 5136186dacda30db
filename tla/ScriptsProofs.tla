--------------------------- MODULE ScriptsProofs ----------------------------
(***************************************************************************)
(* The scripts of the repository: the development session, the deploy, the *)
(* gate, the smoke run, the quota probe, the snapshots of the indices and  *)
(* the corpus tools.                                                       *)
(* Each has a specification of its own and an inductive invariant of its   *)
(* own; the sections below are independent of one another, and share the   *)
(* lemmas about finite sets.                                               *)
(***************************************************************************)
EXTENDS DevRun, Rollout, CiRun, SmokeRun, QuotaProbe, EsSnapshots, CorpusVerdicts, SiteCrawl,
        DataLemmas, SequenceTheorems

-----------------------------------------------------------------------------
(***************************************************************************)
(* A development session takes its services along, whatever they and the   *)
(* signals do, for any exit codes and any number of signals.  The cleanup  *)
(* of a session stops a set of services it works out from its own place,   *)
(* so the invariant says what lives at each place of the supervisor.       *)
(***************************************************************************)

DevPhases == {"preparing", "waiting", "watching", "stopping", "exited", "killed"}
DevSessions ==
    [phase : DevPhases, verbose : BOOLEAN, inspector : BOOLEAN, at : Nat,
     handlers : SUBSET Signals, stops : SUBSET Services, leave : Codes \cup {1},
     asked : BOOLEAN, code : Codes \cup {1}]
DevServices ==
    [state : {"unborn", "running", "dead"}, said : BOOLEAN,
     first : {"pending", "ready", "exited"},
     code : Codes, told : {"nothing", "SIGTERM", "SIGKILL"}]

\* The services that may have been started while the supervisor is where it is.
Reached(d) ==
    CASE d.phase = "preparing" -> {}
      [] d.phase = "waiting" -> {Order(d.inspector)[i] : i \in 1..d.at}
      [] OTHER -> Services

DevPlaces(d) ==
    /\ d.phase = "preparing" => d.at \in 1..Len(Stages)
    /\ d.phase = "waiting" => d.at \in 1..Len(Order(d.inspector))

\* The supervisor leaves with 0 only when it was asked to.
DevReasons(d) ==
    /\ d.phase = "stopping" /\ d.leave = 0 => d.asked
    /\ d.phase = "exited" /\ d.code = 0 => d.asked

\* Who is not among the started is unborn; who is alive has not been seen to exit,
\* is among those that are stopped, and, when the supervisor has left, was killed.
DevLiving(d, v) ==
    \A s \in Services :
        /\ v[s].first = "exited" => v[s].state = "dead"
        /\ v[s].state # "unborn" => s \in Reached(d) /\ (s = "inspector" => d.inspector)
        /\ v[s].state = "running" /\ d.phase = "stopping" => s \in d.stops
        /\ v[s].state = "running" /\ d.phase = "exited" => v[s].told = "SIGKILL"

DevInv ==
    /\ dev \in DevSessions
    /\ service \in [Services -> DevServices]
    /\ signals \in 0..MaxSignals
    /\ DevPlaces(dev)
    /\ DevReasons(dev)
    /\ DevLiving(dev, service)

(* The services a session runs, in order. *)

LEMMA OrderIs ==
    ASSUME NEW i \in BOOLEAN
    PROVE  /\ Len(Order(i)) = IF i THEN 3 ELSE 2
           /\ Order(i)[1] = "api" /\ Order(i)[2] = "web"
           /\ i => Order(i)[3] = "inspector"
           /\ \A k \in 1..Len(Order(i)) : Order(i)[k] \in Services
  BY DEF Order, Services

LEMMA FailureIsNotZero ==
    ASSUME NEW code \in Codes
    PROVE  FailureCode(code) \in Codes \cup {1} /\ FailureCode(code) # 0
  BY CodesAssumption DEF FailureCode

LEMMA DevInitHolds == Init => DevInv
  <1> SUFFICES ASSUME Init PROVE DevInv
    OBVIOUS
  <1>1. Len(Stages) = 12
    BY DEF Stages
  <1>2. dev \in DevSessions /\ dev.phase = "preparing" /\ dev.at = 1
    BY CodesAssumption DEF Init, DevSessions, DevPhases
  <1>3. service \in [Services -> DevServices]
    BY CodesAssumption DEF Init, DevServices, Unborn
  <1>4. \A s \in Services : service[s].state = "unborn" /\ service[s].first = "pending"
    BY DEF Init, Unborn
  <1> QED
    BY <1>1, <1>2, <1>3, <1>4, SignalsBound DEF Init, DevInv, DevPlaces, DevReasons, DevLiving

(* The supervisor's steps. *)

LEMMA StageDoneKeeps == ASSUME DevInv, StageDone PROVE DevInv'
  <1>1. dev.phase = "preparing" /\ Len(Stages) = 12
    BY DEF StageDone, Stages
  <1>2. CASE dev.at < Len(Stages)
    <2>1. dev' = [dev EXCEPT !.at = @ + 1] /\ UNCHANGED <<service, signals>>
      BY <1>2 DEF StageDone
    <2>2. dev' \in DevSessions /\ dev'.phase = "preparing" /\ dev'.at = dev.at + 1
      BY <2>1, <1>1 DEF DevInv, DevSessions
    <2>3. dev'.inspector = dev.inspector
      BY <2>1 DEF DevInv, DevSessions
    <2> QED
      BY <1>1, <1>2, <2>1, <2>2, <2>3 DEF DevInv, DevPlaces, DevReasons, DevLiving, Reached
  <1>3. CASE ~(dev.at < Len(Stages))
    <2>1. /\ dev' = [dev EXCEPT !.phase = "waiting", !.at = 1]
          /\ service' = [service EXCEPT !["api"].state = "running"]
          /\ signals' = signals
      BY <1>3 DEF StageDone
    <2>2. /\ dev' \in DevSessions /\ dev'.phase = "waiting" /\ dev'.at = 1
          /\ dev'.inspector = dev.inspector
      BY <2>1 DEF DevInv, DevSessions, DevPhases
    <2>3. service' \in [Services -> DevServices]
      BY <2>1 DEF DevInv, DevServices, Services
    <2>4. \A s \in Services : s # "api" => service'[s] = service[s]
      BY <2>1 DEF DevInv, Services
    <2>5. service'["api"].state = "running" /\ service'["api"].first = service["api"].first
      BY <2>1 DEF DevInv, Services, DevServices
    <2>6. \A s \in Services : service[s].state = "unborn"
      BY <1>1 DEF DevInv, DevLiving, Reached
    <2>7. Order(dev'.inspector)[1] = "api" /\ Len(Order(dev'.inspector)) \in {2, 3}
      BY OrderIs, <2>2 DEF DevSessions
    <2>8. "api" \in Reached(dev')
      BY <2>2, <2>7 DEF Reached
    <2>9. DevPlaces(dev') /\ DevReasons(dev')
      BY <2>2, <2>7 DEF DevPlaces, DevReasons
    <2>10. DevLiving(dev', service')
      BY <2>2, <2>3, <2>4, <2>5, <2>6, <2>8 DEF DevLiving, DevInv, DevServices
    <2> QED
      BY <2>1, <2>2, <2>3, <2>9, <2>10 DEF DevInv
  <1> QED
    BY <1>2, <1>3

LEMMA StageFailedKeeps == ASSUME DevInv, StageFailed PROVE DevInv'
  <1>1. PICK code \in Codes : dev' = Exit(FailureCode(code)) /\ UNCHANGED <<service, signals>>
    BY DEF StageFailed
  <1>2. FailureCode(code) \in Codes \cup {1} /\ FailureCode(code) # 0
    BY FailureIsNotZero
  <1>3. dev' \in DevSessions /\ dev'.phase = "exited" /\ dev'.code # 0
    BY <1>1, <1>2 DEF DevInv, DevSessions, DevPhases, Exit
  <1>4. \A s \in Services : service[s].state = "unborn"
    BY DEF DevInv, DevLiving, Reached, StageFailed
  <1>5. DevLiving(dev', service')
    BY <1>1, <1>3, <1>4 DEF DevLiving, DevInv
  <1> QED
    BY <1>1, <1>3, <1>5 DEF DevInv, DevPlaces, DevReasons

(* The next service is started, or all are up. *)
LEMMA ReadyKeeps == ASSUME DevInv, Ready PROVE DevInv'
  <1>1. dev.phase = "waiting" /\ dev.at \in 1..Len(Order(dev.inspector)) /\ dev.inspector \in BOOLEAN
    BY DEF Ready, DevInv, DevPlaces, DevSessions
  <1>2. CASE dev.at < Len(Order(dev.inspector))
    <2> DEFINE next == Order(dev.inspector)[dev.at + 1]
    <2>1. /\ dev' = [dev EXCEPT !.at = @ + 1]
          /\ service' = [service EXCEPT ![next].state = "running"]
          /\ signals' = signals
      BY <1>2 DEF Ready
    <2>2. /\ dev' \in DevSessions /\ dev'.phase = "waiting" /\ dev'.at = dev.at + 1
          /\ dev'.inspector = dev.inspector
      BY <2>1, <1>1 DEF DevInv, DevSessions
    <2>3. dev.at + 1 \in 1..Len(Order(dev.inspector))
      BY <1>1, <1>2, OrderIs
    <2>4. next \in Services /\ (next = "inspector" => dev.inspector)
      BY <1>1, <2>3, OrderIs
    <2> HIDE DEF next
    <2>5. service' \in [Services -> DevServices]
      BY <2>1, <2>4 DEF DevInv, DevServices
    <2>6. \A s \in Services : s # next => service'[s] = service[s]
      BY <2>1, <2>4 DEF DevInv
    <2>7. service'[next].state = "running" /\ service'[next].first = service[next].first
      BY <2>1, <2>4 DEF DevInv, DevServices
    <2>8. Reached(dev) = {Order(dev.inspector)[i] : i \in 1..dev.at}
      BY <1>1 DEF Reached
    <2>9. Reached(dev') = {Order(dev.inspector)[i] : i \in 1..(dev.at + 1)}
      BY <2>2 DEF Reached
    <2>10. next \in Reached(dev') /\ Reached(dev) \subseteq Reached(dev')
      BY <1>1, <2>3, <2>8, <2>9 DEF next
    <2>11. next \notin Reached(dev)
      BY <1>1, <2>3, <2>8, OrderIs DEF next
    <2>12. DevLiving(dev', service')
      BY <2>2, <2>4, <2>6, <2>7, <2>10, <2>11 DEF DevLiving, DevInv
    <2> QED
      BY <2>1, <2>2, <2>3, <2>5, <2>12 DEF DevInv, DevPlaces, DevReasons
  <1>3. CASE ~(dev.at < Len(Order(dev.inspector)))
    <2>1. /\ dev' = [dev EXCEPT !.phase = "watching", !.handlers = Signals]
          /\ UNCHANGED <<service, signals>>
      BY <1>3 DEF Ready
    <2>2. dev' \in DevSessions /\ dev'.phase = "watching" /\ dev'.inspector = dev.inspector
      BY <2>1 DEF DevInv, DevSessions, DevPhases
    <2>3. Reached(dev') = Services
      BY <2>2 DEF Reached
    <2>4. DevLiving(dev', service')
      BY <2>1, <2>2, <2>3 DEF DevInv, DevLiving
    <2> QED
      BY <2>1, <2>2, <2>4 DEF DevInv, DevPlaces, DevReasons
  <1> QED
    BY <1>2, <1>3

\* Telling services to end disturbs nothing, if nobody else lives.
LEMMA StopKeeps ==
    ASSUME DevInv, signals' \in 0..MaxSignals,
           NEW stops \in SUBSET Services, NEW code \in Codes \cup {1},
           NEW handlers \in SUBSET Signals, NEW asked \in BOOLEAN,
           Stop(stops, code, handlers, asked),
           code = 0 => asked,
           dev.phase \in {"waiting", "watching"},
           \A s \in Services : service[s].state = "running" => s \in stops
    PROVE  DevInv'
  <1>1. /\ dev' \in DevSessions /\ dev'.phase = "stopping" /\ dev'.stops = stops
        /\ dev'.leave = code /\ dev'.asked = asked /\ dev'.inspector = dev.inspector
    BY DEF Stop, DevInv, DevSessions, DevPhases
  <1>2. service' \in [Services -> DevServices]
    BY DEF Stop, Terminated, DevInv, DevServices
  <1>3. \A s \in Services :
           service'[s].state = service[s].state /\ service'[s].first = service[s].first
    BY DEF Stop, Terminated, DevInv, DevServices
  <1>4. Reached(dev') = Services
    BY <1>1 DEF Reached
  <1>5. DevLiving(dev', service')
    BY <1>1, <1>3, <1>4 DEF DevLiving, DevInv
  <1> QED
    BY <1>1, <1>2, <1>5 DEF DevInv, DevPlaces, DevReasons

LEMMA ExitedBeforeReadyKeeps == ASSUME DevInv, ExitedBeforeReady PROVE DevInv'
  <1> DEFINE before == StartedBefore(dev.inspector, dev.at)
             code == FailureCode(service[Awaited].code)
  <1>1. dev.phase = "waiting" /\ dev.at \in 1..Len(Order(dev.inspector)) /\ dev.inspector \in BOOLEAN
    BY DEF ExitedBeforeReady, DevInv, DevPlaces, DevSessions
  <1>2. Awaited \in Services
    BY <1>1, OrderIs DEF Awaited
  <1>3. service[Awaited].code \in Codes
    BY <1>2 DEF DevInv, DevServices
  <1>4. code \in Codes \cup {1} /\ code # 0
    BY <1>3, FailureIsNotZero
  <1>5. service[Awaited].state = "dead"
    BY <1>2 DEF ExitedBeforeReady, DevInv, DevLiving
  <1>6. Reached(dev) = {Order(dev.inspector)[i] : i \in 1..dev.at}
    BY <1>1 DEF Reached
  <1>7. before = {Order(dev.inspector)[i] : i \in 1..(dev.at - 1)}
    BY DEF StartedBefore
  <1>8. Reached(dev) \subseteq before \cup {Awaited}
    BY <1>1, <1>6, <1>7 DEF Awaited
  <1>9. before \subseteq Services
    BY <1>1, <1>7, OrderIs
  <1>10. \A s \in Services : service[s].state = "running" => s \in before
    BY <1>5, <1>8 DEF DevInv, DevLiving
  <1>11. /\ IF before = {} THEN dev' = Exit(code) /\ service' = service
                            ELSE Stop(before, code, {}, FALSE)
         /\ signals' = signals
    BY DEF ExitedBeforeReady
  <1>12. signals' \in 0..MaxSignals
    BY <1>11 DEF DevInv
  <1> HIDE DEF before, code
  <1>13. CASE before = {}
    <2>1. /\ dev' \in DevSessions /\ dev'.phase = "exited" /\ dev'.code # 0
          /\ dev'.inspector = dev.inspector /\ service' = service
      BY <1>4, <1>11, <1>13, ZenonT(40) DEF DevInv, DevSessions, DevPhases, Exit
    <2>2. Reached(dev') = Services
      BY <2>1 DEF Reached
    <2>3. DevLiving(dev', service')
      BY <1>10, <1>13, <2>1, <2>2 DEF DevLiving, DevInv
    <2> QED
      BY <1>12, <2>1, <2>3 DEF DevInv, DevPlaces, DevReasons
  <1>14. CASE before # {}
    BY <1>1, <1>4, <1>9, <1>10, <1>11, <1>12, <1>14, StopKeeps
  <1> QED
    BY <1>13, <1>14

LEMMA EverybodyRuns ==
    ASSUME DevInv
    PROVE  /\ Running \subseteq Services
           /\ \A s \in Services : service[s].state = "running" => s \in Running
  <1>1. dev.inspector \in BOOLEAN
    BY DEF DevInv, DevSessions
  <1>2. /\ Running \subseteq Services /\ {"api", "web"} \subseteq Running
        /\ dev.inspector => "inspector" \in Running
    BY <1>1, OrderIs DEF Running
  <1> QED
    BY <1>2 DEF DevInv, DevLiving, Services

LEMMA ServiceCrashedKeeps == ASSUME DevInv, ServiceCrashed PROVE DevInv'
  <1>1. PICK s \in Running :
           /\ service[s].state = "dead"
           /\ Stop(Running \ {s}, FailureCode(service[s].code), dev.handlers, FALSE)
    BY DEF ServiceCrashed
  <1>2. dev.phase = "watching" /\ signals' \in 0..MaxSignals
    BY DEF ServiceCrashed, DevInv
  <1>3. s \in Services /\ service[s].code \in Codes /\ dev.handlers \in SUBSET Signals
    BY <1>1, EverybodyRuns DEF DevInv, DevServices, DevSessions
  <1>4. FailureCode(service[s].code) \in Codes \cup {1} /\ FailureCode(service[s].code) # 0
    BY <1>3, FailureIsNotZero
  <1>5. \A r \in Services : service[r].state = "running" => r \in Running \ {s}
    BY <1>1, EverybodyRuns
  <1> QED
    BY <1>1, <1>2, <1>3, <1>4, <1>5, EverybodyRuns, StopKeeps

LEMMA LeaveKeeps == ASSUME DevInv, NEW overdue \in BOOLEAN, Leave(overdue) PROVE DevInv'
  <1>1. /\ dev' \in DevSessions /\ dev'.phase = "exited" /\ dev'.code = dev.leave
        /\ dev'.inspector = dev.inspector /\ dev'.asked = dev.asked
    BY DEF Leave, Exit, DevInv, DevSessions, DevPhases
  <1>2. service' \in [Services -> DevServices]
    BY DEF Leave, DevInv, DevServices
  <1>3. \A s \in Services :
           /\ service'[s].state = service[s].state /\ service'[s].first = service[s].first
           /\ service[s].state = "running" /\ s \in dev.stops => service'[s].told = "SIGKILL"
    BY DEF Leave, Alive, DevInv, DevServices
  <1>4. Reached(dev') = Services
    BY <1>1 DEF Reached
  <1>5. DevLiving(dev', service')
    BY <1>1, <1>3, <1>4 DEF DevLiving, DevInv, Leave
  <1> QED
    BY <1>1, <1>2, <1>5 DEF Leave, DevInv, DevPlaces, DevReasons

(* The steps of the services and of whoever sends signals. *)

LEMMA AnnounceKeeps == ASSUME DevInv, NEW s \in Services, Announce(s) PROVE DevInv'
  <1>1. /\ service[s].state = "running" /\ UNCHANGED <<dev, signals>>
        /\ service' = [service EXCEPT ![s].said = TRUE,
                           ![s].first = IF Matches(dev.verbose, s) THEN "ready" ELSE @]
    BY DEF Announce, Alive
  <1>2. service' \in [Services -> DevServices]
    BY <1>1, ZenonT(40) DEF DevInv, DevServices
  <1>3. \A r \in Services :
           /\ service'[r].state = service[r].state /\ service'[r].told = service[r].told
           /\ service'[r].first \in {service[r].first, "ready"}
    BY <1>1 DEF DevInv, DevServices
  <1>4. DevLiving(dev, service')
    BY <1>3 DEF DevInv, DevLiving
  <1> QED
    BY <1>1, <1>2, <1>4 DEF DevInv

LEMMA ServiceExitsKeeps == ASSUME DevInv, NEW s \in Services, ServiceExits(s) PROVE DevInv'
  <1>1. PICK code \in Codes :
           service' = [service EXCEPT ![s].state = "dead", ![s].code = code,
                          ![s].first = IF @ = "pending" THEN "exited" ELSE @]
    BY DEF ServiceExits
  <1>2. service[s].state = "running" /\ UNCHANGED <<dev, signals>>
    BY DEF ServiceExits, Alive
  <1> DEFINE first == IF service[s].first = "pending" THEN "exited" ELSE service[s].first
  <1>3. service[s] \in DevServices /\ first \in {"pending", "ready", "exited"}
    BY DEF DevInv, DevServices
  <1>4. service' = [service EXCEPT ![s] = [@ EXCEPT !.state = "dead", !.code = code, !.first = first]]
    BY <1>1, <1>3 DEF DevInv, DevServices
  <1> HIDE DEF first
  <1>5. [service[s] EXCEPT !.state = "dead", !.code = code, !.first = first] \in DevServices
    BY <1>3 DEF DevServices
  <1>6. service' \in [Services -> DevServices]
    BY <1>4, <1>5 DEF DevInv
  <1>7. service'[s].state = "dead"
    BY <1>1 DEF DevInv, DevServices
  <1>8. \A r \in Services : r # s => service'[r] = service[r]
    BY <1>1 DEF DevInv
  <1>9. DevLiving(dev, service')
    BY <1>2, <1>7, <1>8 DEF DevInv, DevLiving
  <1> QED
    BY <1>2, <1>6, <1>9 DEF DevInv

LEMMA SignalKeeps == ASSUME DevInv, NEW sig \in Signals, Signal(sig) PROVE DevInv'
  <1>1. signals' \in 0..MaxSignals
    BY SignalsBound DEF Signal, DevInv
  <1>2. dev.handlers \in SUBSET Signals /\ dev.handlers \ {sig} \in SUBSET Signals
    BY DEF DevInv, DevSessions
  <1>3. CASE dev.phase = "watching" /\ Stop(Running, 0, dev.handlers \ {sig}, TRUE)
    BY <1>1, <1>2, <1>3, EverybodyRuns, StopKeeps, CodesAssumption
  <1>4. CASE /\ dev.phase = "stopping" /\ dev' = [dev EXCEPT !.handlers = @ \ {sig}]
             /\ service' = service
    <2>1. /\ dev' \in DevSessions /\ dev'.phase = "stopping" /\ dev'.stops = dev.stops
          /\ dev'.leave = dev.leave /\ dev'.asked = dev.asked /\ dev'.inspector = dev.inspector
      BY <1>2, <1>4 DEF DevInv, DevSessions
    <2>2. Reached(dev') = Services
      BY <2>1 DEF Reached
    <2>3. DevLiving(dev', service')
      BY <1>4, <2>1, <2>2 DEF DevInv, DevLiving
    <2> QED
      BY <1>1, <1>4, <2>1, <2>3 DEF DevInv, DevPlaces, DevReasons
  <1>5. CASE dev' = [dev EXCEPT !.phase = "killed"] /\ service' = service
    <2>1. dev' \in DevSessions /\ dev'.phase = "killed" /\ dev'.inspector = dev.inspector
      BY <1>5 DEF DevInv, DevSessions, DevPhases
    <2>2. Reached(dev') = Services
      BY <2>1 DEF Reached
    <2>3. DevLiving(dev', service')
      BY <1>5, <2>1, <2>2 DEF DevInv, DevLiving
    <2> QED
      BY <1>1, <1>5, <2>1, <2>3 DEF DevInv, DevPlaces, DevReasons
  <1> QED
    BY <1>3, <1>4, <1>5 DEF Signal

LEMMA DevStepKeeps == DevInv /\ [DevNext]_devVars => DevInv'
  <1> SUFFICES ASSUME DevInv, [DevNext]_devVars PROVE DevInv'
    OBVIOUS
  <1>1. CASE Supervise
    BY <1>1, StageDoneKeeps, StageFailedKeeps, ReadyKeeps, ExitedBeforeReadyKeeps,
       ServiceCrashedKeeps DEF Supervise
  <1>2. CASE \E overdue \in BOOLEAN : Leave(overdue)
    BY <1>2, LeaveKeeps
  <1>3. CASE \E s \in Services : Announce(s) \/ ServiceExits(s)
    BY <1>3, AnnounceKeeps, ServiceExitsKeeps
  <1>4. CASE \E sig \in Signals : Signal(sig)
    BY <1>4, SignalKeeps
  <1>5. CASE UNCHANGED devVars
    BY <1>5 DEF devVars, DevInv
  <1> QED
    BY <1>1, <1>2, <1>3, <1>4, <1>5 DEF DevNext

LEMMA DevInvariant == DevSpec => []DevInv
  <1> QED
    BY DevInitHolds, DevStepKeeps, PTL DEF DevSpec

(* `bun run dev` leaves cleanly: whichever services came up, crashed or    *)
(* ignored SIGTERM, and whatever signals came in between, none outlives a  *)
(* supervisor that left by itself, and status 0 answers a signal only.     *)
THEOREM DevSessionsEndCleanly == DevSpec => []DevLeavesCleanly
  <1>1. DevInv => DevLeavesCleanly
    BY DEF DevInv, DevReasons, DevLiving, DevLeavesCleanly, NothingOutlivesDev, ZeroOnlyWhenAsked, Alive
  <1> QED
    BY <1>1, DevInvariant, PTL

(* The session and its services keep their types: the supervisor is in one *)
(* of its phases, it stops services only, and whatever it is going to exit *)
(* with is a status.                                                       *)
THEOREM DevTypes == DevSpec => []DevTypeOK
  <1>1. DevInv => DevTypeOK
    BY DEF DevInv, DevSessions, DevPhases, DevServices, DevTypeOK
  <1> QED
    BY <1>1, DevInvariant, PTL

-----------------------------------------------------------------------------
(***************************************************************************)
(* Deploys without downtime, for any services, any number of containers    *)
(* and of deploys, wherever each stops.  The invariant tells the           *)
(* containers that a deploy keeps from those it is going to stop: the kept *)
(* ones are as many as it found, they are new, and when it comes to        *)
(* stopping the others they are healthy.                                   *)
(***************************************************************************)

\* The services have different names, and each begins with a container.
RolloutSetup ==
    /\ MaxDeploys \in Nat /\ MaxContainers \in Nat
    /\ RollOrder \in Seq(Rolled) /\ Len(RollOrder) <= MaxContainers
    /\ \A i, j \in 1..Len(RollOrder) : i # j => RollOrder[i] # RollOrder[j]
    /\ "none" \notin Rolled

ContainerType ==
    [service : Rolled \cup {"none"}, version : Nat,
     health : {"none", "starting", "unhealthy", "healthy"}]

DeployType ==
    [step : {"rest", "next", "waiting", "settling", "done"}, at : 0..Len(RollOrder),
     old : SUBSET Ids, target : Nat, found : [Rolled -> Nat]]

Rolling == deploy.step \in {"waiting", "settling"}

\* The containers of a service that the deploy under way does not stop.
Kept(s) == IF Rolling /\ s = Service THEN Ps(s) \ deploy.old ELSE Ps(s)

RolloutTyped ==
    /\ container \in [Ids -> ContainerType] /\ deploy \in DeployType /\ version \in Nat

Stopped(i) == i \in Ids /\ container[i] = NoContainer

\* The service that is being rolled has new containers, healthy ones in the end; what it is
\* to stop are its own, or is stopped already.
Placed ==
    /\ Rolling => /\ deploy.at \in 1..Len(RollOrder) /\ Kept(Service) # {}
                  /\ \A i \in deploy.old : i \in Ps(Service) \/ Stopped(i)
    /\ deploy.step = "settling" => Healthy(Service) = Ps(Service)
    /\ deploy.step = "done" => deploy.at = Len(RollOrder)

Counted == deploy.step # "rest" => \A s \in Rolled : Cardinality(Kept(s)) = deploy.found[s]

Renewed ==
    deploy.step # "rest" =>
        \A j \in 1..deploy.at : \A i \in Kept(RollOrder[j]) : container[i].version = version

RolloutInv == RolloutTyped /\ Placed /\ Counted /\ Renewed /\ SomeoneServes

LEMMA PsIsFinite ==
    ASSUME RolloutSetup, NEW s
    PROVE  IsFiniteSet(Ps(s)) /\ Cardinality(Ps(s)) \in Nat
  <1>1. IsFiniteSet(Ids)
    BY FS_Interval DEF RolloutSetup, Ids
  <1>2. Ps(s) \subseteq Ids
    BY DEF Ps
  <1> QED
    BY <1>1, <1>2, FS_Subset, FS_CardinalityType

LEMMA ServicesAreRolled ==
    ASSUME NEW j \in 1..Len(RollOrder) PROVE RollOrder[j] \in Rolled
  BY DEF Rolled

LEMMA RolloutInitHolds == ASSUME RolloutSetup PROVE RolloutInit => RolloutInv
  <1> SUFFICES ASSUME RolloutInit PROVE RolloutInv
    OBVIOUS
  <1>1. Len(RollOrder) \in Nat /\ 0 \in 0..Len(RollOrder)
    BY DEF RolloutSetup
  <1>2. deploy \in DeployType /\ deploy.step = "rest"
    BY <1>1 DEF RolloutInit, AtRest, DeployType
  <1>3. container \in [Ids -> ContainerType]
    BY <1>1, ServicesAreRolled DEF RolloutInit, ContainerType, NoContainer, Ids, RolloutSetup
  <1>4. SomeoneServes
    <2> SUFFICES ASSUME NEW s \in Rolled PROVE Healthy(s) # {}
      BY DEF SomeoneServes
    <2>1. PICK i \in 1..Len(RollOrder) : s = RollOrder[i]
      BY DEF Rolled
    <2>2. i \in Ids /\ i <= Len(RollOrder)
      BY <1>1, <2>1 DEF Ids, RolloutSetup
    <2>3. container[i] = [service |-> RollOrder[i], version |-> 0, health |-> "healthy"]
      BY <2>2 DEF RolloutInit
    <2> QED
      BY <2>1, <2>2, <2>3 DEF Healthy, Ps
  <1> QED
    BY <1>2, <1>3, <1>4 DEF RolloutInit, RolloutInv, RolloutTyped, Placed, Counted, Renewed, Rolling

(* Steps that leave the containers alone.                                  *)

LEMMA DeployKeeps == ASSUME RolloutSetup, RolloutInv, Deploy PROVE RolloutInv'
  <1> DEFINE found == [s \in Rolled |-> Cardinality(Ps(s))]
  <1>1. /\ deploy' = [AtRest EXCEPT !.step = "next", !.found = found]
        /\ version' = version + 1 /\ container' = container
    BY DEF Deploy
  <1>2. found \in [Rolled -> Nat]
    BY PsIsFinite
  <1> HIDE DEF found
  <1>3. deploy'.step = "next" /\ deploy'.at = 0 /\ deploy'.found = found
    BY <1>1 DEF AtRest
  <1>4. deploy' \in DeployType
    <2>1. deploy' = [step |-> "next", at |-> 0, old |-> {}, target |-> 0, found |-> found]
      BY <1>1 DEF AtRest
    <2>2. 0 \in 0..Len(RollOrder)
      BY DEF RolloutSetup
    <2> QED
      BY <1>2, <2>1, <2>2 DEF DeployType
  <1>5. \A s : Kept(s)' = Ps(s)
    BY <1>1, <1>3 DEF Kept, Rolling, Ps
  <1>6. Counted'
    BY <1>3, <1>5 DEF Counted, found
  <1>7. Renewed'
    BY <1>3 DEF Renewed
  <1>8. SomeoneServes'
    BY <1>1 DEF RolloutInv, SomeoneServes, Healthy, Ps
  <1> QED
    BY <1>1, <1>3, <1>4, <1>6, <1>7, <1>8 DEF RolloutInv, RolloutTyped, Placed, Rolling

LEMMA StopsKeep == ASSUME RolloutSetup, RolloutInv, Deadline \/ Interrupted PROVE RolloutInv'
  <1>1. deploy' = AtRest /\ UNCHANGED <<container, version>>
    BY DEF Deadline, Interrupted
  <1>2. deploy' \in DeployType /\ deploy'.step = "rest"
    BY <1>1 DEF AtRest, DeployType, RolloutSetup
  <1>3. SomeoneServes'
    BY <1>1 DEF RolloutInv, SomeoneServes, Healthy, Ps
  <1> QED
    BY <1>1, <1>2, <1>3 DEF RolloutInv, RolloutTyped, Placed, Counted, Renewed, Rolling

LEMMA AllHealthyKeeps == ASSUME RolloutSetup, RolloutInv, AllHealthy PROVE RolloutInv'
  <1>1. /\ deploy.step = "waiting" /\ Healthy(Service) = Ps(Service)
        /\ deploy' = [deploy EXCEPT !.step = "settling"] /\ UNCHANGED <<container, version>>
    BY DEF AllHealthy, AllUp
  <1>2. /\ deploy' \in DeployType /\ deploy'.step = "settling" /\ deploy'.at = deploy.at
        /\ deploy'.old = deploy.old /\ deploy'.found = deploy.found
    BY <1>1 DEF RolloutInv, RolloutTyped, DeployType
  <1>3. Service' = Service /\ \A s : Ps(s)' = Ps(s) /\ Healthy(s)' = Healthy(s)
    BY <1>1, <1>2 DEF Service, Ps, Healthy
  <1>4. \A s : Kept(s)' = Kept(s)
    BY <1>1, <1>2, <1>3 DEF Kept, Rolling
  <1>5. Placed'
    <2>1. \A i : Stopped(i)' = Stopped(i)
      BY <1>1 DEF Stopped
    <2> QED
      BY <1>1, <1>2, <1>3, <1>4, <2>1 DEF RolloutInv, Placed, Rolling
  <1>6. Counted' /\ Renewed' /\ SomeoneServes'
    BY <1>1, <1>2, <1>3, <1>4 DEF RolloutInv, Counted, Renewed, SomeoneServes
  <1> QED
    BY <1>1, <1>2, <1>5, <1>6 DEF RolloutInv, RolloutTyped

LEMMA DeployedKeeps == ASSUME RolloutSetup, RolloutInv, Deployed PROVE RolloutInv'
  <1>1. /\ deploy.step = "next" /\ deploy.at = Len(RollOrder)
        /\ deploy' = [deploy EXCEPT !.step = "done"] /\ UNCHANGED <<container, version>>
    BY DEF Deployed
  <1>2. /\ deploy' \in DeployType /\ deploy'.step = "done" /\ deploy'.at = deploy.at
        /\ deploy'.found = deploy.found
    BY <1>1 DEF RolloutInv, RolloutTyped, DeployType
  <1>3. \A s : Ps(s)' = Ps(s) /\ Healthy(s)' = Healthy(s)
    BY <1>1 DEF Ps, Healthy
  <1>4. \A s : Kept(s)' = Kept(s)
    BY <1>1, <1>2, <1>3 DEF Kept, Rolling
  <1>5. Placed'
    BY <1>1, <1>2 DEF Placed, Rolling
  <1>6. Counted' /\ Renewed' /\ SomeoneServes'
    BY <1>1, <1>2, <1>3, <1>4 DEF RolloutInv, Counted, Renewed, SomeoneServes
  <1> QED
    BY <1>1, <1>2, <1>5, <1>6 DEF RolloutInv, RolloutTyped

(* Steps that change containers.                                           *)

LEMMA HealthCheckKeeps ==
    ASSUME RolloutSetup, RolloutInv, NEW i \in Ids, HealthCheck(i) PROVE RolloutInv'
  <1>1. PICK health \in {"healthy", "unhealthy"} :
           container' = [container EXCEPT ![i].health = health]
    BY DEF HealthCheck
  <1>2. container[i].health # "healthy" /\ UNCHANGED <<deploy, version>>
    BY DEF HealthCheck
  <1>3. container' \in [Ids -> ContainerType]
    BY <1>1 DEF RolloutInv, RolloutTyped, ContainerType
  <1>4. \A j \in Ids : /\ container'[j].service = container[j].service
                       /\ container'[j].version = container[j].version
                       /\ container[j].health = "healthy" => container'[j].health = "healthy"
    BY <1>1, <1>2 DEF RolloutInv, RolloutTyped, ContainerType
  <1>5. \A s : Ps(s)' = Ps(s) /\ Healthy(s) \subseteq Healthy(s)'
    BY <1>4 DEF Ps, Healthy
  <1>6. Service' = Service
    BY <1>2 DEF Service
  <1>7. \A s : Kept(s)' = Kept(s) /\ Kept(s) \subseteq Ids
    BY <1>2, <1>5, <1>6 DEF Kept, Rolling, Ps
  <1>8. Placed'
    <2>1. Healthy(Service)' \subseteq Ps(Service)'
      BY DEF Healthy
    <2>2. \A j \in Ids : Stopped(j) => Stopped(j)'
      <3> SUFFICES ASSUME NEW j \in Ids, container[j] = NoContainer PROVE Stopped(j)'
        BY DEF Stopped
      <3>1. container[i].health # NoContainer.health
        BY DEF HealthCheck, NoContainer
      <3>2. j # i
        BY <3>1
      <3> QED
        BY <1>1, <3>2 DEF Stopped, RolloutInv, RolloutTyped
    <2>3. \A j : Stopped(j) => Stopped(j)'
      BY <2>2 DEF Stopped
    <2> QED
      BY <1>2, <1>5, <1>6, <1>7, <2>1, <2>3 DEF RolloutInv, Placed, Rolling
  <1>9. Counted'
    BY <1>2, <1>7 DEF RolloutInv, Counted
  <1>10. Renewed'
    BY <1>2, <1>4, <1>7 DEF RolloutInv, Renewed
  <1>11. SomeoneServes'
    BY <1>5 DEF RolloutInv, SomeoneServes
  <1> QED
    BY <1>2, <1>3, <1>8, <1>9, <1>10, <1>11 DEF RolloutInv, RolloutTyped

LEMMA ScaleKeeps == ASSUME RolloutSetup, RolloutInv, Scale PROVE RolloutInv'
  <1>1. /\ deploy.step = "next" /\ deploy.at < Len(RollOrder) /\ version' = version
        /\ deploy \in DeployType /\ deploy.at + 1 \in 1..Len(RollOrder)
    BY DEF Scale, RolloutInv, RolloutTyped, DeployType, RolloutSetup
  <1>2. PICK s \in Rolled : s = RollOrder[deploy.at + 1]
    BY <1>1, ServicesAreRolled
  <1>3. PICK n \in Nat : n = Cardinality(Ps(s))
    BY PsIsFinite
  <1>4. n >= 1 /\ deploy' = [deploy EXCEPT !.step = "waiting", !.at = @ + 1, !.old = Ps(s),
                                            !.target = Target(n)]
    BY <1>2, <1>3 DEF Scale
  <1>5. PICK new \in SUBSET Free :
           /\ Cardinality(new) = Target(n) - n
           /\ container' = [i \in Ids |-> IF i \in new
                  THEN [service |-> s, version |-> version, health |-> "starting"]
                  ELSE container[i]]
    BY <1>2, <1>3 DEF Scale
  <1>6. new \subseteq Ids /\ \A i \in new : \A t \in Rolled : container[i].service # t
    BY DEF Free
  <1>7. Cardinality(new) = n /\ new # {}
    <2>1. Target(n) \in Nat /\ Target(n) - n = n
      BY DEF Target
    <2>2. Cardinality(new) = n /\ Cardinality(new) # 0
      BY <1>4, <1>5, <2>1
    <2> QED
      BY <2>2, FS_EmptySet
  <1>8. /\ deploy' \in DeployType /\ deploy'.step = "waiting" /\ deploy'.at = deploy.at + 1
        /\ deploy'.old = Ps(s) /\ deploy'.found = deploy.found
    <2>1. deploy.at + 1 \in 0..Len(RollOrder) /\ Ps(s) \in SUBSET Ids /\ Target(n) \in Nat
      BY <1>1 DEF Ps, Target
    <2> QED
      BY <1>1, <1>4, <2>1 DEF DeployType
  <1>9. container' \in [Ids -> ContainerType]
    BY <1>5 DEF RolloutInv, RolloutTyped, ContainerType
  <1>10. Service' = s
    BY <1>2, <1>8 DEF Service
  <1>11. Ps(s)' = Ps(s) \cup new /\ Ps(s) \cap new = {}
    BY <1>5, <1>6 DEF Ps
  <1>12. \A t \in Rolled : t # s => Ps(t)' = Ps(t)
    BY <1>5, <1>6 DEF Ps
  <1>13. Kept(s)' = new
    BY <1>8, <1>10, <1>11 DEF Kept, Rolling
  <1>14. \A t \in Rolled : t # s => Kept(t)' = Kept(t)
    BY <1>1, <1>8, <1>10, <1>12 DEF Kept, Rolling
  <1>15. Placed'
    <2>1. Kept(Service)' = new /\ deploy'.old \subseteq Ps(Service)'
      BY <1>8, <1>10, <1>11 DEF Kept, Rolling
    <2> QED
      BY <1>1, <1>7, <1>8, <2>1 DEF Placed, Rolling
  <1>16. Counted'
    <2>1. Kept(s) = Ps(s) /\ Cardinality(Kept(s)) = deploy.found[s]
      BY <1>1 DEF RolloutInv, Counted, Kept, Rolling
    <2>2. Cardinality(Kept(s)') = deploy.found[s]
      BY <1>3, <1>7, <1>13, <2>1
    <2>3. \A t \in Rolled : t # s => Cardinality(Kept(t)') = deploy.found[t]
      BY <1>1, <1>14 DEF RolloutInv, Counted
    <2>4. \A t \in Rolled : Cardinality(Kept(t))' = deploy'.found[t]
      BY <1>8, <2>2, <2>3
    <2> QED
      BY <2>4 DEF Counted
  <1>17. Renewed'
    <2> SUFFICES ASSUME NEW j \in 1..(deploy.at + 1), NEW i \in Kept(RollOrder[j])'
                 PROVE  container'[i].version = version
      BY <1>1, <1>8 DEF Renewed
    <2>1. j \in 1..Len(RollOrder) /\ RollOrder[j] \in Rolled
      BY <1>1, ServicesAreRolled DEF DeployType
    <2>2. CASE j = deploy.at + 1
      <3>1. i \in new /\ i \in Ids
        BY <1>2, <1>6, <1>13, <2>2
      <3> QED
        BY <1>5, <3>1
    <2>3. CASE j # deploy.at + 1
      <3>1. j \in 1..deploy.at /\ RollOrder[j] # s
        BY <1>1, <1>2, <2>1, <2>3 DEF RolloutSetup, DeployType
      <3>2. i \in Kept(RollOrder[j]) /\ Kept(RollOrder[j]) \subseteq Ids
        BY <1>14, <2>1, <3>1 DEF Kept, Ps
      <3>3. container[i].version = version
        BY <1>1, <3>1, <3>2 DEF RolloutInv, Renewed
      <3> QED
        BY <1>5, <3>2, <3>3
    <2> QED
      BY <2>2, <2>3
  <1>18. SomeoneServes'
    <2> SUFFICES ASSUME NEW t \in Rolled PROVE Healthy(t)' # {}
      BY DEF SomeoneServes
    <2>1. PICK i \in Healthy(t) : TRUE
      BY DEF RolloutInv, SomeoneServes
    <2>2. i \in Ids /\ container[i].service = t /\ container[i].health = "healthy"
      BY <2>1 DEF Healthy, Ps
    <2>3. container'[i] = container[i]
      BY <1>5, <1>6, <2>2
    <2> QED
      BY <2>2, <2>3 DEF Healthy, Ps
  <1> QED
    BY <1>1, <1>8, <1>9, <1>15, <1>16, <1>17, <1>18 DEF RolloutInv, RolloutTyped

LEMMA DrainKeeps == ASSUME RolloutSetup, RolloutInv, NEW d \in Ids, Drain(d) PROVE RolloutInv'
  <1>1. /\ deploy.step = "settling" /\ UNCHANGED <<deploy, version>>
        /\ d \in deploy.old /\ container[d] # NoContainer
        /\ container' = [container EXCEPT ![d] = NoContainer]
    BY DEF Drain, AsFound
  <1>2. PICK s \in Rolled : s = Service
    BY <1>1, ServicesAreRolled DEF Service, RolloutInv, RolloutTyped, Placed, Rolling
  <1>3. d \in Ps(s) /\ container \in [Ids -> ContainerType]
    BY <1>1, <1>2 DEF RolloutInv, RolloutTyped, Placed, Rolling, Stopped
  <1>4. \A i \in Ids : container'[i] = IF i = d THEN NoContainer ELSE container[i]
    BY <1>1, <1>3
  <1>5. Rolling /\ Rolling' /\ Service' = s
    BY <1>1, <1>2 DEF Rolling, Service
  <1>6. \A t \in Rolled : Kept(t)' = Kept(t)
    <2> SUFFICES ASSUME NEW t \in Rolled PROVE Kept(t)' = Kept(t)
      OBVIOUS
    <2>1. Ps(t)' = Ps(t) \ {d}
      BY <1>3, <1>4 DEF Ps, NoContainer, RolloutSetup
    <2>2. CASE t = s
      BY <1>1, <1>2, <1>5, <2>1, <2>2 DEF Kept
    <2>3. CASE t # s
      BY <1>2, <1>3, <1>5, <2>1, <2>3 DEF Kept, Ps
    <2> QED
      BY <2>2, <2>3
  <1>7. \A t \in Rolled : \A i \in Kept(t) : i \in Ids /\ container'[i] = container[i]
    <2> SUFFICES ASSUME NEW t \in Rolled, NEW i \in Kept(t)
                 PROVE  i \in Ids /\ container'[i] = container[i]
      OBVIOUS
    <2>1. i \in Ids /\ i \in Ps(t)
      BY DEF Kept, Ps
    <2>2. i # d
      BY <1>1, <1>2, <1>3, <1>5, <2>1 DEF Kept, Ps
    <2> QED
      BY <1>4, <2>1, <2>2
  <1>8. container' \in [Ids -> ContainerType]
    BY <1>1, <1>3 DEF ContainerType, NoContainer
  <1>9. Placed'
    <2>1. Kept(s)' # {} /\ deploy.at \in 1..Len(RollOrder)
      BY <1>2, <1>5, <1>6 DEF RolloutInv, Placed
    <2>2. \A i \in deploy.old : i \in Ps(s)' \/ Stopped(i)'
      <3> SUFFICES ASSUME NEW i \in deploy.old PROVE i \in Ps(s)' \/ Stopped(i)'
        OBVIOUS
      <3>1. i \in Ids /\ (i \in Ps(s) \/ container[i] = NoContainer)
        BY <1>2, <1>5 DEF RolloutInv, Placed, Stopped, Ps
      <3> QED
        BY <1>4, <3>1 DEF Ps, Stopped
    <2>3. Healthy(s)' = Ps(s)'
      <3>1. Healthy(s) = Ps(s)
        BY <1>1, <1>2 DEF RolloutInv, Placed
      <3>2. \A i \in Ps(s)' : i \in Ids /\ container'[i].health = "healthy"
        <4> SUFFICES ASSUME NEW i \in Ps(s)' PROVE i \in Ids /\ container'[i].health = "healthy"
          OBVIOUS
        <4>1. i \in Ids /\ i # d
          BY <1>2, <1>4 DEF Ps, NoContainer, RolloutSetup
        <4> QED
          BY <1>4, <3>1, <4>1 DEF Ps, Healthy
      <3> QED
        BY <3>2 DEF Healthy
    <2>4. deploy'.step # "done"
      BY <1>1
    <2> QED
      BY <1>1, <1>5, <2>1, <2>2, <2>3, <2>4 DEF Placed
  <1>10. Counted'
    BY <1>1, <1>6 DEF RolloutInv, Counted
  <1>11. Renewed'
    <2> SUFFICES ASSUME NEW j \in 1..deploy.at, NEW i \in Kept(RollOrder[j])'
                 PROVE  container'[i].version = version
      BY <1>1 DEF Renewed
    <2>1. j \in 1..Len(RollOrder) /\ RollOrder[j] \in Rolled
      BY ServicesAreRolled DEF RolloutInv, RolloutTyped, DeployType
    <2>2. i \in Kept(RollOrder[j]) /\ container'[i] = container[i]
      BY <1>6, <1>7, <2>1
    <2> QED
      BY <1>1, <2>2 DEF RolloutInv, Renewed
  <1>12. SomeoneServes'
    <2> SUFFICES ASSUME NEW t \in Rolled PROVE Healthy(t)' # {}
      BY DEF SomeoneServes
    <2>1. PICK i \in Kept(t) : container[i].health = "healthy"
      <3>1. CASE t = s
        BY <1>1, <1>2, <1>5, <3>1 DEF RolloutInv, Placed, Healthy, Kept
      <3>2. CASE t # s
        BY <1>2, <3>2 DEF RolloutInv, SomeoneServes, Healthy, Kept
      <3> QED
        BY <3>1, <3>2
    <2>2. i \in Ids /\ container'[i] = container[i] /\ container[i].service = t
      BY <1>7, <2>1 DEF Kept, Ps
    <2> QED
      BY <2>1, <2>2 DEF Healthy, Ps
  <1> QED
    BY <1>1, <1>8, <1>9, <1>10, <1>11, <1>12 DEF RolloutInv, RolloutTyped

LEMMA AllDrainedKeeps == ASSUME RolloutSetup, RolloutInv, AllDrained PROVE RolloutInv'
  <1>1. /\ deploy.step = "settling" /\ UNCHANGED <<container, version>>
        /\ deploy' = [deploy EXCEPT !.step = "next", !.old = {}]
        /\ \A i \in deploy.old : container[i] = NoContainer
    BY DEF AllDrained, AsFound
  <1>2. /\ deploy' \in DeployType /\ deploy'.step = "next" /\ deploy'.at = deploy.at
        /\ deploy'.found = deploy.found
    BY <1>1 DEF RolloutInv, RolloutTyped, DeployType
  <1>3. \A s : Ps(s)' = Ps(s) /\ Healthy(s)' = Healthy(s)
    BY <1>1 DEF Ps, Healthy
  <1>4. \A t \in Rolled : Kept(t)' = Kept(t)
    <2> SUFFICES ASSUME NEW t \in Rolled PROVE Kept(t)' = Kept(t)
      OBVIOUS
    <2>1. Kept(t)' = Ps(t)
      BY <1>2, <1>3 DEF Kept, Rolling
    <2>2. Ps(t) \ deploy.old = Ps(t)
      BY <1>1 DEF Ps, NoContainer, RolloutSetup
    <2> QED
      BY <2>1, <2>2 DEF Kept
  <1>5. \A j \in 1..deploy.at : RollOrder[j] \in Rolled
    BY ServicesAreRolled DEF RolloutInv, RolloutTyped, DeployType
  <1>6. Renewed'
    BY <1>1, <1>2, <1>4, <1>5 DEF RolloutInv, Renewed
  <1>7. Counted'
    BY <1>1, <1>2, <1>4 DEF RolloutInv, Counted
  <1>8. Placed'
    BY <1>2 DEF Placed, Rolling
  <1>9. SomeoneServes'
    BY <1>3 DEF RolloutInv, SomeoneServes
  <1> QED
    BY <1>1, <1>2, <1>6, <1>7, <1>8, <1>9 DEF RolloutInv, RolloutTyped

LEMMA RolloutStepKeeps == ASSUME RolloutSetup, RolloutInv, [RolloutNext]_rolloutVars PROVE RolloutInv'
  <1>1. CASE RolloutNext
    BY <1>1, DeployKeeps, ScaleKeeps, AllHealthyKeeps, DrainKeeps, AllDrainedKeeps,
       DeployedKeeps, StopsKeep, HealthCheckKeeps DEF RolloutNext
  <1>2. CASE UNCHANGED rolloutVars
    <2>1. UNCHANGED <<container, deploy, version>>
      BY <1>2 DEF rolloutVars
    <2>2. Service' = Service /\ \A s : Ps(s)' = Ps(s) /\ Healthy(s)' = Healthy(s)
      BY <2>1 DEF Service, Ps, Healthy
    <2>3. \A s : Kept(s)' = Kept(s)
      BY <2>1, <2>2 DEF Kept, Rolling
    <2>4. \A i : Stopped(i)' = Stopped(i)
      BY <2>1 DEF Stopped
    <2>5. Placed' /\ SomeoneServes'
      BY <2>1, <2>2, <2>3, <2>4 DEF RolloutInv, Placed, Rolling, SomeoneServes
    <2>6. Counted' /\ Renewed'
      BY <2>1, <2>3 DEF RolloutInv, Counted, Renewed
    <2> QED
      BY <2>1, <2>5, <2>6 DEF RolloutInv, RolloutTyped
  <1> QED
    BY <1>1, <1>2

LEMMA RolloutSafe == ASSUME RolloutSetup, RolloutInv PROVE RolloutIsSafe
  <1>1. SomeoneServes
    BY DEF RolloutInv
  <1>2. ~Rolling \/ deploy.step # "done"
    BY DEF Rolling
  <1>3. DoneMeansDeployed
    <2> SUFFICES ASSUME deploy.step = "done", NEW s \in Rolled, NEW i \in Ps(s)
                 PROVE  container[i].version = version
      BY DEF DoneMeansDeployed
    <2>1. PICK j \in 1..Len(RollOrder) : s = RollOrder[j]
      BY DEF Rolled
    <2>2. deploy.at = Len(RollOrder) /\ Kept(s) = Ps(s)
      BY <1>2 DEF RolloutInv, Placed, Kept
    <2> QED
      BY <2>1, <2>2 DEF RolloutInv, Renewed
  <1>4. ReplicasAreKept
    BY <1>2 DEF RolloutInv, Counted, Kept, ReplicasAreKept
  <1> QED
    BY <1>1, <1>3, <1>4 DEF RolloutIsSafe

(* The site is up throughout every rollout, a deploy that says it is done   *)
(* has replaced every container and leaves as many as it found, wherever    *)
(* the deploys before it stopped (scripts/deploy/vps.sh).                   *)
THEOREM DeploysAreSafe == ASSUME RolloutSetup PROVE RolloutSpec => []RolloutIsSafe
  <1>1. RolloutInit => RolloutInv
    BY RolloutInitHolds
  <1>2. RolloutInv /\ [RolloutNext]_rolloutVars => RolloutInv'
    BY RolloutStepKeeps
  <1>3. RolloutInv => RolloutIsSafe
    BY RolloutSafe
  <1> QED
    BY <1>1, <1>2, <1>3, PTL DEF RolloutSpec

-----------------------------------------------------------------------------
(***************************************************************************)
(* The gate, for any phases, any pool and any order of the answers: an     *)
(* exit code of 0 means that every task the arguments select ran and       *)
(* passed or was advisory.  The invariant says which tasks have been taken *)
(* (those of the selected phases before the one under way and the first    *)
(* few of that one), that none of them has failed while the run goes on,   *)
(* and that the pool holds no more than its width.                         *)
(***************************************************************************)

\* What a segment of a queue yields is no more than its length.
LEMMA SegmentCardinality ==
    ASSUME NEW f, NEW from \in Nat, NEW to \in Nat, from <= to
    PROVE  /\ IsFiniteSet({f[i] : i \in (from + 1)..to})
           /\ Cardinality({f[i] : i \in (from + 1)..to}) <= to - from
<1> DEFINE S == (from + 1)..to
           T == {f[i] : i \in S}
           g == [i \in S |-> f[i]]
<1>1. IsFiniteSet(S) /\ Cardinality(S) = to - from
  <2>1. from + 1 \in Int /\ to \in Int
    OBVIOUS
  <2>2. IsFiniteSet(S) /\ Cardinality(S) = IF from + 1 > to THEN 0 ELSE to - (from + 1) + 1
    BY <2>1, FS_Interval
  <2>3. QED
    BY <2>2
<1>2. g \in Surjection(S, T)
  BY DEF Surjection
<1>3. IsFiniteSet(T) /\ Cardinality(T) <= Cardinality(S)
  BY <1>1, <1>2, FS_Surjection
<1>4. QED
  BY <1>1, <1>3

CiStates ==
    [sel : Selections, limit : Limits, at : 0..Len(Phases), taken : Nat,
     phase : {"arguments", "docker", "between", "running", "settling", "exited"},
     failed : CiTasks \cup {"none"}, code : 0..2, swept : BOOLEAN]

CiTyped == ci \in CiStates /\ task \in [CiTasks -> Statuses]

\* The tasks taken so far: those of the selected phases before the one under way, and the
\* first of its own.
Begun(t) ==
    \E i \in 1..Len(Phases) : \E a \in 1..Len(Phases[i].tasks) :
        /\ Phases[i].tasks[a] = t /\ Selected(ci.sel, Phases[i])
        /\ i < ci.at \/ (i = ci.at /\ a <= ci.taken)

Untouched == ci.at = 0 /\ \A t \in CiTasks : task[t] = "waiting"

\* No task that was taken has failed, and every other waits.
OnCourse ==
    /\ ~SelectionRefused(ci.sel)
    /\ \A t \in CiTasks :
          /\ task[t] \in {"waiting", "running", "passed", "warned"}
          /\ task[t] # "waiting" <=> Begun(t)
          /\ task[t] = "warned" => \E i \in 1..Len(Phases) : t \in Phases[i].advisory

PoolFits ==
    /\ ci.at > 0 /\ ci.taken <= Len(Phase.tasks) /\ Selected(ci.sel, Phase)
    /\ InFlight # {} /\ InFlight \subseteq TasksOf(Phase)
    /\ Cardinality(InFlight) <= Width(Phase, ci.limit)

PhaseOver ==
    /\ ci.at = 0 \/ ci.taken = Len(Phase.tasks)
    /\ InFlight = {}

CiInv ==
    /\ CiTyped
    /\ ci.phase = "arguments" => Untouched /\ ci.code = 0
    /\ ci.phase = "docker" => Untouched /\ ~SelectionRefused(ci.sel)
    /\ ci.phase = "between" => OnCourse /\ PhaseOver
    /\ ci.phase = "running" => OnCourse /\ PoolFits
    /\ ci.phase = "settling" => InFlight = {}
    /\ ci.phase = "exited" /\ ci.code = 0 =>
          OnCourse /\ PhaseOver /\ SelectedFrom(ci.at + 1) = {}
    /\ ci.phase = "exited" => NothingRunsAfterCi

LEMMA PhaseIs ==
    ASSUME NEW i \in 1..Len(Phases)
    PROVE  /\ Len(Phases) \in Nat
           /\ Len(Phases[i].tasks) \in Nat \ {0}
           /\ \A a \in 1..Len(Phases[i].tasks) : Phases[i].tasks[a] \in CiTasks
           /\ TasksOf(Phases[i]) = {Phases[i].tasks[a] : a \in 1..Len(Phases[i].tasks)}
           /\ Phases[i].name \in STRING \ {"none", "unknown"}
           /\ Phases[i].advisory \in SUBSET CiTasks
           /\ Phases[i].kind # "parallel" => Phases[i].advisory = {}
<1> DEFINE R == [name : STRING \ {"none", "unknown"}, tasks : Seq(CiTasks) \ {<<>>},
                 kind : {"sequential", "parallel", "docker"}, advisory : SUBSET CiTasks]
<1>1. Phases \in Seq(R)
  BY CiConstants
<1> HIDE DEF R
<1>2. Phases[i] \in R /\ Len(Phases) \in Nat
  BY <1>1
<1> USE DEF R
<1>3. Phases[i].tasks \in Seq(CiTasks) /\ Phases[i].tasks # <<>>
  BY <1>2
<1>4. /\ Len(Phases[i].tasks) \in Nat \ {0}
      /\ \A a \in 1..Len(Phases[i].tasks) : Phases[i].tasks[a] \in CiTasks
      /\ DOMAIN Phases[i].tasks = 1..Len(Phases[i].tasks)
  BY <1>3
<1>5. Phases[i].kind # "parallel" => Phases[i].advisory = {}
  BY CiConstants
<1>6. QED
  BY <1>2, <1>4, <1>5 DEF TasksOf, ToSet

LEMMA LimitIs == \A limit \in Limits : limit \in Nat
BY CiConstants

LEMMA WidthIs ==
    ASSUME NEW i \in 1..Len(Phases), NEW limit \in Limits
    PROVE  Width(Phases[i], limit) \in Nat \ {0}
<1>1. limit \in Nat /\ Len(Phases[i].tasks) \in Nat \ {0}
  BY LimitIs, PhaseIs
<1>2. QED
  BY <1>1 DEF Width

\* A pool has room for one process at least, and never takes more tasks than it has room for.
LEMMA FilledIs ==
    ASSUME NEW i \in 1..Len(Phases), NEW limit \in Limits, NEW begun \in Nat,
           NEW running \in Nat, begun <= Len(Phases[i].tasks),
           running <= Width(Phases[i], limit)
    PROVE  LET to == Filled(Phases[i], begun, running, limit) IN
           /\ Width(Phases[i], limit) \in Nat \ {0}
           /\ to \in Nat /\ begun <= to /\ to <= Len(Phases[i].tasks)
           /\ running + (to - begun) <= Width(Phases[i], limit)
           /\ to = begun /\ running < Width(Phases[i], limit) => begun = Len(Phases[i].tasks)
<1>1. Len(Phases[i].tasks) \in Nat \ {0}
  BY PhaseIs
<1>2. limit \in Nat
  BY CiConstants
<1>3. Width(Phases[i], limit) \in Nat \ {0}
  BY WidthIs
<1> DEFINE w == Width(Phases[i], limit)
           n == Len(Phases[i].tasks)
<1>4. w \in Nat \ {0} /\ n \in Nat \ {0} /\ begun <= n /\ running <= w
  BY <1>1, <1>3
<1>5. Filled(Phases[i], begun, running, limit)
        = IF w - running < n - begun THEN begun + (w - running) ELSE n
  BY DEF Filled
<1> HIDE DEF w, n
<1>6. QED
  BY <1>4, <1>5, SMTT(20) DEF w, n

\* What a pool takes from its queue.
Batch(p, from, to) == {p.tasks[a] : a \in (from + 1)..to}

LEMMA StartedIs ==
    ASSUME NEW i \in 1..Len(Phases), NEW from \in Nat, NEW to \in Nat,
           from <= to, to <= Len(Phases[i].tasks),
           NEW statuses \in [CiTasks -> Statuses]
    PROVE  /\ Batch(Phases[i], from, to) \subseteq TasksOf(Phases[i])
           /\ Batch(Phases[i], from, to) \subseteq CiTasks
           /\ Cardinality(Batch(Phases[i], from, to)) <= to - from
           /\ Started(statuses, Phases[i], from, to) \in [CiTasks -> Statuses]
           /\ \A t \in CiTasks :
                Started(statuses, Phases[i], from, to)[t]
                  = IF t \in Batch(Phases[i], from, to) THEN "running" ELSE statuses[t]
<1> DEFINE new == Batch(Phases[i], from, to)
           s   == Started(statuses, Phases[i], from, to)
<1>1. \A a \in (from + 1)..to : a \in 1..Len(Phases[i].tasks)
  BY PhaseIs
<1>2. new \subseteq TasksOf(Phases[i]) /\ new \subseteq CiTasks
  BY <1>1, PhaseIs DEF Batch
<1>3. \A t \in CiTasks : (\E a \in (from + 1)..to : Phases[i].tasks[a] = t) <=> t \in new
  BY DEF Batch
<1>4. s = [t \in CiTasks |-> IF t \in new THEN "running" ELSE statuses[t]]
  BY <1>3 DEF Started
<1>5. Cardinality(new) <= to - from
  BY SegmentCardinality DEF Batch
<1> HIDE DEF new, s
<1>6. s \in [CiTasks -> Statuses]
  BY <1>4 DEF Statuses
<1>7. QED
  BY <1>2, <1>4, <1>5, <1>6 DEF new, s

LEMMA EndedIs ==
    ASSUME CiTyped, NEW c \in 0..2
    PROVE  /\ Ended(c) \in CiStates /\ Ended(c).phase = "exited" /\ Ended(c).code = c
           /\ Ended(c).sel = ci.sel /\ Ended(c).at = ci.at /\ Ended(c).taken = ci.taken
BY DEF CiTyped, CiStates, Ended

Moved(phase, i, to) == [ci EXCEPT !.phase = phase, !.at = i, !.taken = to]

LEMMA MovedIs ==
    ASSUME CiTyped, NEW i \in 1..Len(Phases), NEW to \in Nat
    PROVE  /\ Moved("running", i, to) \in CiStates
           /\ Moved("running", i, to).phase = "running"
           /\ Moved("running", i, to).at = i /\ Moved("running", i, to).taken = to
           /\ Moved("running", i, to).sel = ci.sel /\ Moved("running", i, to).limit = ci.limit
<1>1. Len(Phases) \in Nat
  BY CiConstants
<1>2. i \in 0..Len(Phases)
  BY <1>1
<1>3. QED
  BY <1>2 DEF CiTyped, CiStates, Moved

LEMMA CiInitHolds == CiInit => CiInv
<1> SUFFICES ASSUME CiInit PROVE CiInv
  OBVIOUS
<1>1. PICK sel \in Selections, limit \in Limits :
          ci = [sel |-> sel, limit |-> limit, phase |-> "arguments", at |-> 0, taken |-> 0,
                failed |-> "none", code |-> 0, swept |-> FALSE]
  BY DEF CiInit
<1>2. Len(Phases) \in Nat
  BY CiConstants
<1>3. CiTyped
  BY <1>1, <1>2 DEF CiInit, CiTyped, CiStates, Statuses
<1>4. Untouched
  BY <1>1 DEF CiInit, Untouched
<1>5. QED
  BY <1>1, <1>3, <1>4 DEF CiInv

LEMMA ArgumentsKeeps == ASSUME CiInv, Arguments \/ DockerAnswers PROVE CiInv'
<1>1. CiTyped /\ Untouched /\ task' = task
  BY DEF CiInv, Arguments, DockerAnswers
<1>2. \/ \E c \in {1, 2} : ci' = Ended(c)
      \/ ci' = [ci EXCEPT !.phase = "docker"] /\ ~SelectionRefused(ci.sel)
      \/ ci' = [ci EXCEPT !.phase = "between"] /\ ~SelectionRefused(ci.sel)
  BY DEF CiInv, Arguments, DockerAnswers
<1>3. CiTyped' /\ ci'.sel = ci.sel /\ ci'.at = 0
  <2>1. ASSUME NEW c \in {1, 2}, ci' = Ended(c) PROVE ci' \in CiStates /\ ci'.sel = ci.sel /\ ci'.at = 0
    <3>1. c \in 0..2
      OBVIOUS
    <3>2. QED
      BY <1>1, <2>1, <3>1, EndedIs DEF Untouched
  <2>2. ASSUME NEW ph \in {"docker", "between"}, ci' = [ci EXCEPT !.phase = ph]
        PROVE  ci' \in CiStates /\ ci'.sel = ci.sel /\ ci'.at = 0
    BY <1>1, <2>2 DEF CiTyped, CiStates, Untouched
  <2>3. ci' \in CiStates /\ ci'.sel = ci.sel /\ ci'.at = 0
    BY <1>2, <2>1, <2>2
  <2>4. QED
    BY <1>1, <2>3 DEF CiTyped
<1>4. Untouched' /\ InFlight' = {}
  BY <1>1, <1>3 DEF Untouched, InFlight
<1>5. NothingRunsAfterCi'
  BY <1>1 DEF NothingRunsAfterCi, Untouched
<1>6. \A t \in CiTasks : ~Begun(t)'
  BY <1>3 DEF Begun, CiTyped, CiStates
<1>7. ~SelectionRefused(ci.sel) => OnCourse' /\ PhaseOver'
  BY <1>3, <1>4, <1>6 DEF OnCourse, PhaseOver, Untouched
<1>8. /\ ci'.phase # "arguments" /\ ci'.phase # "running" /\ ci'.phase # "settling"
      /\ ci'.phase = "exited" => ci'.code # 0
      /\ ci'.phase \in {"docker", "between"} => ~SelectionRefused(ci.sel)
  <2>1. ASSUME NEW c \in {1, 2}, ci' = Ended(c) PROVE ci'.phase = "exited" /\ ci'.code # 0
    <3>1. c \in 0..2 /\ c # 0
      OBVIOUS
    <3>2. QED
      BY <1>1, <2>1, <3>1, EndedIs
  <2>2. ASSUME NEW ph \in {"docker", "between"}, ci' = [ci EXCEPT !.phase = ph]
        PROVE  ci'.phase = ph
    BY <1>1, <2>2 DEF CiTyped, CiStates
  <2>3. QED
    BY <1>2, <2>1, <2>2
<1>9. QED
  BY <1>3, <1>4, <1>5, <1>7, <1>8 DEF CiInv

LEMMA NextPhaseKeeps == ASSUME CiInv, NextPhase PROVE CiInv'
<1>1. CiTyped /\ OnCourse /\ PhaseOver /\ ci.phase = "between"
  BY DEF CiInv, NextPhase
<1>2. ci.at \in 0..Len(Phases) /\ ci.taken \in Nat /\ Len(Phases) \in Nat
  BY <1>1, CiConstants DEF CiTyped, CiStates
<1>3. CASE /\ SelectedFrom(ci.at + 1) = {} /\ ci' = Ended(0) /\ task' = task
  <2>1. /\ CiTyped' /\ ci'.sel = ci.sel /\ ci'.at = ci.at /\ ci'.taken = ci.taken
        /\ ci'.phase = "exited" /\ ci'.code = 0
    <3>1. 0 \in 0..2
      OBVIOUS
    <3>2. QED
      BY <1>1, <1>3, <3>1, EndedIs DEF CiTyped
  <2>2. \A t \in CiTasks : Begun(t)' <=> Begun(t)
    BY <2>1 DEF Begun
  <2>3. OnCourse'
    BY <1>1, <1>3, <2>1, <2>2 DEF OnCourse
  <2>4. PhaseOver' /\ SelectedFrom(ci.at + 1)' = {}
    BY <1>1, <1>3, <2>1 DEF PhaseOver, InFlight, SelectedFrom, Phase
  <2>5. NothingRunsAfterCi'
    BY <1>3, <2>3, <2>4 DEF OnCourse, PhaseOver, InFlight, NothingRunsAfterCi
  <2>6. QED
    BY <2>1, <2>3, <2>4, <2>5 DEF CiInv
<1>4. CASE \E i \in SelectedFrom(ci.at + 1) :
             LET to == Filled(Phases[i], 0, 0, ci.limit) IN
             /\ \A j \in SelectedFrom(ci.at + 1) : i <= j
             /\ ci' = [ci EXCEPT !.phase = "running", !.at = i, !.taken = to]
             /\ task' = Started(task, Phases[i], 0, to)
  <2>1. PICK i \in SelectedFrom(ci.at + 1) :
             LET to == Filled(Phases[i], 0, 0, ci.limit) IN
             /\ \A j \in SelectedFrom(ci.at + 1) : i <= j
             /\ ci' = [ci EXCEPT !.phase = "running", !.at = i, !.taken = to]
             /\ task' = Started(task, Phases[i], 0, to)
    BY <1>4
  <2> DEFINE to == Filled(Phases[i], 0, 0, ci.limit)
             new == {Phases[i].tasks[a] : a \in 1..to}
  <2>2. i \in 1..Len(Phases) /\ i > ci.at /\ Selected(ci.sel, Phases[i])
    BY <1>2 DEF SelectedFrom
  <2>3. /\ Width(Phases[i], ci.limit) \in Nat \ {0}
        /\ to \in Nat \ {0} /\ to <= Len(Phases[i].tasks)
        /\ to <= Width(Phases[i], ci.limit) /\ Len(Phases[i].tasks) \in Nat \ {0}
    <3>1. ci.limit \in Limits /\ Len(Phases[i].tasks) \in Nat \ {0}
      BY <1>1, <2>2, PhaseIs DEF CiTyped, CiStates
    <3>2. Width(Phases[i], ci.limit) \in Nat \ {0}
      BY <2>2, <3>1, WidthIs
    <3>0. 0 \in Nat /\ 0 <= Len(Phases[i].tasks) /\ 0 <= Width(Phases[i], ci.limit)
      BY <3>1, <3>2
    <3> HIDE DEF to
    <3>3. /\ to \in Nat /\ 0 <= to /\ to <= Len(Phases[i].tasks)
          /\ 0 + (to - 0) <= Width(Phases[i], ci.limit)
          /\ to = 0 /\ 0 < Width(Phases[i], ci.limit) => 0 = Len(Phases[i].tasks)
      BY <2>2, <3>0, <3>1, <3>2, FilledIs DEF to
    <3>4. QED
      BY <3>1, <3>2, <3>3
  <2>4. /\ ci' = [ci EXCEPT !.phase = "running", !.at = i, !.taken = to]
        /\ task' = Started(task, Phases[i], 0, to)
    BY <2>1
  <2> HIDE DEF to
  <2>5. /\ new \subseteq TasksOf(Phases[i]) /\ new \subseteq CiTasks
        /\ Cardinality(new) <= to
        /\ task' \in [CiTasks -> Statuses]
        /\ \A t \in CiTasks : task'[t] = IF t \in new THEN "running" ELSE task[t]
    <3>1. new = Batch(Phases[i], 0, to)
      BY DEF Batch
    <3> HIDE DEF new
    <3>2. task \in [CiTasks -> Statuses] /\ 0 \in Nat /\ to \in Nat /\ 0 <= to /\ to - 0 = to
      BY <1>1, <2>3 DEF CiTyped
    <3>3. i \in 1..Len(Phases) /\ to <= Len(Phases[i].tasks)
      BY <2>2, <2>3
    <3>4. /\ Batch(Phases[i], 0, to) \subseteq TasksOf(Phases[i])
          /\ Batch(Phases[i], 0, to) \subseteq CiTasks
      BY <3>2, <3>3, StartedIs
    <3>5. Cardinality(Batch(Phases[i], 0, to)) <= to - 0
      BY <3>2, <3>3, StartedIs
    <3>6. Started(task, Phases[i], 0, to) \in [CiTasks -> Statuses]
      BY <3>2, <3>3, StartedIs
    <3>7. \A t \in CiTasks :
               Started(task, Phases[i], 0, to)[t]
                 = IF t \in Batch(Phases[i], 0, to) THEN "running" ELSE task[t]
      BY <3>2, <3>3, StartedIs
    <3>8. QED
      BY <2>4, <3>1, <3>2, <3>4, <3>5, <3>6, <3>7
  <2>6. /\ CiTyped' /\ ci'.sel = ci.sel /\ ci'.at = i /\ ci'.taken = to /\ ci'.limit = ci.limit
        /\ ci'.phase = "running"
    <3>1. i \in 1..Len(Phases) /\ to \in Nat
      BY <2>2, <2>3
    <3>2. ci' = Moved("running", i, to)
      BY <2>4 DEF Moved
    <3>3. QED
      BY <1>1, <2>5, <3>1, <3>2, MovedIs DEF CiTyped
  <2>7. ASSUME NEW t \in CiTasks PROVE Begun(t)' <=> Begun(t) \/ t \in new
    <3>1. ASSUME Begun(t)' PROVE Begun(t) \/ t \in new
      <4>1. PICK j \in 1..Len(Phases) : \E a \in 1..Len(Phases[j].tasks) :
              /\ Phases[j].tasks[a] = t /\ Selected(ci.sel, Phases[j])
              /\ j < i \/ (j = i /\ a <= to)
        BY <2>6, <3>1 DEF Begun
      <4>0. PICK a \in 1..Len(Phases[j].tasks) :
              /\ Phases[j].tasks[a] = t /\ Selected(ci.sel, Phases[j])
              /\ j < i \/ (j = i /\ a <= to)
        BY <4>1
      <4>2. CASE j = i
        BY <2>3, <4>0, <4>2
      <4>3. CASE j < i
        <5>1. j \notin SelectedFrom(ci.at + 1)
          BY <2>1, <2>2, <4>3
        <5>2. j <= ci.at
          BY <1>2, <4>0, <5>1 DEF SelectedFrom
        <5>3. j = ci.at => a <= ci.taken
          BY <1>1, <1>2, PhaseIs, <4>0 DEF PhaseOver, Phase
        <5>4. QED
          BY <1>2, <4>0, <5>2, <5>3 DEF Begun
      <4>4. QED
        BY <4>0, <4>2, <4>3
    <3>2. ASSUME Begun(t) PROVE Begun(t)'
      BY <2>2, <2>6, <3>2, <1>2 DEF Begun
    <3>3. ASSUME t \in new PROVE Begun(t)'
      <4>1. PICK a \in 1..to : Phases[i].tasks[a] = t
        BY <3>3
      <4>2. a \in 1..Len(Phases[i].tasks) /\ a <= to
        BY <2>3, <4>1
      <4>3. QED
        BY <2>2, <2>6, <4>1, <4>2 DEF Begun
    <3>4. QED
      BY <3>1, <3>2, <3>3
  <2>8. OnCourse'
    BY <1>1, <2>5, <2>6, <2>7 DEF OnCourse
  <2>9. InFlight' = new
    <3>1. \A t \in CiTasks : task[t] # "running"
      BY <1>1 DEF PhaseOver, InFlight
    <3>2. QED
      BY <2>5, <3>1 DEF InFlight
  <2>10. Phases[i].tasks[1] \in new
    BY <2>3
  <2>11. Cardinality(new) \in Nat
    BY <2>5, CiConstants, FS_Subset, FS_CardinalityType
  <2>12. PoolFits'
    <3>1. Phase' = Phases[i]
      BY <2>6 DEF Phase
    <3>2. Cardinality(new) <= Width(Phases[i], ci.limit)
      BY <2>3, <2>5, <2>11
    <3>3. QED
      BY <1>2, <2>2, <2>3, <2>5, <2>6, <2>9, <2>10, <3>1, <3>2 DEF PoolFits
  <2>13. QED
    BY <2>6, <2>8, <2>12 DEF CiInv
<1>5. QED
  BY <1>3, <1>4 DEF NextPhase

LEMMA TaskPassesKeeps ==
    ASSUME CiInv, NEW t \in CiTasks, TaskPasses(t)
    PROVE  CiInv'
<1>1. CiTyped /\ OnCourse /\ PoolFits /\ ci.phase = "running" /\ task[t] = "running"
  BY DEF CiInv, TaskPasses
<1> DEFINE i == ci.at
           running == Cardinality(InFlight) - 1
           to == Filled(Phases[i], ci.taken, running, ci.limit)
           new == Batch(Phases[i], ci.taken, to)
<1>2. /\ i \in 1..Len(Phases) /\ ci.taken \in Nat /\ ci.limit \in Limits
      /\ ci.taken <= Len(Phases[i].tasks) /\ Phase = Phases[i] /\ Len(Phases) \in Nat
      /\ Len(Phases[i].tasks) \in Nat \ {0}
      /\ Width(Phases[i], ci.limit) \in Nat \ {0}
  <2>1. Len(Phases) \in Nat
    BY CiConstants
  <2>2. /\ i \in 1..Len(Phases) /\ ci.taken \in Nat /\ ci.limit \in Limits
        /\ ci.taken <= Len(Phases[i].tasks) /\ Phase = Phases[i]
    BY <1>1, <2>1 DEF CiTyped, CiStates, PoolFits, Phase
  <2>3. QED
    BY <2>1, <2>2, PhaseIs, WidthIs
<1>3. /\ IsFiniteSet(InFlight) /\ t \in InFlight
      /\ Cardinality(InFlight \ {t}) = running /\ running \in Nat
      /\ running < Width(Phases[i], ci.limit)
      /\ IsFiniteSet(InFlight \ {t})
  <2>1. IsFiniteSet(InFlight) /\ t \in InFlight
    BY <1>1, CiConstants, FS_Subset DEF InFlight
  <2>2. /\ IsFiniteSet(InFlight \ {t}) /\ Cardinality(InFlight \ {t}) = running
    BY <2>1, FS_RemoveElement
  <2>3. Cardinality(InFlight \ {t}) \in Nat /\ Cardinality(InFlight) \in Nat
    BY <2>1, <2>2, FS_CardinalityType
  <2>4. Cardinality(InFlight) <= Width(Phases[i], ci.limit)
    BY <1>1, <1>2 DEF PoolFits
  <2>5. QED
    BY <1>2, <2>1, <2>2, <2>3, <2>4
<1>4. PICK result \in {"passed", "warned"} :
        /\ result = "warned" => t \in Phases[i].advisory
        /\ task' = Started([task EXCEPT ![t] = result], Phases[i], ci.taken, to)
        /\ ci' = [ci EXCEPT !.taken = to,
                    !.phase = IF InFlight = {t} /\ to = ci.taken THEN "between" ELSE @]
  BY <1>2 DEF TaskPasses, Advisory
<1> DEFINE done == [task EXCEPT ![t] = result]
<1>5. done \in [CiTasks -> Statuses]
        /\ \A u \in CiTasks : done[u] = IF u = t THEN result ELSE task[u]
  BY <1>1 DEF CiTyped, Statuses
<1> HIDE DEF i, running
<1>6. to \in Nat /\ ci.taken <= to /\ to <= Len(Phases[i].tasks)
  BY <1>2, <1>3, FilledIs
<1>7. running + (to - ci.taken) <= Width(Phases[i], ci.limit)
  BY <1>2, <1>3, FilledIs, SMTT(20)
<1>8. to = ci.taken => ci.taken = Len(Phases[i].tasks)
  <2>1. running <= Width(Phases[i], ci.limit)
    BY <1>2, <1>3
  <2>2. LET filled == Filled(Phases[i], ci.taken, running, ci.limit) IN
        filled = ci.taken /\ running < Width(Phases[i], ci.limit)
          => ci.taken = Len(Phases[i].tasks)
    BY <1>2, <1>3, <2>1, FilledIs
  <2>3. QED
    BY <1>3, <2>2
<1> HIDE DEF to, new, done
<1>9. new \subseteq TasksOf(Phases[i]) /\ new \subseteq CiTasks
  BY <1>2, <1>5, <1>6, StartedIs DEF new
<1>10. Cardinality(new) <= to - ci.taken
  BY <1>2, <1>5, <1>6, StartedIs DEF new
<1>11. task' = Started(done, Phases[i], ci.taken, to)
  BY <1>4 DEF done
<1>12. task' \in [CiTasks -> Statuses]
  BY <1>2, <1>5, <1>6, <1>11, StartedIs
<1>13. \A u \in CiTasks : task'[u] = IF u \in new THEN "running" ELSE done[u]
  BY <1>2, <1>5, <1>6, <1>11, StartedIs DEF new
<1>14. /\ CiTyped' /\ ci'.sel = ci.sel /\ ci'.at = i /\ ci'.taken = to /\ ci'.limit = ci.limit
       /\ ci'.phase = IF InFlight = {t} /\ to = ci.taken THEN "between" ELSE "running"
  <2>1. ci' = [ci EXCEPT !.taken = to,
                 !.phase = IF InFlight = {t} /\ to = ci.taken THEN "between" ELSE @]
    BY <1>4
  <2>2. ci \in CiStates
    BY <1>1 DEF CiTyped
  <2>3. ci' \in CiStates
    BY <1>6, <2>1, <2>2 DEF CiStates
  <2>4. /\ ci'.sel = ci.sel /\ ci'.at = i /\ ci'.taken = to /\ ci'.limit = ci.limit
        /\ ci'.phase = IF InFlight = {t} /\ to = ci.taken THEN "between" ELSE "running"
    BY <1>1, <2>1, <2>2 DEF CiStates, i
  <2>5. QED
    BY <1>12, <2>3, <2>4 DEF CiTyped
<1>15. InFlight' = (InFlight \ {t}) \cup new
  BY <1>4, <1>5, <1>9, <1>13 DEF InFlight
<1>16. Begun(t)
  BY <1>1 DEF OnCourse
<1>17. ASSUME NEW u \in CiTasks PROVE Begun(u)' <=> Begun(u) \/ u \in new
  <2>1. ASSUME Begun(u)' PROVE Begun(u) \/ u \in new
    <3>1. PICK j \in 1..Len(Phases) : \E a \in 1..Len(Phases[j].tasks) :
            /\ Phases[j].tasks[a] = u /\ Selected(ci.sel, Phases[j])
            /\ j < i \/ (j = i /\ a <= to)
      BY <1>14, <2>1 DEF Begun
    <3>2. PICK a \in 1..Len(Phases[j].tasks) :
            /\ Phases[j].tasks[a] = u /\ Selected(ci.sel, Phases[j])
            /\ j < i \/ (j = i /\ a <= to)
      BY <3>1
    <3>3. CASE j < i \/ a <= ci.taken
      BY <3>2, <3>3 DEF Begun, i
    <3>4. CASE j = i /\ a > ci.taken
      BY <1>2, <1>6, <3>2, <3>4 DEF Batch, new
    <3>5. QED
      BY <1>2, <3>2, <3>3, <3>4
  <2>2. ASSUME Begun(u) PROVE Begun(u)'
    BY <1>2, <1>6, <1>14, <2>2 DEF Begun, i
  <2>3. ASSUME u \in new PROVE Begun(u)'
    <3>1. PICK a \in (ci.taken + 1)..to : Phases[i].tasks[a] = u
      BY <2>3 DEF new, Batch
    <3>2. a \in 1..Len(Phases[i].tasks) /\ a <= to
      BY <1>2, <1>6, <3>1
    <3>3. Selected(ci.sel, Phases[i])
      BY <1>1, <1>2 DEF PoolFits
    <3>4. QED
      BY <1>2, <1>14, <3>1, <3>2, <3>3 DEF Begun
  <2>4. QED
    BY <2>1, <2>2, <2>3
<1>18. OnCourse'
  <2>1. ~SelectionRefused(ci.sel)'
    BY <1>1, <1>14 DEF OnCourse
  <2>2. ASSUME NEW u \in CiTasks
        PROVE  /\ task'[u] \in {"waiting", "running", "passed", "warned"}
               /\ task'[u] # "waiting" <=> Begun(u)'
               /\ task'[u] = "warned" => \E j \in 1..Len(Phases) : u \in Phases[j].advisory
    <3>1. CASE u \in new
      BY <1>13, <1>17, <3>1
    <3>2. CASE u \notin new /\ u = t
      BY <1>2, <1>4, <1>5, <1>13, <1>16, <1>17, <3>2
    <3>3. CASE u \notin new /\ u # t
      BY <1>1, <1>5, <1>13, <1>17, <3>3 DEF OnCourse
    <3>4. QED
      BY <3>1, <3>2, <3>3
  <2>3. QED
    BY <2>1, <2>2 DEF OnCourse
<1>19. CASE InFlight = {t} /\ to = ci.taken
  <2>1. new = {}
    BY <1>2, <1>19 DEF new, Batch
  <2>2. PhaseOver'
    BY <1>2, <1>8, <1>14, <1>15, <1>19, <2>1 DEF PhaseOver, Phase
  <2>3. QED
    BY <1>14, <1>18, <1>19, <2>2 DEF CiInv
<1>20. CASE ~(InFlight = {t} /\ to = ci.taken)
  <2>1. (InFlight \ {t}) \cup new # {}
    <3>1. CASE to = ci.taken
      BY <1>3, <1>20, <3>1
    <3>2. CASE to # ci.taken
      <4>1. to \in (ci.taken + 1)..to
        BY <1>2, <1>6, <3>2
      <4>2. Phases[i].tasks[to] \in new
        BY <4>1 DEF new, Batch
      <4>3. QED
        BY <4>2
    <3>3. QED
      BY <3>1, <3>2
  <2>2. (InFlight \ {t}) \cup new \subseteq TasksOf(Phases[i])
    BY <1>1, <1>2, <1>9 DEF PoolFits
  <2>3. IsFiniteSet(new) /\ Cardinality(new) \in Nat
    BY <1>9, CiConstants, FS_Subset, FS_CardinalityType
  <2>4. Cardinality((InFlight \ {t}) \cup new) <= running + Cardinality(new)
    <3>1. Cardinality((InFlight \ {t}) \cup new)
            = Cardinality(InFlight \ {t}) + Cardinality(new) - Cardinality((InFlight \ {t}) \cap new)
      BY <1>3, <2>3, FS_Union
    <3>2. Cardinality((InFlight \ {t}) \cap new) \in Nat
      BY <1>3, FS_Intersection, FS_CardinalityType
    <3>3. Cardinality(InFlight \ {t}) = running /\ running \in Nat
      BY <1>3
    <3>4. QED
      BY <2>3, <3>1, <3>2, <3>3
  <2>5. Cardinality((InFlight \ {t}) \cup new) <= Width(Phases[i], ci.limit)
    <3>1. Cardinality((InFlight \ {t}) \cup new) \in Nat
      BY <1>3, <2>3, FS_Union, FS_CardinalityType
    <3>2. running \in Nat /\ ci.taken \in Nat /\ Width(Phases[i], ci.limit) \in Nat
      BY <1>2, <1>3
    <3>3. QED
      BY <1>6, <1>7, <1>10, <2>3, <2>4, <3>1, <3>2
  <2>6. PoolFits'
    <3>1. Phase' = Phases[i]
      BY <1>14 DEF Phase
    <3>2. Selected(ci.sel, Phases[i])
      BY <1>1, <1>2 DEF PoolFits
    <3>3. QED
      BY <1>2, <1>6, <1>14, <1>15, <2>1, <2>2, <2>5, <3>1, <3>2 DEF PoolFits
  <2>7. QED
    BY <1>14, <1>18, <1>20, <2>6 DEF CiInv
<1>21. QED
  BY <1>19, <1>20

LEMMA TaskFailsKeeps ==
    ASSUME CiInv, NEW t \in CiTasks, TaskFails(t)
    PROVE  CiInv'
<1>1. CiTyped /\ OnCourse /\ PoolFits /\ ci.phase = "running" /\ task[t] = "running"
  BY DEF CiInv, TaskFails
<1>2. task' = [u \in CiTasks |-> IF u = t THEN "failed"
                                 ELSE IF task[u] = "running" THEN "killed" ELSE task[u]]
  BY DEF TaskFails
<1>3. task' \in [CiTasks -> Statuses] /\ InFlight' = {}
  BY <1>1, <1>2 DEF CiTyped, Statuses, InFlight
<1>4. CASE Phase.kind = "parallel"
  <2>1. ci' = [ci EXCEPT !.phase = "settling", !.failed = t]
    BY <1>4 DEF TaskFails
  <2>2. ci \in CiStates
    BY <1>1 DEF CiTyped
  <2>3. ci' \in CiStates /\ ci'.phase = "settling"
    BY <2>1, <2>2 DEF CiStates
  <2>4. QED
    BY <1>3, <2>3 DEF CiInv, CiTyped
<1>5. CASE Phase.kind # "parallel"
  <2>1. ci' = [Ended(1) EXCEPT !.failed = t]
    BY <1>5 DEF TaskFails
  <2>2. 1 \in 0..2
    OBVIOUS
  <2>3. Ended(1) \in CiStates /\ Ended(1).phase = "exited" /\ Ended(1).code = 1
    BY <1>1, <2>2, EndedIs
  <2>4. ci' \in CiStates /\ ci'.phase = "exited" /\ ci'.code = 1
    BY <2>1, <2>3 DEF CiStates
  <2>5. \A u \in CiTasks : task[u] = "running" => u = t
    <3>1. ci.at \in 1..Len(Phases)
      BY <1>1, CiConstants DEF CiTyped, CiStates, PoolFits
    <3>2. Cardinality(InFlight) <= 1
      BY <1>1, <1>5 DEF PoolFits, Width
    <3>3. IsFiniteSet(InFlight) /\ t \in InFlight
      BY <1>1, CiConstants, FS_Subset DEF InFlight
    <3>4. Cardinality(InFlight \ {t}) = Cardinality(InFlight) - 1
            /\ IsFiniteSet(InFlight \ {t})
      BY <3>3, FS_RemoveElement
    <3>5. Cardinality(InFlight) \in Nat /\ Cardinality(InFlight \ {t}) \in Nat
      BY <3>3, <3>4, FS_CardinalityType
    <3>6. Cardinality(InFlight \ {t}) = 0
      BY <3>2, <3>4, <3>5
    <3>7. InFlight \ {t} = {}
      BY <3>4, <3>6, FS_EmptySet
    <3>8. QED
      BY <3>7 DEF InFlight
  <2>6. \A u \in CiTasks : task'[u] \notin {"running", "killed", "gone"}
    BY <1>1, <1>2, <2>5 DEF OnCourse
  <2>7. NothingRunsAfterCi'
    BY <2>6 DEF NothingRunsAfterCi
  <2>8. QED
    BY <1>3, <2>4, <2>7 DEF CiInv, CiTyped
<1>6. QED
  BY <1>4, <1>5

LEMMA SettlingKeeps ==
    ASSUME CiInv, Sweep \/ \E t \in CiTasks : KilledEnds(t)
    PROVE  CiInv'
<1>1. CiTyped /\ ci.phase = "settling" /\ InFlight = {}
  BY DEF CiInv, Sweep, KilledEnds
<1>2. ASSUME NEW t \in CiTasks, KilledEnds(t) PROVE CiInv'
  <2>1. task' = [task EXCEPT ![t] = "gone"] /\ ci' = ci
    BY <1>2 DEF KilledEnds
  <2>2. task' \in [CiTasks -> Statuses] /\ InFlight' = {}
    BY <1>1, <2>1 DEF CiTyped, Statuses, InFlight
  <2>3. QED
    BY <1>1, <2>1, <2>2 DEF CiInv, CiTyped
<1>3. ASSUME Sweep PROVE CiInv'
  <2>1. ci' = [Ended(1) EXCEPT !.swept = TRUE] /\ task' = task
    BY <1>3 DEF Sweep
  <2>2. 1 \in 0..2
    OBVIOUS
  <2>3. Ended(1) \in CiStates /\ Ended(1).phase = "exited" /\ Ended(1).code = 1
    BY <1>1, <2>2, EndedIs
  <2>4. ci' \in CiStates /\ ci'.phase = "exited" /\ ci'.code = 1 /\ ci'.swept = TRUE
    BY <2>1, <2>3 DEF CiStates
  <2>5. NothingRunsAfterCi'
    BY <1>1, <1>3, <2>1, <2>4 DEF NothingRunsAfterCi, Sweep, InFlight
  <2>6. QED
    BY <1>1, <2>1, <2>4, <2>5 DEF CiInv, CiTyped
<1>4. QED
  BY <1>2, <1>3

LEMMA CiStep == CiInv /\ [CiNext]_ciVars => CiInv'
<1> SUFFICES ASSUME CiInv, [CiNext]_ciVars PROVE CiInv'
  OBVIOUS
<1>1. CASE UNCHANGED ciVars
  <2>1. ci' = ci /\ task' = task
    BY <1>1 DEF ciVars
  <2>2. \A t \in CiTasks : Begun(t)' <=> Begun(t)
    BY <2>1 DEF Begun
  <2>3. /\ CiTyped' <=> CiTyped
        /\ Untouched' <=> Untouched
        /\ PhaseOver' <=> PhaseOver
        /\ PoolFits' <=> PoolFits
        /\ InFlight' = InFlight
        /\ SelectedFrom(ci.at + 1)' = SelectedFrom(ci.at + 1)
        /\ NothingRunsAfterCi' <=> NothingRunsAfterCi
    BY <2>1 DEF CiTyped, Untouched, PhaseOver, PoolFits, InFlight, SelectedFrom, Phase,
                NothingRunsAfterCi
  <2>4. OnCourse' <=> OnCourse
    BY <2>1, <2>2 DEF OnCourse
  <2>5. QED
    BY <2>1, <2>3, <2>4 DEF CiInv
<1>2. QED
  BY <1>1, ArgumentsKeeps, NextPhaseKeeps, TaskPassesKeeps, TaskFailsKeeps, SettlingKeeps
     DEF CiNext

\* The phases that were asked for are those that are selected.
LEMMA WantedIs ==
    ASSUME NEW sel \in Selections, ~SelectionRefused(sel)
    PROVE  Wanted(sel) = UNION {TasksOf(Phases[i]) : i \in
                            {i \in 1..Len(Phases) : Selected(sel, Phases[i])}}
<1>1. ASSUME NEW i \in 1..Len(Phases)
      PROVE  /\ sel.phase \in {NoPhase, Phases[i].name}
             /\ sel.noDocker => Phases[i].kind # "docker"
             /\ sel.dockerOnly => Phases[i].kind = "docker"
             <=> Selected(sel, Phases[i])
  <2>1. Phases[i].name # NoPhase
    BY PhaseIs DEF NoPhase
  <2>2. CASE sel.phase = NoPhase
    BY <2>2 DEF Selected, Excluded, Docker
  <2>3. CASE sel.phase # NoPhase
    BY <2>3 DEF Selected, Excluded, Docker, SelectionRefused
  <2>4. QED
    BY <2>2, <2>3
<1>2. QED
  BY <1>1 DEF Wanted

LEMMA CiHonest == CiInv => GateIsHonest
<1> SUFFICES ASSUME CiInv PROVE GateIsHonest
  OBVIOUS
<1>1. CiTyped
  BY DEF CiInv
<1>2. NothingRunsAfterCi
  BY DEF CiInv, NothingRunsAfterCi
<1>3. PassedMeansAllRan
  <2>1. SUFFICES ASSUME ci.phase = "exited", ci.code = 0, NEW t \in CiTasks
                 PROVE  IF t \in Wanted(ci.sel)
                        THEN \/ task[t] = "passed"
                             \/ /\ task[t] = "warned"
                                /\ \E i \in 1..Len(Phases) : t \in Phases[i].advisory
                        ELSE task[t] = "waiting"
    BY DEF PassedMeansAllRan
  <2>2. OnCourse /\ PhaseOver /\ SelectedFrom(ci.at + 1) = {}
    BY <2>1 DEF CiInv
  <2>3. ci.sel \in Selections /\ ~SelectionRefused(ci.sel)
          /\ ci.at \in 0..Len(Phases) /\ Len(Phases) \in Nat
    BY <1>1, <2>2, CiConstants DEF CiTyped, CiStates, OnCourse
  <2>4. t \in Wanted(ci.sel)
          <=> \E i \in 1..Len(Phases) : Selected(ci.sel, Phases[i]) /\ t \in TasksOf(Phases[i])
    BY <2>3, WantedIs
  <2>5. ASSUME NEW i \in 1..Len(Phases), Selected(ci.sel, Phases[i]) PROVE i <= ci.at
    BY <2>2, <2>3, <2>5 DEF SelectedFrom
  <2>6. t \in Wanted(ci.sel) <=> Begun(t)
    <3>1. ASSUME t \in Wanted(ci.sel) PROVE Begun(t)
      <4>1. PICK i \in 1..Len(Phases) : Selected(ci.sel, Phases[i]) /\ t \in TasksOf(Phases[i])
        BY <2>4, <3>1
      <4>2. PICK a \in 1..Len(Phases[i].tasks) : Phases[i].tasks[a] = t
        <5>1. TasksOf(Phases[i]) = {Phases[i].tasks[a] : a \in 1..Len(Phases[i].tasks)}
          BY PhaseIs
        <5>2. QED
          BY <4>1, <5>1
      <4>3. i <= ci.at
        BY <2>5, <4>1
      <4>4. i = ci.at => a <= ci.taken
        BY <2>2, <2>3, <4>2, PhaseIs DEF PhaseOver, Phase
      <4>5. QED
        BY <2>3, <4>1, <4>2, <4>3, <4>4 DEF Begun
    <3>2. ASSUME Begun(t) PROVE t \in Wanted(ci.sel)
      BY <2>4, <3>2, PhaseIs DEF Begun
    <3>3. QED
      BY <3>1, <3>2
  <2>7. QED
    BY <2>2, <2>6 DEF OnCourse, PhaseOver, InFlight
<1>4. WithinTheWidth
  <2>1. SUFFICES ASSUME ci.phase = "running"
                 PROVE  /\ InFlight \subseteq TasksOf(Phase)
                        /\ Phase.kind # "parallel" => Cardinality(InFlight) = 1
                        /\ ci.limit > 0 => Cardinality(InFlight) <= ci.limit
    BY DEF WithinTheWidth
  <2>2. PoolFits /\ ci.limit \in Nat
    BY <1>1, <2>1, LimitIs DEF CiInv, CiTyped, CiStates
  <2>3. IsFiniteSet(InFlight)
    BY CiConstants, FS_Subset DEF InFlight
  <2>4. Cardinality(InFlight) \in Nat /\ Cardinality(InFlight) # 0
    BY <2>2, <2>3, FS_CardinalityType, FS_EmptySet DEF PoolFits
  <2>5. QED
    BY <2>2, <2>4 DEF PoolFits, Width
<1>5. QED
  BY <1>2, <1>3, <1>4 DEF GateIsHonest

\* The gate is honest, whatever its phases, its selection, the width of its pools and the
\* order in which processes end: green means that every task asked for has run.
THEOREM GateHonest == CiSpec => []GateIsHonest
<1>1. CiInv => GateIsHonest
  BY CiHonest
<1>2. QED
  BY CiInitHolds, CiStep, <1>1, PTL DEF CiSpec

\* The gate and its tasks keep their types: it is in no phase beyond its last, it exits
\* with one of its three codes, and a task has a status of its own.
THEOREM CiTypes == CiSpec => []CiTypeOK
<1>1. CiInv => CiTypeOK
  BY DEF CiInv, CiTyped, CiStates, CiTypeOK
<1>2. QED
  BY CiInitHolds, CiStep, <1>1, PTL DEF CiSpec

-----------------------------------------------------------------------------
(***************************************************************************)
(* The smoke run, for any surfaces, groups and probes, and any moment of   *)
(* an interrupt: what it started it tears down, once, and an exit code of  *)
(* 0 means that every probe that sees the surface was sent and none        *)
(* failed.  The invariant says which probes the workers have taken, that   *)
(* no more of them are under way than the pool of their group allows, and  *)
(* who has called for the teardown and how far it is.                      *)
(***************************************************************************)

SmokeStates ==
    [surface : Surfaces, suite : Suites,
     phase : {"starting", "booting", "probing", "conformance", "reporting", "leaving", "exited"},
     group : 0..Len(Groups), next : Nat \ {0}, handlers : SUBSET SmokeSignals,
     interrupts : Nat, calls : Nat, conforms : BOOLEAN, code : {-1, 0, 1, 130},
     started : BOOLEAN]

ProbeStates == [state : {"waiting", "sending", "passed", "failed", "skipped"}, sent : 0..3]

SmokeTyped ==
    /\ smoke \in SmokeStates
    /\ probe \in [Probes -> ProbeStates]
    /\ server \in [state : {"none", "up", "partial", "down"}, orphans : BOOLEAN]
    /\ down \in [by : {"nobody", "run", "handler"}, step : {"stop", "clean", "done"},
                 leave : {0, 1, 130}, failed : SUBSET {"compose-down", "clean"}]

\* What a worker has taken: the probes this surface sees, before the place of the run.
SentSoFar(p) ==
    /\ Sees(smoke, p)
    /\ \E k \in 1..Len(Groups) : \E a \in 1..Len(Groups[k].probes) :
          /\ Groups[k].probes[a] = p
          /\ k < smoke.group \/ (k = smoke.group /\ a < smoke.next)

InStep ==
    \A p \in Probes : /\ probe[p].state # "waiting" <=> SentSoFar(p)
                      /\ probe[p].state = "waiting" => probe[p].sent = 0

\* What is under way is of the group under way, and fits its pool.
SendingFits ==
    Sending # {} => /\ smoke.group > 0
                    /\ \A p \in Sending : \E a \in 1..Len(Group.probes) : Group.probes[a] = p
                    /\ Cardinality(Sending) <= Workers(Group)

\* Every probe that this surface sees has its verdict.
Judged ==
    /\ Sending = {}
    /\ \A p \in Probes : probe[p].state # "waiting" <=> Sees(smoke, p)

Green == Judged /\ smoke.conforms /\ \A p \in Probes : probe[p].state # "failed"

EndsGreen ==
    /\ smoke.phase \in {"conformance", "reporting"} => Judged
    /\ down.by = "run" /\ down.leave = 0 => Green
    /\ smoke.phase = "exited" /\ smoke.code = 0 => Green

\* Who has called for the teardown, and how far it is.
TeardownInv ==
    /\ smoke.phase = "starting" => /\ smoke.handlers = {} /\ smoke.calls = 0
                                   /\ server.state = "none"
    /\ smoke.phase # "exited" => /\ smoke.started
                                 /\ down.by = "nobody" <=> smoke.calls = 0
    /\ smoke.phase \notin {"starting", "exited"} /\ smoke.calls = 0 =>
          smoke.handlers = SmokeSignals
    /\ down.by = "nobody" => down.step = "stop"
    /\ down.by = "run" => smoke.phase \in {"leaving", "exited"}
    /\ down.by = "handler" => down.leave = 130
    /\ smoke.phase # "exited" =>
          /\ down.step = "stop" => server.state \in {"none", "up"} /\ ~server.orphans
          /\ down.step # "stop" => server.state \in {"none", "down"} \/ "compose-down" \in down.failed
          /\ down.step = "done" => ~server.orphans \/ "clean" \in down.failed
    /\ SmokeLeavesNothing

SmokeInv == SmokeTyped /\ InStep /\ SendingFits /\ EndsGreen /\ TeardownInv

LEMMA GroupIs ==
    ASSUME NEW k \in 1..Len(Groups)
    PROVE  /\ Len(Groups) \in Nat
           /\ Groups[k].serial \in BOOLEAN
           /\ Len(Groups[k].probes) \in Nat
           /\ \A a \in 1..Len(Groups[k].probes) : Groups[k].probes[a] \in Probes
           /\ ToSet(Groups[k].probes) = {Groups[k].probes[a] : a \in 1..Len(Groups[k].probes)}
           /\ Workers(Groups[k]) \in Nat \ {0}
<1> DEFINE R == [name : Suites \cup {"checks"}, serial : BOOLEAN, probes : Seq(DOMAIN ProbeOn)]
<1>1. Groups \in Seq(R)
  BY SmokeConstants
<1> HIDE DEF R
<1>2. Groups[k] \in R /\ Len(Groups) \in Nat
  BY <1>1
<1> USE DEF R
<1>3. Groups[k].probes \in Seq(DOMAIN ProbeOn) /\ Groups[k].serial \in BOOLEAN
  BY <1>2
<1>4. Len(Groups[k].probes) \in Nat /\ DOMAIN Groups[k].probes = 1..Len(Groups[k].probes)
  BY <1>3
<1>5. ToSet(Groups[k].probes) = {Groups[k].probes[a] : a \in 1..Len(Groups[k].probes)}
  BY <1>4 DEF ToSet
<1>6. ToSet(Groups[k].probes) \subseteq Probes
  BY DEF Probes
<1>7. Workers(Groups[k]) \in Nat \ {0}
  BY SmokeConstants DEF Workers
<1>8. QED
  BY <1>2, <1>3, <1>4, <1>5, <1>6, <1>7

LEMMA ProbePlace ==
    ASSUME NEW p \in Probes
    PROVE  /\ p \in DOMAIN ProbeOn
           /\ \E k \in 1..Len(Groups) : \E a \in 1..Len(Groups[k].probes) : Groups[k].probes[a] = p
<1>1. PICK k \in 1..Len(Groups) : p \in ToSet(Groups[k].probes)
  BY DEF Probes
<1>2. ToSet(Groups[k].probes) = {Groups[k].probes[a] : a \in 1..Len(Groups[k].probes)}
  BY GroupIs
<1>3. PICK a \in 1..Len(Groups[k].probes) : Groups[k].probes[a] = p
  BY <1>1, <1>2
<1> DEFINE R == [name : Suites \cup {"checks"}, serial : BOOLEAN, probes : Seq(DOMAIN ProbeOn)]
<1>4. Groups \in Seq(R)
  BY SmokeConstants
<1> HIDE DEF R
<1>5. Groups[k] \in R
  BY <1>4
<1> USE DEF R
<1>6. Groups[k].probes \in Seq(DOMAIN ProbeOn)
  BY <1>5
<1>7. p \in DOMAIN ProbeOn
  BY <1>3, <1>6
<1>8. QED
  BY <1>3, <1>7

LEMMA SmokeInitHolds == SmokeInit => SmokeInv
<1> SUFFICES ASSUME SmokeInit PROVE SmokeInv
  OBVIOUS
<1>1. PICK surface \in Surfaces, suite \in Suites :
          smoke = [surface |-> surface, suite |-> suite, phase |-> "starting", group |-> 0, next |-> 1,
                   handlers |-> {}, interrupts |-> 0, calls |-> 0, conforms |-> TRUE,
                   code |-> -1, started |-> TRUE]
  BY DEF SmokeInit
<1>2. Len(Groups) \in Nat
  BY SmokeConstants
<1>3. SmokeTyped
  BY <1>1, <1>2 DEF SmokeInit, SmokeTyped, SmokeStates, ProbeStates
<1>4. InStep
  <2>1. \A p \in Probes : ~SentSoFar(p)
    BY <1>1 DEF SentSoFar
  <2>2. QED
    BY <2>1 DEF SmokeInit, InStep
<1>5. Sending = {} /\ SendingFits
  BY DEF SmokeInit, Sending, SendingFits
<1>6. EndsGreen /\ TeardownInv
  BY <1>1 DEF SmokeInit, EndsGreen, TeardownInv, SmokeLeavesNothing
<1>7. QED
  BY <1>3, <1>4, <1>5, <1>6 DEF SmokeInv

\* What a run sends depends on its surface and on the suites it was asked for alone.
LEMMA SeesTheSame ==
    ASSUME NEW run, NEW other, run.surface = other.surface, run.suite = other.suite, NEW p
    PROVE  Sees(run, p) <=> Sees(other, p)
  BY DEF Sees

\* A step that leaves the probes and the place of the run alone.
LEMMA ProbesKept ==
    ASSUME InStep, SendingFits, probe' = probe,
           smoke'.surface = smoke.surface, smoke'.suite = smoke.suite,
           smoke'.group = smoke.group, smoke'.next = smoke.next
    PROVE  /\ InStep' /\ SendingFits' /\ Sending' = Sending
           /\ Judged' <=> Judged
           /\ smoke'.conforms = smoke.conforms => (Green' <=> Green)
<1>0. \A p : Sees(smoke, p)' <=> Sees(smoke, p)
  BY SeesTheSame
<1>1. \A p \in Probes : SentSoFar(p)' <=> SentSoFar(p)
  BY <1>0 DEF SentSoFar
<1>2. InStep'
  BY <1>1 DEF InStep
<1>3. Sending' = Sending /\ Group' = Group
  BY DEF Sending, Group
<1>4. SendingFits'
  BY <1>3 DEF SendingFits
<1>5. Judged' <=> Judged
  BY <1>0, <1>3 DEF Judged
<1>6. QED
  BY <1>2, <1>3, <1>4, <1>5 DEF Green

LEMMA SmokeStartKeeps == ASSUME SmokeInv, Start PROVE SmokeInv'
<1>1. /\ SmokeTyped /\ InStep /\ SendingFits /\ EndsGreen /\ TeardownInv
      /\ smoke.phase = "starting" /\ probe' = probe /\ down' = down
  BY DEF SmokeInv, Start
<1>2. /\ smoke.handlers = {} /\ smoke.calls = 0 /\ server.state = "none" /\ ~server.orphans
      /\ smoke.started /\ down.by = "nobody" /\ down.step = "stop"
  BY <1>1 DEF TeardownInv
<1>3. CASE /\ server' = [server EXCEPT !.state = "partial"]
           /\ smoke' = [SmokeEnded(1) EXCEPT !.started = FALSE]
  <2>1. /\ smoke' \in SmokeStates /\ smoke'.phase = "exited" /\ smoke'.code = 1 /\ ~smoke'.started
        /\ smoke'.surface = smoke.surface /\ smoke'.suite = smoke.suite /\ smoke'.group = smoke.group
        /\ smoke'.next = smoke.next /\ smoke'.conforms = smoke.conforms
    BY <1>1, <1>3 DEF SmokeTyped, SmokeStates, SmokeEnded
  <2>2. SmokeTyped'
    BY <1>1, <1>3, <2>1 DEF SmokeTyped
  <2>3. InStep' /\ SendingFits' /\ (Judged' <=> Judged) /\ (Green' <=> Green)
    BY <1>1, <2>1, ProbesKept
  <2>4. EndsGreen'
    BY <1>1, <2>1, <2>3 DEF EndsGreen
  <2>5. TeardownInv'
    BY <1>1, <1>2, <2>1 DEF TeardownInv, SmokeLeavesNothing
  <2>6. QED
    BY <2>2, <2>3, <2>4, <2>5 DEF SmokeInv
<1>4. CASE /\ server' = IF Manages(smoke.surface) THEN [server EXCEPT !.state = "up"] ELSE server
           /\ smoke' = [smoke EXCEPT !.handlers = SmokeSignals,
                          !.phase = IF smoke.surface = "origin" THEN "booting" ELSE "probing"]
  <2>1. /\ smoke' \in SmokeStates /\ smoke'.phase \in {"booting", "probing"}
        /\ smoke'.handlers = SmokeSignals /\ smoke'.calls = 0 /\ smoke'.started
        /\ smoke'.surface = smoke.surface /\ smoke'.suite = smoke.suite /\ smoke'.group = smoke.group
        /\ smoke'.next = smoke.next /\ smoke'.conforms = smoke.conforms
    <3>1. \A ph \in {"booting", "probing"} :
             LET run == [smoke EXCEPT !.handlers = SmokeSignals, !.phase = ph] IN
             /\ run \in SmokeStates /\ run.phase = ph /\ run.handlers = SmokeSignals
             /\ run.calls = smoke.calls /\ run.started = smoke.started
             /\ run.surface = smoke.surface /\ run.suite = smoke.suite /\ run.group = smoke.group
             /\ run.next = smoke.next /\ run.conforms = smoke.conforms
      BY <1>1 DEF SmokeTyped, SmokeStates
    <3>2. PICK ph \in {"booting", "probing"} :
             smoke' = [smoke EXCEPT !.handlers = SmokeSignals, !.phase = ph]
      BY <1>4
    <3>3. QED
      BY <1>2, <3>1, <3>2
  <2>2. /\ server' \in [state : {"none", "up", "partial", "down"}, orphans : BOOLEAN]
        /\ server'.state \in {"none", "up"} /\ ~server'.orphans
    BY <1>1, <1>2, <1>4 DEF SmokeTyped
  <2>3. SmokeTyped'
    BY <1>1, <2>1, <2>2 DEF SmokeTyped
  <2>4. InStep' /\ SendingFits' /\ (Judged' <=> Judged) /\ (Green' <=> Green)
    BY <1>1, <2>1, ProbesKept
  <2>5. EndsGreen'
    BY <1>1, <2>1, <2>4 DEF EndsGreen
  <2>6. TeardownInv'
    BY <1>1, <1>2, <2>1, <2>2 DEF TeardownInv, SmokeLeavesNothing
  <2>7. QED
    BY <2>3, <2>4, <2>5, <2>6 DEF SmokeInv
<1>5. QED
  BY <1>3, <1>4 DEF Start

\* The steps of the teardown itself.
LEMMA TearsDownKeeps == ASSUME SmokeInv, TearsDown PROVE SmokeInv'
<1>1. /\ SmokeTyped /\ InStep /\ SendingFits /\ EndsGreen /\ TeardownInv
      /\ smoke.phase # "exited" /\ probe' = probe
  BY DEF SmokeInv, TearsDown, StopServer, Clean, LeaveAfterTeardown
<1>2. CASE StopServer \/ Clean
  <2>1. /\ smoke' = smoke /\ down'.by = down.by /\ down'.leave = down.leave /\ down.by # "nobody"
        /\ down' \in [by : {"nobody", "run", "handler"}, step : {"stop", "clean", "done"},
                      leave : {0, 1, 130}, failed : SUBSET {"compose-down", "clean"}]
        /\ server' \in [state : {"none", "up", "partial", "down"}, orphans : BOOLEAN]
        /\ down'.step # "stop" /\ (server'.state \in {"none", "down"} \/ "compose-down" \in down'.failed)
        /\ down'.step = "done" => ~server'.orphans \/ "clean" \in down'.failed
    <3> DEFINE ServerTypes == [state : {"none", "up", "partial", "down"}, orphans : BOOLEAN]
               Failures == SUBSET {"compose-down", "clean"}
    <3>0. /\ server \in ServerTypes
          /\ down \in [by : {"nobody", "run", "handler"}, step : {"stop", "clean", "done"},
                       leave : {0, 1, 130}, failed : Failures]
      BY <1>1 DEF SmokeTyped
    <3>1. CASE StopServer
      <4>1. /\ smoke' = smoke /\ down.by # "nobody" /\ down.step = "stop"
            /\ \/ /\ down' = [down EXCEPT !.step = "clean"]
                  /\ \/ server' = [state |-> "down", orphans |-> TRUE]
                     \/ server.state = "up" /\ server' = [server EXCEPT !.state = "down"]
                     \/ server.state # "up" /\ server' = server
               \/ /\ down' = [down EXCEPT !.step = "clean", !.failed = {"compose-down"}]
                  /\ \E left \in {"up", "partial"} : server' = [server EXCEPT !.state = left]
        BY <3>1 DEF StopServer
      <4>2. server.state \in {"none", "up"}
        BY <1>1, <4>1 DEF TeardownInv
      <4>3. CASE /\ down' = [down EXCEPT !.step = "clean"]
                 /\ \/ server' = [state |-> "down", orphans |-> TRUE]
                    \/ server.state = "up" /\ server' = [server EXCEPT !.state = "down"]
                    \/ server.state # "up" /\ server' = server
        <5>1. server' \in ServerTypes /\ server'.state \in {"none", "down"}
          <6>1. CASE server' = [state |-> "down", orphans |-> TRUE]
            BY <6>1
          <6>2. CASE server' = [server EXCEPT !.state = "down"]
            BY <3>0, <6>2
          <6>3. CASE server.state # "up" /\ server' = server
            BY <3>0, <4>2, <6>3
          <6>4. QED
            BY <4>3, <6>1, <6>2, <6>3
        <5>2. /\ down'.by = down.by /\ down'.leave = down.leave /\ down'.step = "clean"
              /\ down' \in [by : {"nobody", "run", "handler"}, step : {"stop", "clean", "done"},
                            leave : {0, 1, 130}, failed : Failures]
          BY <3>0, <4>3
        <5>3. QED
          BY <4>1, <5>1, <5>2
      <4>4. CASE /\ down' = [down EXCEPT !.step = "clean", !.failed = {"compose-down"}]
                 /\ \E left \in {"up", "partial"} : server' = [server EXCEPT !.state = left]
        <5>1. server' \in ServerTypes
          BY <3>0, <4>4
        <5>2. /\ down'.by = down.by /\ down'.leave = down.leave /\ down'.step = "clean"
              /\ "compose-down" \in down'.failed
              /\ down' \in [by : {"nobody", "run", "handler"}, step : {"stop", "clean", "done"},
                            leave : {0, 1, 130}, failed : Failures]
          BY <3>0, <4>4
        <5>3. QED
          BY <4>1, <5>1, <5>2
      <4>5. QED
        BY <4>1, <4>3, <4>4
    <3>2. CASE Clean
      <4>1. /\ smoke' = smoke /\ down.by # "nobody" /\ down.step = "clean"
            /\ \/ server' = [server EXCEPT !.orphans = FALSE] /\ down' = [down EXCEPT !.step = "done"]
               \/ /\ server' = server
                  /\ down' = [down EXCEPT !.step = "done", !.failed = down.failed \cup {"clean"}]
        BY <3>2 DEF Clean, Cleaned
      <4>2. server.state \in {"none", "down"} \/ "compose-down" \in down.failed
        BY <1>1, <4>1 DEF TeardownInv
      <4>3. CASE server' = [server EXCEPT !.orphans = FALSE] /\ down' = [down EXCEPT !.step = "done"]
        <5>1. server' \in ServerTypes /\ server'.state = server.state /\ ~server'.orphans
          BY <3>0, <4>3
        <5>2. /\ down'.by = down.by /\ down'.leave = down.leave /\ down'.step = "done"
              /\ down'.failed = down.failed
              /\ down' \in [by : {"nobody", "run", "handler"}, step : {"stop", "clean", "done"},
                            leave : {0, 1, 130}, failed : Failures]
          BY <3>0, <4>3
        <5>3. QED
          BY <4>1, <4>2, <5>1, <5>2
      <4>4. CASE /\ server' = server
                 /\ down' = [down EXCEPT !.step = "done", !.failed = down.failed \cup {"clean"}]
        <5>1. down.failed \cup {"clean"} \in Failures
          BY <3>0
        <5>2. /\ down'.by = down.by /\ down'.leave = down.leave /\ down'.step = "done"
              /\ down'.failed = down.failed \cup {"clean"}
              /\ down' \in [by : {"nobody", "run", "handler"}, step : {"stop", "clean", "done"},
                            leave : {0, 1, 130}, failed : Failures]
          BY <3>0, <4>4, <5>1
        <5>3. QED
          BY <3>0, <4>1, <4>2, <4>4, <5>2
      <4>5. QED
        BY <4>1, <4>3, <4>4
    <3>3. QED
      BY <1>2, <3>1, <3>2
  <2>2. SmokeTyped'
    BY <1>1, <2>1 DEF SmokeTyped
  <2>3. InStep' /\ SendingFits' /\ (Judged' <=> Judged) /\ (Green' <=> Green)
    BY <1>1, <2>1, ProbesKept
  <2>4. EndsGreen'
    BY <1>1, <2>1, <2>3 DEF EndsGreen
  <2>5. TeardownInv'
    BY <1>1, <2>1 DEF TeardownInv, SmokeLeavesNothing
  <2>6. QED
    BY <2>2, <2>3, <2>4, <2>5 DEF SmokeInv
<1>3. CASE LeaveAfterTeardown
  <2>1. smoke' = SmokeEnded(down.leave) /\ server' = server /\ down' = down /\ down.step = "done"
    BY <1>3 DEF LeaveAfterTeardown
  <2>2. /\ smoke' \in SmokeStates /\ smoke'.phase = "exited" /\ smoke'.code = down.leave
        /\ smoke'.surface = smoke.surface /\ smoke'.suite = smoke.suite /\ smoke'.group = smoke.group
        /\ smoke'.next = smoke.next /\ smoke'.conforms = smoke.conforms
    BY <1>1, <2>1 DEF SmokeTyped, SmokeStates, SmokeEnded
  <2>3. SmokeTyped'
    BY <1>1, <2>1, <2>2 DEF SmokeTyped
  <2>4. InStep' /\ SendingFits' /\ (Judged' <=> Judged) /\ (Green' <=> Green)
    BY <1>1, <2>2, ProbesKept
  <2>5. down.by \in {"run", "handler"}
    BY <1>1, <2>1 DEF TeardownInv, SmokeTyped
  <2>6. EndsGreen'
    BY <1>1, <2>1, <2>2, <2>4, <2>5 DEF EndsGreen, TeardownInv
  <2>7. TeardownInv'
    BY <1>1, <2>1, <2>2 DEF TeardownInv, SmokeLeavesNothing
  <2>8. QED
    BY <2>3, <2>4, <2>6, <2>7 DEF SmokeInv
<1>4. QED
  BY <1>2, <1>3 DEF TearsDown

\* A call of teardown() by the run, with what it leaves with, or by a handler.
LEMMA TeardownKeeps ==
    ASSUME SmokeInv, NEW by \in {"run", "handler"}, NEW code \in {0, 1, 130}, NEW run \in SmokeStates,
           Teardown(by, code, run),
           by = "handler" => code = 130,
           by = "run" => run.phase = "leaving",
           code = 0 => Green,
           smoke.phase \notin {"starting", "exited"},
           run.phase \in {smoke.phase, "leaving"},
           run.phase = "leaving" \/ down.by # "run",
           run.calls = smoke.calls, run.surface = smoke.surface, run.suite = smoke.suite,
           run.group = smoke.group, run.next = smoke.next, run.conforms = smoke.conforms, run.started = smoke.started,
           probe' = probe, server' = server
    PROVE  SmokeInv'
<1>1. SmokeTyped /\ InStep /\ SendingFits /\ EndsGreen /\ TeardownInv
  BY DEF SmokeInv
<1>2. run.calls \in Nat /\ smoke.calls \in Nat
  BY <1>1 DEF SmokeTyped, SmokeStates
<1>3. CASE down.by = "nobody"
  <2>1. /\ down' = [by |-> by, step |-> "stop", leave |-> code, failed |-> {}]
        /\ smoke' = [run EXCEPT !.calls = @ + 1]
    BY <1>3 DEF Teardown
  <2>2. /\ smoke' \in SmokeStates /\ smoke'.phase = run.phase /\ smoke'.calls = smoke.calls + 1
        /\ smoke'.surface = smoke.surface /\ smoke'.suite = smoke.suite /\ smoke'.group = smoke.group
        /\ smoke'.next = smoke.next /\ smoke'.conforms = smoke.conforms
        /\ smoke'.started = smoke.started
    BY <1>2, <2>1 DEF SmokeStates
  <2>3. /\ down'.by = by /\ down'.step = "stop" /\ down'.leave = code
        /\ down' \in [by : {"nobody", "run", "handler"}, step : {"stop", "clean", "done"},
                      leave : {0, 1, 130}, failed : SUBSET {"compose-down", "clean"}]
    BY <2>1
  <2>4. SmokeTyped'
    BY <1>1, <2>2, <2>3 DEF SmokeTyped
  <2>5. InStep' /\ SendingFits' /\ (Judged' <=> Judged) /\ (Green' <=> Green)
    BY <1>1, <2>2, ProbesKept
  <2>6. EndsGreen'
    BY <1>1, <2>2, <2>3, <2>5 DEF EndsGreen
  <2>7. smoke'.calls # 0
    BY <1>2, <2>2
  <2>8. server.state \in {"none", "up"} /\ ~server.orphans /\ smoke.started
    BY <1>1, <1>3 DEF TeardownInv
  <2>9. TeardownInv'
    BY <1>1, <2>2, <2>3, <2>7, <2>8 DEF TeardownInv, SmokeLeavesNothing
  <2>10. QED
    BY <2>4, <2>5, <2>6, <2>9 DEF SmokeInv
<1>4. CASE down.by # "nobody"
  <2>1. smoke' = [run EXCEPT !.calls = @ + 1, !.phase = "exited", !.code = code] /\ down' = down
    BY <1>4 DEF Teardown
  <2>2. /\ smoke' \in SmokeStates /\ smoke'.phase = "exited" /\ smoke'.calls = smoke.calls + 1
        /\ smoke'.surface = smoke.surface /\ smoke'.suite = smoke.suite /\ smoke'.group = smoke.group
        /\ smoke'.next = smoke.next /\ smoke'.conforms = smoke.conforms
        /\ smoke'.code = code
    <3>1. /\ smoke'.phase = "exited" /\ smoke'.calls = run.calls + 1 /\ smoke'.code = code
          /\ smoke'.surface = run.surface /\ smoke'.suite = run.suite /\ smoke'.group = run.group
          /\ smoke'.next = run.next /\ smoke'.conforms = run.conforms
      BY <2>1 DEF SmokeStates
    <3>2. code \in {-1, 0, 1, 130} /\ run.calls + 1 \in Nat
      BY <1>2
    <3>3. smoke' \in SmokeStates
      BY <2>1, <3>2 DEF SmokeStates
    <3>4. QED
      BY <3>1, <3>3
  <2>3. SmokeTyped'
    BY <1>1, <2>1, <2>2 DEF SmokeTyped
  <2>4. InStep' /\ SendingFits' /\ (Judged' <=> Judged) /\ (Green' <=> Green)
    BY <1>1, <2>2, ProbesKept
  <2>5. EndsGreen'
    BY <1>1, <2>1, <2>2, <2>4 DEF EndsGreen
  <2>6. smoke.calls # 0
    BY <1>1, <1>4 DEF TeardownInv
  <2>7. smoke'.calls # 1
    BY <1>2, <2>2, <2>6
  <2>8. TeardownInv'
    BY <1>1, <2>1, <2>2, <2>7 DEF TeardownInv, SmokeLeavesNothing
  <2>9. QED
    BY <2>3, <2>4, <2>5, <2>8 DEF SmokeInv
<1>5. QED
  BY <1>3, <1>4

LEMMA InterruptKeeps ==
    ASSUME SmokeInv, NEW sig \in SmokeSignals, Interrupt(sig)
    PROVE  SmokeInv'
<1>1. /\ SmokeTyped /\ InStep /\ SendingFits /\ EndsGreen /\ TeardownInv
      /\ smoke.phase # "exited" /\ probe' = probe /\ server' = server
  BY DEF SmokeInv, Interrupt
<1>2. CASE sig \in smoke.handlers
  <2> DEFINE run == [smoke EXCEPT !.interrupts = @ + 1, !.handlers = @ \ {sig}]
  <2>1. /\ run \in SmokeStates /\ run.phase = smoke.phase /\ run.calls = smoke.calls
        /\ run.surface = smoke.surface /\ run.suite = smoke.suite /\ run.group = smoke.group /\ run.next = smoke.next
        /\ run.conforms = smoke.conforms /\ run.started = smoke.started
    <3>1. smoke \in SmokeStates /\ smoke.interrupts + 1 \in Nat
            /\ smoke.handlers \ {sig} \in SUBSET SmokeSignals
      BY <1>1 DEF SmokeTyped, SmokeStates
    <3>2. run \in SmokeStates
      BY <3>1 DEF SmokeStates
    <3>3. /\ run.phase = smoke.phase /\ run.calls = smoke.calls
          /\ run.surface = smoke.surface /\ run.suite = smoke.suite /\ run.group = smoke.group /\ run.next = smoke.next
          /\ run.conforms = smoke.conforms /\ run.started = smoke.started
      BY <3>1 DEF SmokeStates
    <3>4. QED
      BY <3>2, <3>3
  <2>2. Teardown("handler", 130, run)
    BY <1>2 DEF Interrupt
  <2>3. smoke.phase \notin {"starting", "exited"}
    BY <1>1, <1>2 DEF TeardownInv
  <2>4. smoke.phase = "leaving" \/ down.by # "run"
    BY <1>1 DEF TeardownInv
  <2> HIDE DEF run
  <2>5. QED
    BY <1>1, <2>1, <2>2, <2>3, <2>4, TeardownKeeps
<1>3. CASE sig \notin smoke.handlers
  <2>1. /\ smoke' = [SmokeEnded(130) EXCEPT !.interrupts = @ + 1, !.calls = @ + 1,
                                            !.started = smoke.phase # "starting"]
        /\ down' = down
    BY <1>3 DEF Interrupt
  <2> DEFINE ended == SmokeEnded(130)
  <2>2. /\ ended \in SmokeStates /\ ended.phase = "exited" /\ ended.code = 130
        /\ ended.surface = smoke.surface /\ ended.suite = smoke.suite /\ ended.group = smoke.group /\ ended.next = smoke.next
        /\ ended.conforms = smoke.conforms /\ ended.calls = smoke.calls
    BY <1>1 DEF SmokeTyped, SmokeStates, SmokeEnded
  <2>3. smoke' = [ended EXCEPT !.interrupts = @ + 1, !.calls = @ + 1,
                               !.started = smoke.phase # "starting"]
    BY <2>1
  <2> HIDE DEF ended
  <2>4. /\ smoke' \in SmokeStates /\ smoke'.phase = "exited" /\ smoke'.code = 130
        /\ smoke'.surface = smoke.surface /\ smoke'.suite = smoke.suite /\ smoke'.group = smoke.group
        /\ smoke'.next = smoke.next /\ smoke'.conforms = smoke.conforms
        /\ smoke'.calls = smoke.calls + 1 /\ smoke'.started = (smoke.phase # "starting")
    <3>1. ended.interrupts + 1 \in Nat /\ ended.calls + 1 \in Nat
            /\ (smoke.phase # "starting") \in BOOLEAN
      BY <2>2 DEF SmokeStates
    <3>2. smoke' \in SmokeStates
      BY <2>2, <2>3, <3>1 DEF SmokeStates
    <3>3. /\ smoke'.phase = ended.phase /\ smoke'.code = ended.code
          /\ smoke'.surface = ended.surface /\ smoke'.suite = ended.suite /\ smoke'.group = ended.group
          /\ smoke'.next = ended.next /\ smoke'.conforms = ended.conforms
      BY <2>2, <2>3 DEF SmokeStates
    <3>4. smoke'.calls = ended.calls + 1
      BY <2>2, <2>3 DEF SmokeStates
    <3>5. smoke'.started = (smoke.phase # "starting")
      BY <2>2, <2>3 DEF SmokeStates
    <3>6. QED
      BY <2>2, <3>2, <3>3, <3>4, <3>5
  <2>5. SmokeTyped'
    BY <1>1, <2>1, <2>4 DEF SmokeTyped
  <2>6. InStep' /\ SendingFits' /\ (Judged' <=> Judged) /\ (Green' <=> Green)
    BY <1>1, <2>4, ProbesKept
  <2>7. EndsGreen'
    BY <1>1, <2>1, <2>4, <2>6 DEF EndsGreen
  <2>8. smoke'.calls = 1 => ~smoke'.started
    <3>1. smoke.calls \in Nat
      BY <1>1 DEF SmokeTyped, SmokeStates
    <3>2. smoke.phase # "starting" => smoke.calls # 0
      BY <1>1, <1>3 DEF TeardownInv
    <3>3. smoke'.calls = smoke.calls + 1 /\ smoke'.started = (smoke.phase # "starting")
      BY <2>4
    <3>4. smoke.phase # "starting" => smoke'.calls # 1
      BY <3>1, <3>2, <3>3
    <3>5. QED
      BY <3>3, <3>4
  <2>9. TeardownInv'
    BY <1>1, <2>1, <2>4, <2>8 DEF TeardownInv, SmokeLeavesNothing
  <2>10. QED
    BY <2>5, <2>6, <2>7, <2>9 DEF SmokeInv
<1>4. QED
  BY <1>2, <1>3

\* The ends of the run, as far as they call for the teardown.
LEMMA RunLeavesKeeps == ASSUME SmokeInv, NeverCameUp \/ Report PROVE SmokeInv'
<1>1. /\ SmokeTyped /\ InStep /\ SendingFits /\ EndsGreen /\ TeardownInv
      /\ smoke.phase \in {"booting", "reporting"} /\ probe' = probe /\ server' = server
  BY DEF SmokeInv, NeverCameUp, Report
<1> DEFINE run == [smoke EXCEPT !.phase = "leaving"]
           code == IF smoke.phase = "booting" THEN 1 ELSE ReportCode(smoke.conforms, probe)
<1>2. /\ run \in SmokeStates /\ run.phase = "leaving" /\ run.calls = smoke.calls
      /\ run.surface = smoke.surface /\ run.suite = smoke.suite /\ run.group = smoke.group /\ run.next = smoke.next
      /\ run.conforms = smoke.conforms /\ run.started = smoke.started
  BY <1>1 DEF SmokeTyped, SmokeStates
<1>3. Teardown("run", code, run)
  BY DEF NeverCameUp, Report
<1>4. code \in {0, 1, 130}
  BY DEF ReportCode, ProbesAlone
<1>5. code = 0 => Green
  <2>1. SUFFICES ASSUME code = 0 PROVE Green
    OBVIOUS
  <2>2. smoke.phase = "reporting" /\ ReportCode(smoke.conforms, probe) = 0
    BY <1>1, <2>1
  <2>3. Judged
    BY <1>1, <2>2 DEF EndsGreen
  <2>4. smoke.conforms /\ \A p \in Probes : probe[p].state # "failed"
    BY <2>2 DEF ReportCode, ProbesAlone
  <2>5. QED
    BY <2>3, <2>4 DEF Green
<1> HIDE DEF run, code
<1>6. QED
  BY <1>1, <1>2, <1>3, <1>4, <1>5, TeardownKeeps

\* The run moves on without a request.
LEMMA RunMovesKeeps == ASSUME SmokeInv, Answering \/ Conformance PROVE SmokeInv'
<1>1. /\ SmokeTyped /\ InStep /\ SendingFits /\ EndsGreen /\ TeardownInv
      /\ probe' = probe /\ server' = server /\ down' = down
  BY DEF SmokeInv, Answering, Conformance
<1>2. /\ smoke' \in SmokeStates /\ smoke'.phase \in {"probing", "reporting"}
      /\ smoke'.surface = smoke.surface /\ smoke'.suite = smoke.suite /\ smoke'.group = smoke.group
      /\ smoke'.next = smoke.next /\ smoke'.calls = smoke.calls
      /\ smoke'.handlers = smoke.handlers /\ smoke'.started = smoke.started
      /\ smoke.phase \notin {"starting", "exited", "leaving"}
      /\ smoke'.phase = "reporting" => smoke.phase = "conformance"
  <2>1. CASE Answering
    BY <1>1, <2>1 DEF Answering, SmokeTyped, SmokeStates
  <2>2. CASE Conformance
    <3>1. PICK conforms \in BOOLEAN :
            smoke' = [smoke EXCEPT !.phase = "reporting", !.conforms = conforms]
      BY <2>2 DEF Conformance
    <3>2. QED
      BY <1>1, <2>2, <3>1 DEF Conformance, SmokeTyped, SmokeStates
  <2>3. QED
    BY <2>1, <2>2
<1>3. SmokeTyped'
  BY <1>1, <1>2 DEF SmokeTyped
<1>4. InStep' /\ SendingFits' /\ (Judged' <=> Judged)
  BY <1>1, <1>2, ProbesKept
<1>5. down.by # "run"
  BY <1>1, <1>2 DEF TeardownInv
<1>6. EndsGreen'
  BY <1>1, <1>2, <1>4, <1>5 DEF EndsGreen
<1>7. TeardownInv'
  BY <1>1, <1>2 DEF TeardownInv, SmokeLeavesNothing
<1>8. QED
  BY <1>3, <1>4, <1>6, <1>7 DEF SmokeInv

LEMMA NextGroupKeeps == ASSUME SmokeInv, NextGroup PROVE SmokeInv'
<1>1. /\ SmokeTyped /\ InStep /\ SendingFits /\ EndsGreen /\ TeardownInv
      /\ probe' = probe /\ server' = server /\ down' = down
      /\ smoke.phase = "probing" /\ Sending = {}
      /\ smoke.group > 0 => Visible(Group, smoke, smoke.next) = {}
  BY DEF SmokeInv, NextGroup
<1>2. /\ smoke \in SmokeStates /\ smoke.group \in 0..Len(Groups) /\ smoke.next \in Nat \ {0}
      /\ Len(Groups) \in Nat
  BY <1>1, SmokeConstants DEF SmokeTyped, SmokeStates
<1>3. ASSUME NEW a \in 1..Len(Group.probes), smoke.group > 0,
             Sees(smoke, Group.probes[a])
      PROVE  a < smoke.next
  <2>1. Len(Group.probes) \in Nat
    BY <1>2, <1>3, GroupIs DEF Group
  <2>2. QED
    BY <1>1, <1>2, <1>3, <2>1 DEF Visible
<1>4. down.by # "run"
  BY <1>1 DEF TeardownInv
<1>5. CASE smoke.group < Len(Groups)
  <2>1. smoke' = [smoke EXCEPT !.group = @ + 1, !.next = 1]
    BY <1>5 DEF NextGroup
  <2>2. /\ smoke' \in SmokeStates /\ smoke'.group = smoke.group + 1 /\ smoke'.next = 1
        /\ smoke'.surface = smoke.surface /\ smoke'.suite = smoke.suite /\ smoke'.phase = "probing"
        /\ smoke'.calls = smoke.calls /\ smoke'.handlers = smoke.handlers
        /\ smoke'.started = smoke.started
    <3>1. smoke.group + 1 \in 0..Len(Groups) /\ 1 \in Nat \ {0}
      BY <1>2, <1>5
    <3>2. smoke' \in SmokeStates
      BY <1>2, <2>1, <3>1 DEF SmokeStates
    <3>3. /\ smoke'.group = smoke.group + 1 /\ smoke'.next = 1
          /\ smoke'.surface = smoke.surface /\ smoke'.suite = smoke.suite /\ smoke'.phase = smoke.phase
          /\ smoke'.calls = smoke.calls /\ smoke'.handlers = smoke.handlers
          /\ smoke'.started = smoke.started
      BY <1>2, <2>1 DEF SmokeStates
    <3>4. QED
      BY <1>1, <3>2, <3>3
  <2>10. \A p : Sees(smoke', p) <=> Sees(smoke, p)
    BY <2>2, SeesTheSame
  <2>3. ASSUME NEW p \in Probes PROVE SentSoFar(p)' <=> SentSoFar(p)
    <3>1. ASSUME SentSoFar(p)' PROVE SentSoFar(p)
      <4>1. PICK k \in 1..Len(Groups) : \E a \in 1..Len(Groups[k].probes) :
              /\ Groups[k].probes[a] = p
              /\ k < smoke.group + 1 \/ (k = smoke.group + 1 /\ a < 1)
        BY <2>2, <3>1 DEF SentSoFar
      <4>2. PICK a \in 1..Len(Groups[k].probes) :
              /\ Groups[k].probes[a] = p
              /\ k < smoke.group + 1 \/ (k = smoke.group + 1 /\ a < 1)
        BY <4>1
      <4>3. Sees(smoke, p)
        BY <2>10, <3>1 DEF SentSoFar
      <4>4. Len(Groups[k].probes) \in Nat
        BY GroupIs
      <4>5. k < smoke.group + 1
        BY <4>2, <4>4
      <4>6. k = smoke.group => a < smoke.next
        BY <1>3, <4>2, <4>3 DEF Group
      <4>7. QED
        BY <1>2, <4>2, <4>3, <4>5, <4>6 DEF SentSoFar
    <3>2. ASSUME SentSoFar(p) PROVE SentSoFar(p)'
      BY <1>2, <2>2, <2>10, <3>2 DEF SentSoFar
    <3>3. QED
      BY <3>1, <3>2
  <2>4. SmokeTyped'
    BY <1>1, <2>2 DEF SmokeTyped
  <2>5. InStep'
    BY <1>1, <2>3 DEF InStep
  <2>6. SendingFits'
    BY <1>1 DEF SendingFits, Sending
  <2>7. EndsGreen'
    BY <1>1, <1>4, <2>2 DEF EndsGreen
  <2>8. TeardownInv'
    BY <1>1, <2>2 DEF TeardownInv, SmokeLeavesNothing
  <2>9. QED
    BY <2>4, <2>5, <2>6, <2>7, <2>8 DEF SmokeInv
<1>6. CASE ~(smoke.group < Len(Groups))
  <2>1. smoke' = [smoke EXCEPT !.phase = "conformance"]
    BY <1>6 DEF NextGroup
  <2>2. /\ smoke' \in SmokeStates /\ smoke'.group = smoke.group /\ smoke'.next = smoke.next
        /\ smoke'.surface = smoke.surface /\ smoke'.suite = smoke.suite /\ smoke'.phase = "conformance"
        /\ smoke'.calls = smoke.calls /\ smoke'.handlers = smoke.handlers
        /\ smoke'.started = smoke.started
    BY <1>2, <2>1 DEF SmokeStates
  <2>3. SmokeTyped'
    BY <1>1, <2>2 DEF SmokeTyped
  <2>4. InStep' /\ SendingFits' /\ (Judged' <=> Judged)
    BY <1>1, <2>2, ProbesKept
  <2>5. ASSUME NEW p \in Probes, Sees(smoke, p) PROVE SentSoFar(p)
    <3>1. PICK k \in 1..Len(Groups) : \E a \in 1..Len(Groups[k].probes) : Groups[k].probes[a] = p
      BY ProbePlace
    <3>2. PICK a \in 1..Len(Groups[k].probes) : Groups[k].probes[a] = p
      BY <3>1
    <3>3. smoke.group = Len(Groups)
      BY <1>2, <1>6
    <3>4. k = smoke.group => a < smoke.next
      BY <1>2, <1>3, <2>5, <3>2 DEF Group
    <3>5. QED
      BY <1>2, <2>5, <3>2, <3>3, <3>4 DEF SentSoFar
  <2>6. Judged
    BY <1>1, <2>5 DEF Judged, InStep, SentSoFar
  <2>7. EndsGreen'
    BY <1>1, <1>4, <2>2, <2>4, <2>6 DEF EndsGreen
  <2>8. TeardownInv'
    BY <1>1, <2>2 DEF TeardownInv, SmokeLeavesNothing
  <2>9. QED
    BY <2>3, <2>4, <2>7, <2>8 DEF SmokeInv
<1>7. QED
  BY <1>5, <1>6

LEMMA TakeKeeps == ASSUME SmokeInv, Take PROVE SmokeInv'
<1>1. /\ SmokeTyped /\ InStep /\ SendingFits /\ EndsGreen /\ TeardownInv
      /\ server' = server /\ down' = down
      /\ smoke.phase = "probing" /\ smoke.group > 0
      /\ Cardinality(Sending) < Workers(Group)
  BY DEF SmokeInv, Take
<1>2. PICK i \in Visible(Group, smoke, smoke.next) :
          /\ \A j \in Visible(Group, smoke, smoke.next) : i <= j
          /\ probe' = [probe EXCEPT ![Group.probes[i]] = [state |-> "sending", sent |-> 1]]
          /\ smoke' = [smoke EXCEPT !.next = i + 1]
  BY DEF Take
<1> DEFINE k == smoke.group
           q == Groups[k].probes[i]
<1>3. /\ smoke \in SmokeStates /\ k \in 1..Len(Groups) /\ smoke.next \in Nat \ {0}
      /\ Group = Groups[k]
  BY <1>1, SmokeConstants DEF SmokeTyped, SmokeStates, Group
<1>4. /\ Len(Groups[k].probes) \in Nat /\ i \in 1..Len(Groups[k].probes) /\ i >= smoke.next
      /\ Sees(smoke, q) /\ q \in Probes
      /\ Workers(Groups[k]) \in Nat
  <2>1. Len(Groups[k].probes) \in Nat /\ Workers(Groups[k]) \in Nat
    BY <1>3, GroupIs
  <2>2. i \in smoke.next..Len(Groups[k].probes) /\ Sees(smoke, q)
    BY <1>2, <1>3 DEF Visible
  <2>3. i \in 1..Len(Groups[k].probes) /\ i >= smoke.next
    BY <1>3, <2>1, <2>2
  <2>4. QED
    BY <1>3, <2>1, <2>2, <2>3, GroupIs
<1>5. ASSUME NEW j \in 1..Len(Groups[k].probes), j >= smoke.next,
             Sees(smoke, Groups[k].probes[j])
      PROVE  i <= j
  <2>1. j \in Visible(Group, smoke, smoke.next)
    BY <1>3, <1>4, <1>5 DEF Visible
  <2>2. QED
    BY <1>2, <2>1
<1>6. /\ smoke' \in SmokeStates /\ smoke'.next = i + 1 /\ smoke'.group = k
      /\ smoke'.surface = smoke.surface /\ smoke'.suite = smoke.suite /\ smoke'.phase = "probing"
      /\ smoke'.calls = smoke.calls /\ smoke'.handlers = smoke.handlers
      /\ smoke'.started = smoke.started
  <2>1. i + 1 \in Nat \ {0}
    BY <1>4
  <2>2. smoke' \in SmokeStates
    BY <1>2, <1>3, <2>1 DEF SmokeStates
  <2>3. QED
    BY <1>1, <1>2, <1>3, <2>2 DEF SmokeStates
<1>7. /\ probe' \in [Probes -> ProbeStates]
      /\ probe'[q] = [state |-> "sending", sent |-> 1]
      /\ \A p \in Probes \ {q} : probe'[p] = probe[p]
  BY <1>1, <1>2, <1>3, <1>4 DEF SmokeTyped, ProbeStates
<1> HIDE DEF q, k
<1>16. \A p : Sees(smoke', p) <=> Sees(smoke, p)
  BY <1>6, SeesTheSame
<1>8. ASSUME NEW p \in Probes PROVE SentSoFar(p)' <=> SentSoFar(p) \/ p = q
  <2>1. ASSUME SentSoFar(p)' PROVE SentSoFar(p) \/ p = q
    <3>1. PICK g \in 1..Len(Groups) : \E a \in 1..Len(Groups[g].probes) :
            /\ Groups[g].probes[a] = p
            /\ g < k \/ (g = k /\ a < i + 1)
      BY <1>6, <2>1 DEF SentSoFar
    <3>2. PICK a \in 1..Len(Groups[g].probes) :
            /\ Groups[g].probes[a] = p
            /\ g < k \/ (g = k /\ a < i + 1)
      BY <3>1
    <3>3. Sees(smoke, p)
      BY <1>16, <2>1 DEF SentSoFar
    <3>4. CASE g < k
      BY <3>2, <3>3, <3>4 DEF SentSoFar, k
    <3>5. CASE g = k /\ a < i + 1
      <4>1. a >= smoke.next => i <= a
        BY <1>5, <3>2, <3>3, <3>5
      <4>2. a < smoke.next \/ a = i
        BY <1>3, <1>4, <3>5, <4>1
      <4>3. QED
        BY <3>2, <3>3, <3>5, <4>2 DEF SentSoFar, k, q
    <3>6. QED
      BY <3>2, <3>4, <3>5
  <2>2. ASSUME SentSoFar(p) PROVE SentSoFar(p)'
    <3>1. \A a \in Nat : a < smoke.next => a < i + 1
      BY <1>3, <1>4
    <3>2. PICK g \in 1..Len(Groups) : \E a \in 1..Len(Groups[g].probes) :
            /\ Groups[g].probes[a] = p
            /\ g < k \/ (g = k /\ a < smoke.next)
      BY <2>2 DEF SentSoFar, k
    <3>3. PICK a \in 1..Len(Groups[g].probes) :
            /\ Groups[g].probes[a] = p
            /\ g < k \/ (g = k /\ a < smoke.next)
      BY <3>2
    <3>4. g < k \/ (g = k /\ a < i + 1)
      BY <3>1, <3>3
    <3>5. QED
      BY <1>6, <1>16, <2>2, <3>3, <3>4 DEF SentSoFar
  <2>3. ASSUME p = q PROVE SentSoFar(p)'
    <3>1. Groups[k].probes[i] = p /\ i < i + 1
      BY <1>4, <2>3 DEF q
    <3>2. QED
      BY <1>3, <1>4, <1>6, <1>16, <2>3, <3>1 DEF SentSoFar
  <2>4. QED
    BY <2>1, <2>2, <2>3
<1>9. InStep'
  BY <1>1, <1>7, <1>8 DEF InStep
<1>10. Sending' = Sending \cup {q}
  BY <1>4, <1>7 DEF Sending
<1>11. SendingFits'
  <2>1. Group' = Groups[k]
    BY <1>6 DEF Group
  <2>2. ASSUME NEW p \in Sending' PROVE \E a \in 1..Len(Groups[k].probes) : Groups[k].probes[a] = p
    <3>1. CASE p \in Sending
      BY <1>1, <1>3, <3>1 DEF SendingFits
    <3>2. CASE p = q
      BY <1>4, <3>2 DEF q
    <3>3. QED
      BY <1>10, <2>2, <3>1, <3>2
  <2>3. Cardinality(Sending') <= Workers(Groups[k])
    <3>1. IsFiniteSet(Sending)
      BY SmokeConstants, FS_Subset DEF Sending
    <3>2. /\ IsFiniteSet(Sending \cup {q})
          /\ Cardinality(Sending \cup {q})
               = IF q \in Sending THEN Cardinality(Sending) ELSE Cardinality(Sending) + 1
      BY <3>1, FS_AddElement
    <3>3. Cardinality(Sending) \in Nat /\ Cardinality(Sending \cup {q}) \in Nat
      BY <3>1, <3>2, FS_CardinalityType
    <3>4. QED
      BY <1>1, <1>3, <1>4, <1>10, <3>2, <3>3
  <2>4. smoke'.group > 0
    BY <1>3, <1>6
  <2>5. QED
    BY <2>1, <2>2, <2>3, <2>4 DEF SendingFits
<1>12. SmokeTyped'
  BY <1>1, <1>6, <1>7 DEF SmokeTyped
<1>13. EndsGreen'
  <2>1. down.by # "run"
    BY <1>1 DEF TeardownInv
  <2>2. QED
    BY <1>1, <1>6, <2>1 DEF EndsGreen
<1>14. TeardownInv'
  BY <1>1, <1>6 DEF TeardownInv, SmokeLeavesNothing
<1>15. QED
  BY <1>9, <1>11, <1>12, <1>13, <1>14 DEF SmokeInv

LEMMA AnswerKeeps ==
    ASSUME SmokeInv, NEW q \in Probes, NEW answer \in Answers, Answer(q, answer)
    PROVE  SmokeInv'
<1>1. /\ SmokeTyped /\ InStep /\ SendingFits /\ EndsGreen /\ TeardownInv
      /\ smoke' = smoke /\ server' = server /\ down' = down
      /\ smoke.phase = "probing" /\ probe[q].state = "sending"
  BY DEF SmokeInv, Answer
<1>2. smoke.surface \in Surfaces /\ probe[q] \in ProbeStates
  BY <1>1 DEF SmokeTyped, SmokeStates
<1>3. /\ probe' \in [Probes -> ProbeStates]
      /\ probe'[q].state # "waiting"
      /\ \A p \in Probes \ {q} : probe'[p] = probe[p]
  <2>1. CASE probe' = [probe EXCEPT ![q].sent = @ + 1] /\ probe[q].sent < Attempts(smoke.surface)
    <3>1. probe[q].sent + 1 \in 0..3
      BY <1>2, <2>1 DEF Attempts, ProbeStates
    <3>2. QED
      BY <1>1, <1>2, <2>1, <3>1 DEF SmokeTyped, ProbeStates
  <2>2. CASE \E said \in Verdict(q, answer) : probe' = [probe EXCEPT ![q].state = said]
    <3>1. PICK said \in {"passed", "failed", "skipped"} :
            probe' = [probe EXCEPT ![q].state = said]
      BY <2>2 DEF Verdict
    <3>2. QED
      BY <1>1, <1>2, <3>1 DEF SmokeTyped, ProbeStates
  <2>3. QED
    BY <2>1, <2>2 DEF Answer
<1>4. SmokeTyped'
  BY <1>1, <1>3 DEF SmokeTyped
<1>5. \A p \in Probes : SentSoFar(p)' <=> SentSoFar(p)
  BY <1>1 DEF SentSoFar
<1>6. InStep'
  BY <1>1, <1>3, <1>5 DEF InStep
<1>7. Sending' \subseteq Sending
  BY <1>1, <1>3 DEF Sending
<1>8. SendingFits'
  <2>1. IsFiniteSet(Sending)
    BY SmokeConstants, FS_Subset DEF Sending
  <2>2. Cardinality(Sending') <= Cardinality(Sending) /\ Cardinality(Sending) \in Nat
          /\ Cardinality(Sending') \in Nat
    BY <1>7, <2>1, FS_Subset, FS_CardinalityType
  <2>3. Group' = Group
    BY <1>1 DEF Group
  <2>4. Sending' # {} => Sending # {}
    BY <1>7
  <2>5. Sending # {} => Workers(Group) \in Nat
    <3>1. Sending # {} => smoke.group \in 1..Len(Groups)
      BY <1>1, SmokeConstants DEF SendingFits, SmokeTyped, SmokeStates
    <3>2. QED
      BY <3>1, GroupIs DEF Group
  <2>6. QED
    BY <1>1, <1>7, <2>2, <2>3, <2>4, <2>5 DEF SendingFits
<1>9. EndsGreen'
  <2>1. down.by # "run"
    BY <1>1 DEF TeardownInv
  <2>2. QED
    BY <1>1, <2>1 DEF EndsGreen
<1>10. TeardownInv'
  BY <1>1 DEF TeardownInv, SmokeLeavesNothing
<1>11. QED
  BY <1>4, <1>6, <1>8, <1>9, <1>10 DEF SmokeInv

LEMMA SmokeStep == SmokeInv /\ [SmokeNext]_smokeVars => SmokeInv'
<1> SUFFICES ASSUME SmokeInv, [SmokeNext]_smokeVars PROVE SmokeInv'
  OBVIOUS
<1>1. CASE UNCHANGED smokeVars
  <2>1. smoke' = smoke /\ probe' = probe /\ server' = server /\ down' = down
    BY <1>1 DEF smokeVars
  <2>2. SmokeTyped /\ InStep /\ SendingFits /\ EndsGreen /\ TeardownInv
    BY DEF SmokeInv
  <2>3. InStep' /\ SendingFits' /\ (Judged' <=> Judged) /\ (Green' <=> Green)
    BY <2>1, <2>2, ProbesKept
  <2>4. SmokeTyped' /\ EndsGreen'
    BY <2>1, <2>2, <2>3 DEF SmokeTyped, EndsGreen
  <2>5. TeardownInv'
    BY <2>1, <2>2 DEF TeardownInv, SmokeLeavesNothing
  <2>6. QED
    BY <2>3, <2>4, <2>5 DEF SmokeInv
<1>2. CASE SmokeRuns
  BY <1>2, SmokeStartKeeps, RunMovesKeeps, RunLeavesKeeps, NextGroupKeeps, TakeKeeps, AnswerKeeps
     DEF SmokeRuns
<1>3. CASE TearsDown
  BY <1>3, TearsDownKeeps
<1>4. CASE \E sig \in SmokeSignals : Interrupt(sig)
  BY <1>4, InterruptKeeps
<1>5. QED
  BY <1>1, <1>2, <1>3, <1>4 DEF SmokeNext

LEMMA SmokeHonest == SmokeInv => SmokeIsHonest
<1> SUFFICES ASSUME SmokeInv PROVE SmokeIsHonest
  OBVIOUS
<1>1. SmokeTyped /\ InStep /\ SendingFits /\ EndsGreen /\ TeardownInv
  BY DEF SmokeInv
<1>2. GreenMeansProbed
  <2>1. SUFFICES ASSUME smoke.phase = "exited", smoke.code = 0
                 PROVE  /\ \A p \in Probes : IF Sees(smoke, p)
                                             THEN probe[p].state \in {"passed", "skipped"}
                                             ELSE probe[p].sent = 0
                        /\ smoke.conforms
    BY DEF GreenMeansProbed
  <2>2. Green /\ Judged
    BY <1>1, <2>1 DEF EndsGreen, Green
  <2>3. ASSUME NEW p \in Probes PROVE /\ probe[p].state # "sending"
                                      /\ probe[p] \in ProbeStates
    BY <1>1, <2>2 DEF Judged, Sending, SmokeTyped
  <2>4. QED
    BY <1>1, <2>2, <2>3 DEF Green, Judged, InStep, ProbeStates
<1>3. SmokeLeavesNothing
  BY <1>1 DEF TeardownInv
<1>4. SerialIsAlone
  <2>1. SUFFICES ASSUME NEW i \in 1..Len(Groups), NEW p \in Sending, Groups[i].serial,
                        p \in ToSet(Groups[i].probes)
                 PROVE  Sending = {p}
    BY DEF SerialIsAlone
  <2>2. smoke.group \in 1..Len(Groups) /\ Group = Groups[smoke.group]
    BY <1>1, <2>1, SmokeConstants DEF SendingFits, SmokeTyped, SmokeStates, Group
  <2>3. PICK a \in 1..Len(Groups[i].probes) : Groups[i].probes[a] = p
    <3>1. ToSet(Groups[i].probes) = {Groups[i].probes[a] : a \in 1..Len(Groups[i].probes)}
      BY GroupIs
    <3>2. QED
      BY <2>1, <3>1
  <2>4. PICK b \in 1..Len(Groups[smoke.group].probes) : Groups[smoke.group].probes[b] = p
    BY <1>1, <2>1, <2>2 DEF SendingFits
  <2>5. i = smoke.group
    BY <2>2, <2>3, <2>4, SmokeConstants, SMTT(20)
  <2>6. Cardinality(Sending) <= 1
    BY <1>1, <2>1, <2>2, <2>5 DEF SendingFits, Workers
  <2>7. IsFiniteSet(Sending)
    BY SmokeConstants, FS_Subset DEF Sending
  <2>8. Cardinality(Sending \ {p}) = Cardinality(Sending) - 1 /\ IsFiniteSet(Sending \ {p})
    BY <2>7, FS_RemoveElement
  <2>9. Cardinality(Sending) \in Nat /\ Cardinality(Sending \ {p}) \in Nat
    BY <2>7, <2>8, FS_CardinalityType
  <2>10. Cardinality(Sending \ {p}) = 0
    BY <2>6, <2>8, <2>9
  <2>11. Sending \ {p} = {}
    BY <2>8, <2>10, FS_EmptySet
  <2>12. QED
    BY <2>11
<1>5. QED
  BY <1>2, <1>3, <1>4 DEF SmokeIsHonest

\* The smoke run is honest, whatever its suites, its surface, the width of its pool, the
\* answers, and the signals that cross its teardown.
THEOREM SmokeRunHonest == SmokeSpec => []SmokeIsHonest
<1>1. SmokeInv => SmokeIsHonest
  BY SmokeHonest
<1>2. QED
  BY SmokeInitHolds, SmokeStep, <1>1, PTL DEF SmokeSpec

\* The smoke run, its probes, its server and its teardown keep their types: no probe is
\* sent more than three times, and the run leaves with 0, 1 or 130.
THEOREM SmokeTypes == SmokeSpec => []SmokeTypeOK
<1>1. SmokeInv => SmokeTypeOK
  BY DEF SmokeInv, SmokeTyped, SmokeStates, ProbeStates, SmokeTypeOK
<1>2. QED
  BY SmokeInitHolds, SmokeStep, <1>1, PTL DEF SmokeSpec

-----------------------------------------------------------------------------
(***************************************************************************)
(* The quota probe, for any quota and any burst: within the hour it begins *)
(* in, and unless the service is late, what the probe still plans to ask   *)
(* for outlasts what the limiter has left, so that it cannot exit with 0   *)
(* without the refusal it came for.                                        *)
(***************************************************************************)

\* The hour the probe began in is the first; in it the counter is the one of that hour, and
\* what is planned outlasts what is left.
QuotaInv ==
    /\ now \in Nat /\ quota.from \in 0..(Window - 1)
    /\ limiter.used \in Nat /\ limiter.burst \in Nat /\ limiter.second \in Nat
    /\ limiter.hour \in Nat
    /\ quota.planned \in Int /\ quota.tries \in Nat /\ quota.wake \in Nat
    /\ quota.caller \in {"anonymous", "key", "unlimited"}
    /\ quota.phase \in {"first", "probing", "left"}
    /\ quota.sawHourly \in BOOLEAN /\ quota.late \in BOOLEAN /\ quota.drain \in BOOLEAN
    /\ quota.sawHourly => "hour" \in limiter.refused
    /\ now < Window => limiter.hour = Window
    /\ quota.phase # "left" => limiter.used <= Requests
    /\ quota.phase = "first" => quota.tries = 0
    /\ quota.phase = "probing" /\ quota.tries > 0 /\ ~quota.late
         => limiter.second <= quota.wake
    /\ quota.phase = "probing" => quota.caller # "unlimited"
    /\ quota.phase = "probing" /\ quota.drain /\ ~quota.late /\ now < Window =>
          quota.sawHourly \/ quota.planned + limiter.used >= Requests + 1
    /\ quota.phase = "left" /\ quota.code = 0 /\ quota.drain /\ ~quota.late /\ now < Window =>
          quota.sawHourly

LEMMA FirstHour ==
    ASSUME NEW t \in Nat
    PROVE  /\ t \div Window \in Int
           /\ t < Window <=> t \div Window = 0
           /\ (t \div Window + 1) * Window > t
           /\ (t \div Window + 1) * Window \in Nat
           /\ t < Window => (t \div Window + 1) * Window = Window
<1> USE QuotaConstants
<1> DEFINE q == t \div Window
<1>1. q \in Int /\ q * Window <= t /\ t < q * Window + Window
  OBVIOUS
<1> HIDE DEF q
<1>2. Window \in Nat /\ Window > 0
  OBVIOUS
<1>3. q >= 0
  <2>1. SUFFICES ASSUME q <= -1 PROVE FALSE
    BY <1>1
  <2>2. q * Window <= (-1) * Window
    BY <1>1, <1>2, <2>1
  <2>3. QED
    BY <1>1, <1>2, <2>2
<1>4. (q + 1) * Window = q * Window + Window /\ q * Window \in Int
  BY <1>1, <1>2
<1>5. t < Window => q = 0
  <2>1. SUFFICES ASSUME t < Window, q >= 1 PROVE FALSE
    BY <1>1, <1>3
  <2>2. q * Window >= 1 * Window
    BY <1>1, <1>2, <2>1
  <2>3. QED
    BY <1>1, <1>2, <2>1, <2>2
<1>6. q = 0 => q * Window = 0
  BY <1>2
<1>7. QED
  BY <1>1, <1>2, <1>3, <1>4, <1>5, <1>6 DEF q

\* What a request does to the windows, and what it answers.
LEMMA HitDoes ==
    ASSUME QuotaInv, Hit
    PROVE  /\ Used \in Nat /\ InSecond \in Nat
           /\ quota.phase # "left" => Used <= Requests
           /\ now < Window => Used = limiter.used
           /\ limiter'.hour \in Nat /\ limiter'.burst \in Nat
           /\ now < Window => limiter'.hour = Window
           /\ limiter'.second = now + 1
           /\ limiter'.used = IF Allowed THEN Used + 1 ELSE Used
           /\ limiter.refused \subseteq limiter'.refused
           /\ ~Allowed => Answered.by \in limiter'.refused
           /\ Answered.headers = (quota.caller # "unlimited")
           /\ Answered.remaining = IF Allowed THEN Requests - Used - 1 ELSE Requests - Used
           /\ Allowed => Answered.status = 200 /\ Answered.by = "nobody" /\ Answered.retryAfter = 0
           /\ ~Allowed /\ HourlyRefuses =>
                Answered.status = 429 /\ Answered.by = "hour" /\ Answered.retryAfter = HourEnd - now
           /\ ~Allowed /\ ~HourlyRefuses =>
                Answered.status = 429 /\ Answered.by = "burst" /\ Answered.retryAfter = 1
           /\ Answered.retryAfter \in Nat
<1> USE QuotaConstants
<1>1. HourEnd \in Nat /\ HourEnd > now /\ (now < Window => HourEnd = Window)
  BY FirstHour DEF HourEnd, QuotaInv
<1>2. Used \in Nat /\ InSecond \in Nat /\ (now < Window => Used = limiter.used)
        /\ (quota.phase # "left" => Used <= Requests)
  BY <1>1 DEF Used, InSecond, QuotaInv
<1>3. /\ limiter'.hour = HourEnd /\ limiter'.second = now + 1
      /\ limiter'.burst = IF Allowed THEN InSecond + 1 ELSE InSecond
      /\ limiter'.used = IF Allowed THEN Used + 1 ELSE Used
      /\ limiter'.refused = IF Allowed THEN limiter.refused
                            ELSE limiter.refused \cup {Answered.by}
  BY DEF Hit
<1>4. HourEnd - now \in Nat
  BY <1>1 DEF QuotaInv
<1>5. QED
  BY <1>1, <1>2, <1>3, <1>4 DEF Answered

\* A refusal is taken for an hourly one only if it is.
LEMMA TakenForHourly ==
    ASSUME QuotaInv, Hit
    PROVE  /\ Hourly(Answered) => "hour" \in limiter'.refused
           /\ Hourly(Answered) <=> (~Allowed /\ HourlyRefuses /\ ~isBurst(Answered))
           /\ isBurst(Answered) => ~Allowed
           /\ ~Allowed /\ ~HourlyRefuses => isBurst(Answered)
<1> USE QuotaConstants
<1>1. QED
  BY HitDoes DEF Hourly, isBurst

LEMMA QuotaInitHolds == QuotaInit => QuotaInv
<1> SUFFICES ASSUME QuotaInit PROVE QuotaInv
  OBVIOUS
<1> USE QuotaConstants
<1>1. PICK caller \in Callers, drain \in BOOLEAN, start \in 0..(Window - 1), spent \in 0..Requests :
          /\ quota = [caller |-> caller, drain |-> drain, phase |-> "first", planned |-> 0,
                      tries |-> 0, wake |-> start, sawHourly |-> FALSE, sawBurst |-> FALSE,
                      code |-> -1, from |-> start, late |-> FALSE]
          /\ limiter = [used |-> spent, burst |-> 0, hour |-> Window, second |-> 0, refused |-> {}]
          /\ now = start
  BY DEF QuotaInit
<1>2. QED
  BY <1>1 DEF QuotaInv

LEMMA FirstKeeps == ASSUME QuotaInv, First PROVE QuotaInv'
<1> USE QuotaConstants
<1>1. Hit /\ quota.phase = "first" /\ now' = now
  BY DEF First
<1> DEFINE left == [quota EXCEPT !.phase = "left", !.code = 1]
           went == [Saw(Answered, quota) EXCEPT !.phase = "probing", !.planned = Planned(Answered)]
<1>2. \/ quota' = left
      \/ Answered.headers /\ quota' = went
  BY DEF First
<1>3. now \in Nat
  BY DEF QuotaInv
<1>4. CASE quota' = left
  <2>1. /\ quota'.from = quota.from /\ quota'.planned = quota.planned /\ quota'.tries = quota.tries
        /\ quota'.wake = quota.wake /\ quota'.caller = quota.caller /\ quota'.phase = "left"
        /\ quota'.sawHourly = quota.sawHourly /\ quota'.late = quota.late
        /\ quota'.drain = quota.drain /\ quota'.code = 1
    BY <1>4
  <2>2. QED
    BY <1>1, <2>1, HitDoes DEF QuotaInv
<1>5. CASE Answered.headers /\ quota' = went
  <2>1. /\ quota'.from = quota.from /\ quota'.planned = Planned(Answered)
        /\ quota'.tries = quota.tries
        /\ quota'.wake = quota.wake /\ quota'.caller = quota.caller /\ quota'.phase = "probing"
        /\ quota'.sawHourly = (quota.sawHourly \/ Hourly(Answered))
        /\ quota'.late = (quota.late \/ (Answered.by = "hour" /\ isBurst(Answered)))
        /\ quota'.drain = quota.drain
    BY <1>5 DEF Saw
  <2>2. quota.caller # "unlimited"
    BY <1>1, <1>5, HitDoes
  <2>3. Planned(Answered) \in Int /\ (quota.drain => Planned(Answered) = Answered.remaining + 1)
    BY <1>1, HitDoes DEF Planned, Drained, QuotaInv
  <2>4. quota'.tries = 0
    BY <1>1, <2>1 DEF QuotaInv
  <2>5. quota'.sawHourly => "hour" \in limiter'.refused
    BY <1>1, <2>1, TakenForHourly, HitDoes DEF QuotaInv
  <2>6. quota'.drain /\ ~quota'.late /\ now' < Window =>
          quota'.sawHourly \/ quota'.planned + limiter'.used >= Requests + 1
    <3>1. CASE ~Allowed /\ HourlyRefuses
      BY <1>1, <2>1, <3>1, HitDoes, TakenForHourly
    <3>2. CASE Allowed \/ ~HourlyRefuses
      BY <1>1, <2>1, <2>3, <3>2, HitDoes
    <3>3. QED
      BY <3>1, <3>2
  <2>7. limiter'.used <= Requests
    <3>1. Allowed => Used < Requests
      BY <1>1, <2>2, HitDoes DEF Allowed, HourlyRefuses
    <3>2. QED
      BY <1>1, <3>1, HitDoes
  <2>8. quota'.sawHourly \in BOOLEAN /\ quota'.late \in BOOLEAN
    BY <2>1
  <2>9. limiter'.used \in Nat /\ limiter'.second \in Nat
    BY <1>1, <1>3, HitDoes
  <2>10. QED
    BY <1>1, <2>1, <2>2, <2>3, <2>4, <2>5, <2>6, <2>7, <2>8, <2>9, HitDoes DEF QuotaInv
<1>6. QED
  BY <1>2, <1>4, <1>5

LEMMA ProbeKeeps == ASSUME QuotaInv, Probe PROVE QuotaInv'
<1> USE QuotaConstants
<1>1. Hit /\ quota.phase = "probing" /\ now' = now /\ quota.planned > 0 /\ now >= quota.wake
  BY DEF Probe, Awake
<1> DEFINE again == [quota EXCEPT !.tries = @ + 1, !.wake = now + Answered.retryAfter,
                                  !.late = @ \/ Answered.by = "hour"]
           went == [Saw(Answered, quota) EXCEPT !.planned = @ - 1, !.tries = 0]
<1>2. \/ WaitsAndAsksAgain(Answered) /\ quota' = again
      \/ ~WaitsAndAsksAgain(Answered) /\ quota' = went
  BY DEF Probe
<1>3. now \in Nat /\ quota.caller # "unlimited"
  BY <1>1 DEF QuotaInv
<1>4. limiter'.used <= Requests /\ limiter'.used \in Nat /\ limiter'.second \in Nat
  <2>1. Allowed => Used < Requests
    BY <1>1, <1>3, HitDoes DEF Allowed, HourlyRefuses
  <2>2. QED
    BY <1>1, <1>3, <2>1, HitDoes
<1>5. CASE WaitsAndAsksAgain(Answered) /\ quota' = again
  <2>1. /\ quota'.from = quota.from /\ quota'.planned = quota.planned
        /\ quota'.tries = quota.tries + 1
        /\ quota'.wake = now + Answered.retryAfter
        /\ quota'.caller = quota.caller /\ quota'.phase = "probing"
        /\ quota'.sawHourly = quota.sawHourly
        /\ quota'.late = (quota.late \/ Answered.by = "hour")
        /\ quota'.drain = quota.drain
    BY <1>1, <1>5 DEF QuotaInv
  <2>2. ~Allowed /\ isBurst(Answered)
    BY <1>1, <1>5, TakenForHourly DEF WaitsAndAsksAgain
  <2>3. limiter'.used = Used
    BY <1>1, <2>2, HitDoes
  <2>4. quota'.sawHourly => "hour" \in limiter'.refused
    BY <1>1, <2>1, HitDoes DEF QuotaInv
  <2>5. ~quota'.late => limiter'.second <= quota'.wake
    <3>1. ~quota'.late => Answered.retryAfter = 1
      BY <1>1, <2>1, <2>2, HitDoes
    <3>2. QED
      BY <1>1, <1>3, <2>1, <3>1, HitDoes
  <2>6. quota'.drain /\ ~quota'.late /\ now' < Window =>
          quota'.sawHourly \/ quota'.planned + limiter'.used >= Requests + 1
    BY <1>1, <2>1, <2>3, HitDoes DEF QuotaInv
  <2>7. quota'.wake \in Nat /\ quota'.tries \in Nat /\ quota'.late \in BOOLEAN
    BY <1>1, <1>3, <2>1, HitDoes DEF QuotaInv
  <2>8. QED
    BY <1>1, <1>4, <2>1, <2>4, <2>5, <2>6, <2>7, HitDoes DEF QuotaInv
<1>6. CASE ~WaitsAndAsksAgain(Answered) /\ quota' = went
  <2>1. /\ quota'.from = quota.from /\ quota'.planned = quota.planned - 1
        /\ quota'.tries = 0
        /\ quota'.wake = quota.wake
        /\ quota'.caller = quota.caller /\ quota'.phase = "probing"
        /\ quota'.sawHourly = (quota.sawHourly \/ Hourly(Answered))
        /\ quota'.late = (quota.late \/ (Answered.by = "hour" /\ isBurst(Answered)))
        /\ quota'.drain = quota.drain
    BY <1>1, <1>6 DEF Saw, QuotaInv
  <2>2. quota'.sawHourly => "hour" \in limiter'.refused
    BY <1>1, <2>1, TakenForHourly, HitDoes DEF QuotaInv
  <2>3. quota'.drain /\ ~quota'.late /\ now' < Window =>
          quota'.sawHourly \/ quota'.planned + limiter'.used >= Requests + 1
    <3>1. SUFFICES ASSUME quota.drain, ~quota.late, now < Window, ~quota'.sawHourly, ~quota'.late
                   PROVE  quota'.planned + limiter'.used >= Requests + 1
      BY <1>1, <2>1
    <3>2. Used = limiter.used /\ quota.planned + limiter.used >= Requests + 1
            /\ Used \in Nat /\ quota.planned \in Int
      BY <1>1, <2>1, <3>1, HitDoes DEF QuotaInv
    <3>3. ~(~Allowed /\ HourlyRefuses)
      BY <1>1, <2>1, <3>1, HitDoes, TakenForHourly
    <3>4. CASE Allowed
      BY <1>1, <2>1, <3>2, <3>4, HitDoes
    <3>5. CASE ~Allowed
      <4>1. InSecond >= Burst /\ isBurst(Answered)
        BY <1>1, <3>3, <3>5, TakenForHourly DEF Allowed, BurstRefuses
      <4>2. quota.tries >= DrainRetries
        BY <1>6, <3>1, <4>1 DEF WaitsAndAsksAgain, QuotaInv
      <4>3. limiter.second <= quota.wake
        BY <1>1, <3>1, <4>2 DEF QuotaInv
      <4>4. limiter.second = now + 1
        BY <4>1 DEF InSecond
      <4>5. QED
        BY <1>1, <1>3, <4>3, <4>4 DEF QuotaInv
    <3>6. QED
      BY <3>4, <3>5
  <2>4. quota'.planned \in Int /\ quota'.sawHourly \in BOOLEAN /\ quota'.late \in BOOLEAN
    BY <2>1 DEF QuotaInv
  <2>5. QED
    BY <1>1, <1>4, <2>1, <2>2, <2>3, <2>4, HitDoes DEF QuotaInv
<1>7. QED
  BY <1>2, <1>5, <1>6

LEMMA ConcludeKeeps == ASSUME QuotaInv, Conclude PROVE QuotaInv'
<1> USE QuotaConstants
<1>1. /\ quota.phase = "probing" /\ quota.planned = 0 /\ now' = now
      /\ limiter' = limiter \/ Hit
      /\ quota' = [quota EXCEPT !.phase = "left", !.code = 0]
  BY DEF Conclude
<1>2. /\ quota'.from = quota.from /\ quota'.planned = quota.planned /\ quota'.tries = quota.tries
      /\ quota'.wake = quota.wake /\ quota'.caller = quota.caller /\ quota'.phase = "left"
      /\ quota'.sawHourly = quota.sawHourly /\ quota'.late = quota.late
      /\ quota'.drain = quota.drain
  BY <1>1 DEF QuotaInv
<1>3. quota.drain /\ ~quota.late /\ now < Window => quota.sawHourly
  BY <1>1 DEF QuotaInv
<1>4. now \in Nat
  BY DEF QuotaInv
<1>5. CASE limiter' = limiter
  BY <1>1, <1>2, <1>3, <1>5 DEF QuotaInv
<1>6. CASE Hit
  <2>1. limiter'.used \in Nat /\ limiter'.second \in Nat
    BY <1>4, <1>6, HitDoes
  <2>2. QED
    BY <1>1, <1>2, <1>3, <1>6, <2>1, HitDoes DEF QuotaInv
<1>7. QED
  BY <1>1, <1>5, <1>6

LEMMA QuotaStep == QuotaInv /\ [QuotaNext]_quotaVars => QuotaInv'
<1> SUFFICES ASSUME QuotaInv, [QuotaNext]_quotaVars PROVE QuotaInv'
  OBVIOUS
<1> USE QuotaConstants
<1>1. CASE Unreachable
  <2>1. /\ quota'.from = quota.from /\ quota'.planned = quota.planned
        /\ quota'.tries = quota.tries
        /\ quota'.wake = quota.wake /\ quota'.caller = quota.caller /\ quota'.phase = "left"
        /\ quota'.sawHourly = quota.sawHourly /\ quota'.late = quota.late
        /\ quota'.drain = quota.drain /\ quota'.code = 1
        /\ limiter' = limiter /\ now' = now
    BY <1>1 DEF Unreachable
  <2>2. QED
    BY <2>1 DEF QuotaInv
<1>2. CASE Tick
  BY <1>2 DEF Tick, QuotaInv
<1>3. CASE UNCHANGED quotaVars
  BY <1>3 DEF quotaVars, QuotaInv
<1>4. QED
  BY <1>1, <1>2, <1>3, FirstKeeps, ProbeKeeps, ConcludeKeeps DEF QuotaNext

\* The probe only says that the hourly quota is enforced when a request was refused by the
\* hourly limit, and a drain that ends well within its hour has got there.
THEOREM QuotaVerdicts == QuotaSpec => []VerdictIsEarned
<1>1. QuotaInv => VerdictIsEarned
  <2> SUFFICES ASSUME QuotaInv PROVE VerdictIsEarned
    OBVIOUS
  <2>1. now \in Nat /\ quota.from \in Nat /\ quota.from < Window
    BY QuotaConstants DEF QuotaInv
  <2>2. quota.from \div Window = 0 /\ (now \div Window = 0 => now < Window)
    BY <2>1, FirstHour
  <2>3. QED
    BY <2>2 DEF QuotaInv, VerdictIsEarned, HourlyMeansHourly, DrainReachesTheLimit
<1>2. QED
  BY QuotaInitHolds, QuotaStep, <1>1, PTL DEF QuotaSpec

-----------------------------------------------------------------------------
(***************************************************************************)
(* A digest of the two aliases is faithful, for any aliases and indices,   *)
(* wherever an alias moves.  The ids of a finite index are ranked by how   *)
(* many come before them, so a page is what follows the last id in order,  *)
(* without a gap; the invariant says of the digest under way that it is    *)
(* the index up to its last document, as long as no alias has moved.       *)
(***************************************************************************)

(* What a page holds.                                                      *)

Doc(docs, id) == [id |-> id, hash |-> docs[id]]
DocsOf(docs) == {Doc(docs, id) : id \in DOMAIN docs}
Ascending(list) == \A i, j \in 1..Len(list) : i < j => list[i].id < list[j].id

LEMMA PageIs ==
    ASSUME NEW docs, IsFiniteSet(DOMAIN docs), DOMAIN docs \subseteq Nat \ {0}, NEW after \in Nat
    PROVE  LET list == Page(docs, after) IN
           /\ list \in Seq(DocsOf(docs)) /\ Ascending(list)
           /\ \A i \in 1..Len(list) : list[i].id > after
           /\ list = Empty => \A id \in DOMAIN docs : id <= after
           /\ list # Empty => /\ Len(list) \in Nat \ {0}
                              /\ \A id \in DOMAIN docs : after < id /\ id <= list[Len(list)].id =>
                                    \E i \in 1..Len(list) : list[i] = Doc(docs, id)
<1> DEFINE ids == {id \in DOMAIN docs : id > after}
           k == Cardinality(ids)
           n == IF k < PageSize THEN k ELSE PageSize
           list == [i \in 1..n |-> Doc(docs, Nth(ids, i))]
<1>1. ids \in SUBSET Nat /\ IsFiniteSet(ids)
  BY FS_Subset
<1>2. k \in Nat /\ (k = 0 <=> ids = {})
  BY <1>1, FS_CardinalityType, FS_EmptySet
<1>3. PageSize \in Nat \ {0}
  BY SnapshotConstants
<1>4. n \in Nat /\ n <= k /\ (n = 0 <=> k = 0)
  BY <1>2, <1>3
<1>5. Page(docs, after) = list
  BY DEF Page, PageOf, Doc
<1>6. \A i \in 1..n : Nth(ids, i) \in ids /\ Cardinality(Before(ids, Nth(ids, i))) = i - 1
  <2> HIDE DEF n, ids
  <2>1. \A i \in 1..n : i \in 1..k
    BY <1>2, <1>4
  <2>2. QED
    BY <1>1, <2>1, NthIs
<1>7. \A i \in 1..n : list[i] = Doc(docs, Nth(ids, i)) /\ list[i].id = Nth(ids, i)
  BY DEF Doc
<1>8. list \in Seq(DocsOf(docs)) /\ Len(list) = n
  <2>1. \A i \in 1..n : Doc(docs, Nth(ids, i)) \in DocsOf(docs)
    BY <1>6 DEF DocsOf
  <2> HIDE DEF n, ids
  <2>2. list \in [1..n -> DocsOf(docs)]
    BY <2>1
  <2> HIDE DEF list
  <2>3. QED
    BY <1>4, <2>2
<1>9. \A i \in 1..n : list[i].id > after /\ list[i].id \in ids
  BY <1>6, <1>7
<1> HIDE DEF list, n, k
<1>10. Ascending(list)
  <2>1. SUFFICES ASSUME NEW i \in 1..n, NEW j \in 1..n, i < j PROVE list[i].id < list[j].id
    BY <1>8 DEF Ascending
  <2>2. Nth(ids, i) \in ids /\ Nth(ids, j) \in ids
        /\ Cardinality(Before(ids, Nth(ids, i))) = i - 1
        /\ Cardinality(Before(ids, Nth(ids, j))) = j - 1
    BY <1>6
  <2> HIDE DEF ids
  <2> DEFINE a == Nth(ids, i)
             b == Nth(ids, j)
  <2>3. a < b <=> i - 1 < j - 1
    <3>1. /\ a \in ids /\ Cardinality(Before(ids, a)) = i - 1
          /\ b \in ids /\ Cardinality(Before(ids, b)) = j - 1
      BY <2>2
    <3> HIDE DEF a, b
    <3>2. a < b <=> Cardinality(Before(ids, a)) < Cardinality(Before(ids, b))
      BY <1>1, <3>1, BeforeGrows
    <3>3. QED
      BY <3>1, <3>2
  <2>4. QED
    BY <1>4, <1>7, <2>1, <2>3
<1>11. list = Empty <=> n = 0
  BY <1>4, <1>8, EmptySeq DEF Empty
<1>12. list = Empty => \A id \in DOMAIN docs : id <= after
  BY <1>2, <1>4, <1>11
<1>13. ASSUME list # Empty
       PROVE  /\ Len(list) \in Nat \ {0}
              /\ \A id \in DOMAIN docs : after < id /\ id <= list[Len(list)].id =>
                    \E i \in 1..Len(list) : list[i] = Doc(docs, id)
  <2>1. n \in Nat \ {0} /\ Len(list) = n
    BY <1>4, <1>8, <1>11, <1>13
  <2>2. SUFFICES ASSUME NEW id \in ids, id <= list[n].id
                 PROVE  \E i \in 1..n : list[i] = Doc(docs, id)
    BY <2>1
  <2> DEFINE i == Cardinality(Before(ids, id)) + 1
  <2>3. n \in 1..n /\ list[n].id = Nth(ids, n) /\ Nth(ids, n) \in ids
        /\ Cardinality(Before(ids, Nth(ids, n))) = n - 1
    BY <1>6, <1>7, <2>1
  <2>4. ~(Nth(ids, n) < id)
    BY <1>1, <2>2, <2>3
  <2> HIDE DEF ids
  <2>5. Cardinality(Before(ids, id)) \in 0..(k - 1)
        /\ ~(Cardinality(Before(ids, Nth(ids, n))) < Cardinality(Before(ids, id)))
    BY <1>1, <2>2, <2>3, <2>4, BeforeGrows DEF k
  <2>6. i \in 1..n
    BY <1>2, <2>1, <2>3, <2>5
  <2>7. Cardinality(Before(ids, Nth(ids, i))) = Cardinality(Before(ids, id)) /\ Nth(ids, i) \in ids
    <3>1. Cardinality(Before(ids, id)) \in Nat
      BY <1>2, <2>5
    <3>2. Cardinality(Before(ids, Nth(ids, i))) = i - 1 /\ Nth(ids, i) \in ids
      BY <1>6, <2>6
    <3>3. QED
      BY <3>1, <3>2
  <2> HIDE DEF i
  <2>8. Nth(ids, i) = id
    BY <1>1, <2>7, BeforeGrows
  <2>9. QED
    BY <1>7, <2>6, <2>8
<1>14. \A i \in 1..Len(list) : list[i].id > after
  BY <1>8, <1>9
<1>15. QED
  BY <1>5, <1>8, <1>10, <1>12, <1>13, <1>14

(* What a page adds to a digest.                                           *)

Indices == {Generations[g] : g \in 1..Len(Generations)}
AllDocs == UNION {DocsOf(index.docs) : index \in Indices}
Digests ==
    [settings : {0} \cup {index.settings : index \in Indices},
     mappings : {0} \cup {index.mappings : index \in Indices},
     docs : Seq(AllDocs)]

\* The end of a list of documents: what After is of the digest under way.
EndOf(list) == IF list = Empty THEN 0 ELSE list[Len(list)].id

LEMMA IndexTypes ==
    ASSUME NEW index \in Indices
    PROVE  /\ index = [settings |-> index.settings, mappings |-> index.mappings, docs |-> index.docs]
           /\ index.docs = [id \in DOMAIN index.docs |-> index.docs[id]]
           /\ IsFiniteSet(DOMAIN index.docs) /\ DOMAIN index.docs \subseteq Nat \ {0}
           /\ DocsOf(index.docs) \subseteq AllDocs
BY SnapshotConstants DEF Indices, AllDocs

LEMMA DocTypes == \A d \in AllDocs : d.id \in Nat
<1>1. SUFFICES ASSUME NEW index \in Indices, NEW d \in DocsOf(index.docs) PROVE d.id \in Nat
  BY DEF AllDocs
<1>2. PICK id \in DOMAIN index.docs : d = Doc(index.docs, id)
  BY DEF DocsOf
<1>3. QED
  BY <1>2, IndexTypes DEF Doc

\* What is listed after some pages, in order, is what there is up to the last of them.
LEMMA PageAdds ==
    ASSUME NEW index \in Indices, NEW list \in Seq(AllDocs), Ascending(list),
           Page(index.docs, EndOf(list)) # Empty
    PROVE  LET longer == list \o Page(index.docs, EndOf(list)) IN
           /\ longer \in Seq(AllDocs) /\ longer # Empty /\ Ascending(longer)
           /\ ToSet(list) = {d \in DocsOf(index.docs) : d.id <= EndOf(list)} =>
                ToSet(longer) = {d \in DocsOf(index.docs) : d.id <= EndOf(longer)}
<1> DEFINE docs == index.docs
           after == EndOf(list)
<1>0. /\ IsFiniteSet(DOMAIN docs) /\ DOMAIN docs \subseteq Nat \ {0}
      /\ DocsOf(docs) \subseteq AllDocs /\ (\A d \in AllDocs : d.id \in Nat)
      /\ after = IF list = Empty THEN 0 ELSE list[Len(list)].id
      /\ Page(docs, after) # Empty
  BY IndexTypes, DocTypes DEF EndOf
<1> HIDE DEF docs, after
<1> DEFINE pg == Page(docs, after)
           longer == list \o pg
           m == Len(list)
           n == Len(pg)
<1>1. m \in Nat /\ (m = 0 <=> list = Empty) /\ \A i \in 1..m : list[i] \in AllDocs
  BY EmptySeq, ElementOfSeq DEF Empty
<1>2. after \in Nat
  <2>1. list # Empty => m \in 1..m
    BY <1>1
  <2>2. QED
    BY <1>0, <1>1, <2>1
<1>3. /\ pg \in Seq(DocsOf(docs)) /\ Ascending(pg) /\ n \in Nat \ {0}
      /\ \A i \in 1..n : pg[i].id > after
      /\ \A id \in DOMAIN docs : after < id /\ id <= pg[n].id =>
            \E i \in 1..n : pg[i] = Doc(docs, id)
  BY <1>0, <1>2, PageIs
<1> HIDE DEF pg, m
<1>4. pg \in Seq(AllDocs)
  BY <1>0, <1>3, SeqMonotonic
<1>5. /\ longer \in Seq(AllDocs) /\ Len(longer) = m + n
      /\ \A i \in 1..(m + n) : longer[i] = IF i <= m THEN list[i] ELSE pg[i - m]
  BY <1>4, ConcatProperties DEF m
<1> HIDE DEF longer, n
<1>6. \A i \in 1..m : list[i].id <= after /\ list[i].id \in Nat
  <2>1. SUFFICES ASSUME NEW i \in 1..m PROVE list[i].id <= after /\ list[i].id \in Nat
    OBVIOUS
  <2>2. m \in 1..m /\ (i = m \/ i < m) /\ after = list[m].id
    BY <1>0, <1>1, <2>1 DEF m
  <2>3. list[i].id \in Nat /\ list[m].id \in Nat
    BY <1>0, <1>1, <2>1, <2>2
  <2>4. i < m => list[i].id < list[m].id
    BY <2>1, <2>2 DEF Ascending, m
  <2>5. QED
    BY <2>2, <2>3, <2>4
<1>7. \A i \in 1..n : pg[i] \in AllDocs /\ pg[i].id \in Nat /\ pg[i] \in DocsOf(docs)
  BY <1>0, <1>3, <1>4, ElementOfSeq DEF n
<1>8. Ascending(longer)
  <2>1. SUFFICES ASSUME NEW i \in 1..(m + n), NEW j \in 1..(m + n), i < j
                 PROVE  longer[i].id < longer[j].id
    BY <1>5 DEF Ascending
  <2>2. CASE j <= m
    <3>1. i \in 1..m /\ j \in 1..m
      BY <1>1, <2>1, <2>2
    <3>2. list[i].id < list[j].id
      BY <2>1, <3>1 DEF Ascending, m
    <3>3. QED
      BY <1>5, <2>1, <2>2, <3>1, <3>2
  <2>3. CASE i <= m /\ j > m
    <3>1. i \in 1..m /\ j - m \in 1..n /\ longer[i] = list[i] /\ longer[j] = pg[j - m]
      BY <1>1, <1>3, <1>5, <2>1, <2>3
    <3>2. list[i].id <= after /\ pg[j - m].id > after /\ list[i].id \in Nat /\ pg[j - m].id \in Nat
      BY <1>3, <1>6, <1>7, <3>1
    <3>3. QED
      BY <1>2, <3>1, <3>2
  <2>4. CASE i > m
    <3>1. i - m \in 1..n /\ j - m \in 1..n /\ i - m < j - m
          /\ longer[i] = pg[i - m] /\ longer[j] = pg[j - m]
      BY <1>1, <1>3, <1>5, <2>1, <2>4
    <3>2. pg[i - m].id < pg[j - m].id
      BY <1>3, <3>1 DEF Ascending, n
    <3>3. QED
      BY <3>1, <3>2
  <2>5. QED
    BY <1>1, <2>1, <2>2, <2>3, <2>4
<1>9. longer # Empty
  BY <1>1, <1>3, <1>5, EmptySeq DEF Empty
<1>10. longer[Len(longer)] = pg[n] /\ n \in 1..n
  <2>1. m + n \in 1..(m + n) /\ ~(m + n <= m) /\ (m + n) - m = n /\ n \in 1..n
    BY <1>1, <1>3
  <2>2. QED
    BY <1>5, <2>1
<1>11. ASSUME ToSet(list) = {d \in DocsOf(docs) : d.id <= after}
       PROVE  ToSet(longer) = {d \in DocsOf(docs) : d.id <= pg[n].id}
  <2>1. ToSet(longer) = {longer[i] : i \in 1..(m + n)} /\ ToSet(list) = {list[i] : i \in 1..m}
    <3>1. DOMAIN longer = 1..(m + n) /\ DOMAIN list = 1..m
      BY <1>5 DEF m
    <3>2. QED
      BY <3>1 DEF ToSet
  <2>2. ASSUME NEW d \in ToSet(longer) PROVE d \in DocsOf(docs) /\ d.id <= pg[n].id
    <3>1. PICK i \in 1..(m + n) : d = longer[i]
      BY <2>1
    <3>2. CASE i <= m
      <4>1. i \in 1..m /\ d = list[i]
        BY <1>1, <1>5, <3>1, <3>2
      <4>2. d \in ToSet(list)
        BY <2>1, <4>1
      <4>3. d \in DocsOf(docs) /\ d.id <= after /\ d.id \in Nat
        BY <1>6, <1>11, <4>1, <4>2
      <4>4. QED
        BY <1>2, <1>3, <1>7, <1>10, <4>3
    <3>3. CASE i > m
      <4>1. i - m \in 1..n /\ d = pg[i - m]
        BY <1>1, <1>3, <1>5, <3>1, <3>3
      <4>2. d \in DocsOf(docs) /\ d.id \in Nat /\ pg[n].id \in Nat
        BY <1>7, <1>10, <4>1
      <4>3. i - m < n => pg[i - m].id < pg[n].id
        BY <1>3, <1>10, <4>1 DEF Ascending, n
      <4>4. i - m = n \/ i - m < n
        BY <1>3, <4>1
      <4>5. QED
        BY <4>1, <4>2, <4>3, <4>4
    <3>4. QED
      BY <1>1, <3>2, <3>3
  <2>3. ASSUME NEW d \in DocsOf(docs), d.id <= pg[n].id PROVE d \in ToSet(longer)
    <3>1. PICK id \in DOMAIN docs : d = Doc(docs, id)
      BY DEF DocsOf
    <3>2. d.id = id /\ id \in Nat
      BY <1>0, <3>1 DEF Doc
    <3>3. CASE id <= after
      <4>1. d \in ToSet(list)
        BY <1>11, <3>2, <3>3
      <4>2. PICK i \in 1..m : d = list[i]
        BY <2>1, <4>1
      <4>3. i \in 1..(m + n) /\ longer[i] = list[i]
        BY <1>1, <1>3, <1>5, <4>2
      <4>4. QED
        BY <2>1, <4>2, <4>3
    <3>4. CASE after < id
      <4>1. PICK i \in 1..n : pg[i] = Doc(docs, id)
        BY <1>3, <2>3, <3>2, <3>4
      <4>2. m + i \in 1..(m + n) /\ ~(m + i <= m) /\ (m + i) - m = i
        BY <1>1, <1>3, <4>1
      <4>3. longer[m + i] = d
        BY <1>5, <3>1, <4>1, <4>2
      <4>4. QED
        BY <2>1, <4>2, <4>3
    <3>5. QED
      BY <1>2, <3>2, <3>3, <3>4
  <2>4. QED
    BY <2>2, <2>3
<1>12. EndOf(longer) = longer[Len(longer)].id
  BY <1>9 DEF EndOf
<1>13. QED
  BY <1>5, <1>8, <1>9, <1>10, <1>11, <1>12 DEF longer, pg, docs, after

(* What two whole digests tell.                                            *)

Whole(digest, index) ==
    /\ digest.settings = index.settings /\ digest.mappings = index.mappings
    /\ ToSet(digest.docs) = DocsOf(index.docs)

\* A list in order counts each document once.
LEMMA OrderCounts ==
    ASSUME NEW list \in Seq(AllDocs), Ascending(list)
    PROVE  Len(list) = Cardinality(ToSet(list))
<1>1. \A i, j \in 1..Len(list) : list[i] = list[j] => i = j
  <2>1. SUFFICES ASSUME NEW i \in 1..Len(list), NEW j \in 1..Len(list),
                        list[i] = list[j], i # j
                 PROVE  FALSE
    OBVIOUS
  <2>2. i < j \/ j < i
    BY <2>1, LenProperties
  <2>3. list[i].id < list[j].id \/ list[j].id < list[i].id
    BY <2>2 DEF Ascending
  <2>4. list[i].id \in Nat
    BY DocTypes, ElementOfSeq
  <2>5. QED
    BY <2>1, <2>3, <2>4
<1>2. QED
  BY <1>1, DistinctCount

LEMMA WholeHashes ==
    ASSUME NEW digest, NEW index, Whole(digest, index)
    PROVE  /\ Hashes(digest) = {<<id, index.docs[id]>> : id \in DOMAIN index.docs}
           /\ DocIds(digest) = DOMAIN index.docs
<1>1. /\ Hashes(digest) = {<<d.id, d.hash>> : d \in DocsOf(index.docs)}
      /\ DocIds(digest) = {d.id : d \in DocsOf(index.docs)}
  BY DEF Whole, Hashes, DocIds
<1>2. \A id \in DOMAIN index.docs :
        Doc(index.docs, id).id = id /\ Doc(index.docs, id).hash = index.docs[id]
  BY DEF Doc
<1>3. {<<d.id, d.hash>> : d \in DocsOf(index.docs)} = {<<id, index.docs[id]>> : id \in DOMAIN index.docs}
  BY <1>2 DEF DocsOf
<1>4. {d.id : d \in DocsOf(index.docs)} = DOMAIN index.docs
  BY <1>2 DEF DocsOf
<1>5. QED
  BY <1>1, <1>3, <1>4

\* Whole digests of two indices differ exactly when the indices do.
LEMMA DifferenceIsExact ==
    ASSUME NEW left \in Digests, NEW right \in Digests,
           Ascending(left.docs), Ascending(right.docs),
           NEW g \in Indices, NEW h \in Indices, Whole(left, g), Whole(right, h)
    PROVE  Differs(left, right) <=> g # h
<1>1. /\ Hashes(left) = {<<id, g.docs[id]>> : id \in DOMAIN g.docs}
      /\ DocIds(left) = DOMAIN g.docs
      /\ Hashes(right) = {<<id, h.docs[id]>> : id \in DOMAIN h.docs}
      /\ DocIds(right) = DOMAIN h.docs
  BY WholeHashes
<1>2. /\ Len(left.docs) = Cardinality(DocsOf(g.docs))
      /\ Len(right.docs) = Cardinality(DocsOf(h.docs))
  BY OrderCounts DEF Digests, Whole
<1>3. ASSUME g = h PROVE ~Differs(left, right)
  BY <1>1, <1>2, <1>3 DEF Whole, Differs, Missing, Added, Changed
<1>4. ASSUME ~Differs(left, right) PROVE g = h
  <2>1. g.settings = h.settings /\ g.mappings = h.mappings
    BY <1>4 DEF Differs, Whole
  <2>2. DOMAIN g.docs = DOMAIN h.docs
    BY <1>1, <1>4 DEF Differs, Missing, Added
  <2>3. \A id \in DOMAIN g.docs :
            {p \in Hashes(left) : p[1] = id} = {p \in Hashes(right) : p[1] = id}
    BY <1>1, <1>4, <2>2 DEF Differs, Changed
  <2>4. ASSUME NEW id \in DOMAIN g.docs PROVE g.docs[id] = h.docs[id]
    <3>1. <<id, g.docs[id]>> \in {p \in Hashes(left) : p[1] = id}
      BY <1>1
    <3>2. <<id, g.docs[id]>> \in Hashes(right)
      BY <2>3, <3>1
    <3>3. QED
      BY <1>1, <3>2
  <2>5. g.docs = h.docs
    <3>1. /\ g.docs = [id \in DOMAIN g.docs |-> g.docs[id]]
          /\ h.docs = [id \in DOMAIN h.docs |-> h.docs[id]]
      BY IndexTypes
    <3>2. [id \in DOMAIN g.docs |-> g.docs[id]] = [id \in DOMAIN h.docs |-> h.docs[id]]
      BY <2>2, <2>4
    <3>3. QED
      BY <3>1, <3>2
  <2>6. QED
    BY <2>1, <2>5, IndexTypes
<1>5. QED
  BY <1>3, <1>4

(* The invariant.                                                          *)

Takers ==
    [into : Files \cup {"nothing"}, at : 1..Len(Aliases), step : {"settings", "mappings", "pages"},
     concrete : 0..Len(Generations), digest : Digests, done : Seq(Digests), undisturbed : BOOLEAN]
Written == [aliases : Seq(Digests), undisturbed : BOOLEAN, served : [Served -> Indices]]

\* The digest of an index up to the last document that was listed.
Partial(step, digest, index) ==
    /\ step # "settings" => digest.settings = index.settings
    /\ step = "pages" => /\ digest.mappings = index.mappings
                         /\ ToSet(digest.docs) = {d \in DocsOf(index.docs) : d.id <= EndOf(digest.docs)}

TakerInOrder(t) ==
    /\ t.into = "nothing" => t = Resting
    /\ Len(t.done) = t.at - 1
    /\ \A i \in 1..Len(t.done) : Ascending(t.done[i].docs)
    /\ Ascending(t.digest.docs)
    /\ t.step # "pages" => t.digest.docs = Empty

TakerWhole(t, s) ==
    t.undisturbed =>
        /\ \A i \in 1..Len(t.done) : Whole(t.done[i], Generations[s[Aliases[i]]])
        /\ t.step = "mappings" => t.concrete = s[Aliases[t.at]]
        /\ Partial(t.step, t.digest, Generations[s[Aliases[t.at]]])

FileGood(f) ==
    /\ f \in Written /\ Len(f.aliases) = Len(Aliases)
    /\ \A i \in 1..Len(Aliases) : Ascending(f.aliases[i].docs)
    /\ f.undisturbed => \A i \in 1..Len(Aliases) : Whole(f.aliases[i], f.served[Aliases[i]])

SnapInv ==
    /\ serving \in [Served -> 1..Len(Generations)]
    /\ taker \in Takers
    /\ TakerInOrder(taker) /\ TakerWhole(taker, serving)
    /\ DOMAIN file = Files
    /\ \A f \in Files : file[f] # Empty => FileGood(file[f])
    /\ DiffIsExact

LEMMA AliasTypes ==
    /\ Len(Aliases) \in Nat \ {0} /\ Len(Generations) \in Nat \ {0}
    /\ \A i \in 1..Len(Aliases) : Aliases[i] \in Served
    /\ \A a \in Served : \E i \in 1..Len(Aliases) : Aliases[i] = a
    /\ \A g \in 1..Len(Generations) : Generations[g] \in Indices
<1>1. Aliases \in Seq(STRING) /\ Aliases # <<>> /\ Len(Generations) \in Nat \ {0}
  BY SnapshotConstants
<1>2. Len(Aliases) \in Nat \ {0} /\ DOMAIN Aliases = 1..Len(Aliases)
  BY <1>1, EmptySeq, LenProperties
<1>3. QED
  BY <1>1, <1>2 DEF Served, ToSet, Indices

LEMMA RestingIs ==
    ASSUME NEW s PROVE Resting \in Takers /\ TakerInOrder(Resting) /\ TakerWhole(Resting, s)
<1>1. NewDigest \in Digests /\ Empty \in Seq(Digests) /\ Len(Empty) = 0
  BY EmptySeq DEF NewDigest, Digests, Empty
<1>2. 1 \in 1..Len(Aliases)
  BY AliasTypes
<1>3. Resting \in Takers
  BY <1>1, <1>2 DEF Resting, Takers
<1>4. TakerInOrder(Resting)
  BY <1>1 DEF TakerInOrder, Resting, NewDigest, Ascending
<1>5. TakerWhole(Resting, s)
  BY <1>1 DEF TakerWhole, Partial, Resting
<1>6. QED
  BY <1>3, <1>4, <1>5

LEMMA SnapStart == SnapshotsInit => SnapInv
<1>1. SUFFICES ASSUME SnapshotsInit PROVE SnapInv
  OBVIOUS
<1>2. serving \in [Served -> 1..Len(Generations)]
  BY <1>1, AliasTypes DEF SnapshotsInit
<1>3. taker \in Takers /\ TakerInOrder(taker) /\ TakerWhole(taker, serving)
  BY <1>1, RestingIs DEF SnapshotsInit
<1>4. DOMAIN file = Files /\ \A f \in Files : file[f] = Empty
  BY <1>1 DEF SnapshotsInit
<1>5. DiffIsExact
  BY <1>1 DEF SnapshotsInit, DiffIsExact
<1>6. QED
  BY <1>2, <1>3, <1>4, <1>5 DEF SnapInv

\* A step that leaves the comparison and the files alone.
LEMMA SnapTakerStep ==
    ASSUME SnapInv, UNCHANGED <<file, verdict>>,
           serving' \in [Served -> 1..Len(Generations)],
           taker' \in Takers, TakerInOrder(taker'), TakerWhole(taker', serving')
    PROVE  SnapInv'
<1>1. DiffIsExact'
  BY DEF SnapInv, DiffIsExact
<1>2. DOMAIN file' = Files /\ \A f \in Files : file'[f] # Empty => FileGood(file'[f])
  BY DEF SnapInv
<1>3. QED
  BY <1>1, <1>2 DEF SnapInv

LEMMA SnapSnapshot == ASSUME SnapInv, NEW f \in Files, Snapshot(f) PROVE SnapInv'
<1>1. Resting \in Takers /\ TakerInOrder(Resting) /\ TakerWhole(Resting, serving)
  BY RestingIs
<1>2. f # "nothing"
  BY DEF Files
<1>3. ASSUME NEW t \in Takers, TakerInOrder(t), TakerWhole(t, serving)
      PROVE  LET w == [t EXCEPT !.into = f] IN
             w \in Takers /\ TakerInOrder(w) /\ TakerWhole(w, serving)
  <2> DEFINE w == [t EXCEPT !.into = f]
  <2>1. /\ w \in Takers /\ w.into = f /\ w.at = t.at /\ w.step = t.step /\ w.digest = t.digest
        /\ w.done = t.done /\ w.undisturbed = t.undisturbed /\ w.concrete = t.concrete
    BY DEF Takers
  <2> HIDE DEF w
  <2>2. TakerInOrder(w) /\ TakerWhole(w, serving)
    BY <1>2, <1>3, <2>1 DEF TakerInOrder, TakerWhole
  <2>3. QED
    BY <2>1, <2>2 DEF w
<1>4. QED
  BY <1>1, <1>3, SnapTakerStep DEF Snapshot, SnapInv

LEMMA SnapFail == ASSUME SnapInv, Fail PROVE SnapInv'
<1>1. Resting \in Takers /\ TakerInOrder(Resting) /\ TakerWhole(Resting, serving)
  BY RestingIs
<1>2. QED
  BY <1>1, SnapTakerStep DEF Fail, SnapInv

LEMMA SnapMove == ASSUME SnapInv, NEW a \in Served, Move(a) PROVE SnapInv'
<1>1. serving' \in [Served -> 1..Len(Generations)]
  <2>1. serving[a] \in 1..Len(Generations) /\ serving[a] + 1 \in 1..Len(Generations)
    BY AliasTypes DEF SnapInv, Move
  <2>2. QED
    BY <2>1 DEF SnapInv, Move
<1>2. CASE taker.into = "nothing"
  <2>1. taker' = Resting
    BY <1>2 DEF SnapInv, TakerInOrder, Move
  <2>2. TakerWhole(Resting, serving')
    BY RestingIs
  <2>3. QED
    BY <1>1, <2>1, <2>2, RestingIs, SnapTakerStep DEF Move
<1>3. CASE taker.into # "nothing"
  <2>1. ASSUME NEW t \in Takers, TakerInOrder(t), t.into # "nothing", NEW s
        PROVE  LET w == [t EXCEPT !.undisturbed = FALSE] IN
               w \in Takers /\ TakerInOrder(w) /\ TakerWhole(w, s)
    <3> DEFINE w == [t EXCEPT !.undisturbed = FALSE]
    <3>1. /\ w \in Takers /\ w.into = t.into /\ w.at = t.at /\ w.step = t.step
          /\ w.digest = t.digest /\ w.done = t.done /\ w.undisturbed = FALSE
      BY DEF Takers
    <3> HIDE DEF w
    <3>2. TakerInOrder(w) /\ TakerWhole(w, s)
      BY <2>1, <3>1 DEF TakerInOrder, TakerWhole
    <3>3. QED
      BY <3>1, <3>2 DEF w
  <2>2. taker' = [taker EXCEPT !.undisturbed = FALSE]
    BY <1>3 DEF Move
  <2>3. QED
    BY <1>1, <1>3, <2>1, <2>2, SnapTakerStep DEF Move, SnapInv
<1>4. QED
  BY <1>2, <1>3

LEMMA SnapReadSettings == ASSUME SnapInv, ReadSettings PROVE SnapInv'
<1>1. ASSUME NEW t \in Takers, TakerInOrder(t), TakerWhole(t, serving),
             t.into # "nothing", t.step = "settings",
             NEW index \in Indices, index = Generations[serving[Aliases[t.at]]],
             serving[Aliases[t.at]] \in 1..Len(Generations)
      PROVE  LET w == [t EXCEPT !.step = "mappings", !.concrete = serving[Aliases[t.at]],
                               !.digest.settings = index.settings] IN
             w \in Takers /\ TakerInOrder(w) /\ TakerWhole(w, serving)
  <2> DEFINE e == [t.digest EXCEPT !.settings = index.settings]
             w == [t EXCEPT !.step = "mappings", !.concrete = serving[Aliases[t.at]],
                            !.digest.settings = index.settings]
  <2>1. t.digest \in Digests
    BY DEF Takers
  <2>2. e \in Digests /\ e.settings = index.settings /\ e.docs = t.digest.docs
    BY <2>1 DEF Digests
  <2>3. /\ w \in Takers /\ w.into = t.into /\ w.at = t.at /\ w.step = "mappings"
        /\ w.digest = e /\ w.done = t.done /\ w.undisturbed = t.undisturbed
        /\ w.concrete = serving[Aliases[t.at]]
    <3>1. serving[Aliases[t.at]] \in 0..Len(Generations)
      BY <1>1, AliasTypes
    <3>2. QED
      BY <2>2, <3>1 DEF Takers
  <2> HIDE DEF w, e
  <2>4. TakerInOrder(w)
    BY <1>1, <2>2, <2>3 DEF TakerInOrder
  <2>5. TakerWhole(w, serving)
    BY <1>1, <2>2, <2>3 DEF TakerWhole, Partial
  <2>6. QED
    BY <2>3, <2>4, <2>5 DEF w
<1>2. taker.at \in 1..Len(Aliases) /\ serving[Aliases[taker.at]] \in 1..Len(Generations)
  BY AliasTypes DEF SnapInv, Takers
<1>3. Index \in Indices /\ Index = Generations[serving[Aliases[taker.at]]]
  BY <1>2, AliasTypes DEF Index
<1>4. QED
  BY <1>1, <1>2, <1>3, SnapTakerStep DEF ReadSettings, SnapInv

LEMMA SnapReadMappings == ASSUME SnapInv, ReadMappings PROVE SnapInv'
<1>1. ASSUME NEW t \in Takers, TakerInOrder(t), TakerWhole(t, serving), t.step = "mappings",
             NEW index \in Indices, index = Generations[serving[Aliases[t.at]]],
             NEW found \in {index.mappings, 0},
             t.concrete = serving[Aliases[t.at]] => found = index.mappings
      PROVE  LET w == [t EXCEPT !.step = "pages", !.digest.mappings = found] IN
             w \in Takers /\ TakerInOrder(w) /\ TakerWhole(w, serving)
  <2> DEFINE e == [t.digest EXCEPT !.mappings = found]
             w == [t EXCEPT !.step = "pages", !.digest.mappings = found]
  <2>1. t.digest \in Digests /\ t.into # "nothing"
    BY <1>1 DEF Takers, TakerInOrder, Resting
  <2>2. /\ e \in Digests /\ e.settings = t.digest.settings /\ e.mappings = found
        /\ e.docs = t.digest.docs
    BY <2>1 DEF Digests
  <2>3. /\ w \in Takers /\ w.into = t.into /\ w.at = t.at /\ w.step = "pages"
        /\ w.digest = e /\ w.done = t.done /\ w.undisturbed = t.undisturbed
    BY <2>2 DEF Takers
  <2> HIDE DEF w, e
  <2>4. TakerInOrder(w)
    BY <1>1, <2>1, <2>2, <2>3 DEF TakerInOrder
  <2>5. e.docs = Empty
    BY <1>1, <2>2 DEF TakerInOrder
  <2>6. ToSet(e.docs) = {d \in DocsOf(index.docs) : d.id <= EndOf(e.docs)}
    <3>1. ToSet(e.docs) = {} /\ EndOf(e.docs) = 0
      BY <2>5 DEF ToSet, Empty, EndOf
    <3>2. \A d \in DocsOf(index.docs) : d.id \in Nat \ {0}
      <4>1. \A id \in DOMAIN index.docs : id \in Nat \ {0} /\ Doc(index.docs, id).id = id
        BY IndexTypes DEF Doc
      <4>2. QED
        BY <4>1 DEF DocsOf
    <3>3. QED
      BY <3>1, <3>2
  <2>9. t.undisturbed => found = index.mappings
    BY <1>1 DEF TakerWhole
  <2>7. TakerWhole(w, serving)
    BY <1>1, <2>9, <2>2, <2>3, <2>6 DEF TakerWhole, Partial
  <2>8. QED
    BY <2>3, <2>4, <2>7 DEF w
<1>2. taker.at \in 1..Len(Aliases) /\ serving[Aliases[taker.at]] \in 1..Len(Generations)
  BY AliasTypes DEF SnapInv, Takers
<1>3. Index \in Indices /\ Index = Generations[serving[Aliases[taker.at]]]
  BY <1>2, AliasTypes DEF Index
<1>4. PICK found \in {Index.mappings, 0} :
        /\ taker' = [taker EXCEPT !.step = "pages", !.digest.mappings = found]
        /\ taker.concrete = serving[Aliases[taker.at]] => found = Index.mappings
  BY DEF ReadMappings
<1>5. taker.step = "mappings" /\ UNCHANGED <<serving, file, verdict>>
  BY DEF ReadMappings
<1>6. QED
  BY <1>1, <1>3, <1>4, <1>5, SnapTakerStep DEF SnapInv

\* What a page without hits tells of the digest, and what becomes of it.
LEMMA DoneIs ==
    ASSUME NEW t \in Takers, NEW s, TakerInOrder(t), TakerWhole(t, s), t.step = "pages",
           NEW index \in Indices, index = Generations[s[Aliases[t.at]]],
           Page(index.docs, EndOf(t.digest.docs)) = Empty
    PROVE  LET all == Append(t.done, t.digest) IN
           /\ all \in Seq(Digests) /\ Len(all) = t.at
           /\ \A i \in 1..t.at : Ascending(all[i].docs)
           /\ t.undisturbed => \A i \in 1..t.at : Whole(all[i], Generations[s[Aliases[i]]])
<1> DEFINE all == Append(t.done, t.digest)
<1>1. t.at \in Nat /\ t.done \in Seq(Digests) /\ t.digest \in Digests /\ Len(t.done) = t.at - 1
  BY AliasTypes DEF Takers, TakerInOrder
<1>2. /\ all \in Seq(Digests) /\ Len(all) = (t.at - 1) + 1
      /\ \A i \in 1..(t.at - 1) : all[i] = t.done[i]
      /\ all[(t.at - 1) + 1] = t.digest
  BY <1>1, AppendProperties
<1>3. /\ (t.at - 1) + 1 = t.at
      /\ \A i \in 1..t.at : i \in 1..(t.at - 1) \/ i = t.at
  BY <1>1
<1> HIDE DEF all
<1>4. ASSUME NEW i \in 1..t.at PROVE Ascending(all[i].docs)
  <2>1. CASE i = t.at
    BY <1>2, <1>3, <2>1 DEF TakerInOrder
  <2>2. CASE i \in 1..(t.at - 1)
    BY <1>1, <1>2, <2>2 DEF TakerInOrder
  <2>3. QED
    BY <1>3, <2>1, <2>2
<1>5. ASSUME t.undisturbed PROVE Whole(t.digest, index)
  <2> DEFINE list == t.digest.docs
  <2>1. /\ t.digest.settings = index.settings /\ t.digest.mappings = index.mappings
        /\ ToSet(list) = {d \in DocsOf(index.docs) : d.id <= EndOf(list)}
    BY <1>5 DEF TakerWhole, Partial
  <2>2. list \in Seq(AllDocs)
    BY <1>1 DEF Digests
  <2> HIDE DEF list
  <2>3. EndOf(list) \in Nat
    <3>1. list # Empty => Len(list) \in 1..Len(list)
      BY <2>2, EmptySeq DEF Empty
    <3>2. \A i \in 1..Len(list) : list[i].id \in Nat
      BY <2>2, ElementOfSeq, DocTypes
    <3>3. QED
      BY <3>1, <3>2 DEF EndOf
  <2>4. \A id \in DOMAIN index.docs : id <= EndOf(list)
    BY <2>3, IndexTypes, PageIs DEF list
  <2>5. \A d \in DocsOf(index.docs) : d.id <= EndOf(list)
    <3>1. \A id \in DOMAIN index.docs : Doc(index.docs, id).id = id
      BY DEF Doc
    <3>2. QED
      BY <2>4, <3>1 DEF DocsOf
  <2>6. QED
    BY <2>1, <2>5 DEF Whole, list
<1>6. ASSUME t.undisturbed, NEW i \in 1..t.at PROVE Whole(all[i], Generations[s[Aliases[i]]])
  <2>1. CASE i = t.at
    BY <1>2, <1>3, <1>5, <1>6, <2>1
  <2>2. CASE i \in 1..(t.at - 1)
    BY <1>1, <1>2, <1>6, <2>2 DEF TakerWhole
  <2>3. QED
    BY <1>3, <2>1, <2>2
<1>7. QED
  BY <1>2, <1>3, <1>4, <1>6 DEF all

LEMMA PageTaken ==
    ASSUME NEW t \in Takers, NEW s, TakerInOrder(t), TakerWhole(t, s), t.step = "pages",
           NEW index \in Indices, index = Generations[s[Aliases[t.at]]],
           NEW some, some = Page(index.docs, EndOf(t.digest.docs)), some # Empty
    PROVE  LET w == [t EXCEPT !.digest.docs = @ \o some] IN
           w \in Takers /\ TakerInOrder(w) /\ TakerWhole(w, s)
<1> DEFINE longer == t.digest.docs \o some
           e == [t.digest EXCEPT !.docs = longer]
           w == [t EXCEPT !.digest.docs = @ \o some]
<1>1. t.digest \in Digests /\ t.into # "nothing" /\ t.digest.docs \in Seq(AllDocs)
  BY DEF Takers, TakerInOrder, Resting, Digests
<1>2. Ascending(t.digest.docs)
  BY DEF TakerInOrder
<1>3. /\ longer \in Seq(AllDocs) /\ longer # Empty /\ Ascending(longer)
      /\ ToSet(t.digest.docs) = {d \in DocsOf(index.docs) : d.id <= EndOf(t.digest.docs)} =>
            ToSet(longer) = {d \in DocsOf(index.docs) : d.id <= EndOf(longer)}
  BY <1>1, <1>2, PageAdds, ZenonT(30)
<1> HIDE DEF longer
<1>4. /\ e \in Digests /\ e.settings = t.digest.settings /\ e.mappings = t.digest.mappings
      /\ e.docs = longer
  BY <1>1, <1>3 DEF Digests
<1>5. /\ w \in Takers /\ w.into = t.into /\ w.at = t.at /\ w.step = t.step
      /\ w.digest = e /\ w.done = t.done /\ w.undisturbed = t.undisturbed
  BY <1>4 DEF Takers, longer
<1> HIDE DEF w, e
<1>6. TakerInOrder(w)
  BY <1>1, <1>3, <1>4, <1>5 DEF TakerInOrder
<1>7. TakerWhole(w, s)
  BY <1>3, <1>4, <1>5 DEF TakerWhole, Partial
<1>8. QED
  BY <1>5, <1>6, <1>7 DEF w

LEMMA SnapReadPage == ASSUME SnapInv, ReadPage PROVE SnapInv'
<1> DEFINE all == Append(taker.done, taker.digest)
           some == Page(Index.docs, After)
<1>1. taker.at \in 1..Len(Aliases) /\ serving[Aliases[taker.at]] \in 1..Len(Generations)
  BY AliasTypes DEF SnapInv, Takers
<1>2. Index \in Indices /\ Index = Generations[serving[Aliases[taker.at]]]
  BY <1>1, AliasTypes DEF Index
<1>3. After = EndOf(taker.digest.docs)
  BY DEF After, EndOf, Last
<1>4. /\ taker \in Takers /\ TakerInOrder(taker) /\ TakerWhole(taker, serving)
      /\ serving \in [Served -> 1..Len(Generations)] /\ taker.step = "pages"
      /\ UNCHANGED <<serving, verdict>>
  BY DEF SnapInv, ReadPage
<1>5. CASE some # Empty
  <2>1. taker' = [taker EXCEPT !.digest.docs = @ \o some] /\ UNCHANGED file
    BY <1>5 DEF ReadPage
  <2> HIDE DEF some
  <2>2. taker' \in Takers /\ TakerInOrder(taker') /\ TakerWhole(taker', serving)
    BY <1>2, <1>3, <1>4, <1>5, <2>1, PageTaken DEF some
  <2>3. QED
    BY <1>4, <2>1, <2>2, SnapTakerStep
<1>6. ASSUME some = Empty
      PROVE  /\ all \in Seq(Digests) /\ Len(all) = taker.at
             /\ \A i \in 1..taker.at : Ascending(all[i].docs)
             /\ taker.undisturbed =>
                    \A i \in 1..taker.at : Whole(all[i], Generations[serving[Aliases[i]]])
  BY <1>2, <1>3, <1>4, <1>6, DoneIs
<1>7. CASE some = Empty /\ taker.at < Len(Aliases)
  <2> HIDE DEF all
  <2>1. ASSUME NEW t \in Takers, t = taker
        PROVE  LET w == [t EXCEPT !.at = @ + 1, !.step = "settings",
                                  !.digest = NewDigest, !.done = all]
               IN  w \in Takers /\ TakerInOrder(w) /\ TakerWhole(w, serving)
    <3> DEFINE w == [t EXCEPT !.at = @ + 1, !.step = "settings",
                              !.digest = NewDigest, !.done = all]
    <3>1. t.at + 1 \in 1..Len(Aliases) /\ t.at \in Nat /\ (t.at + 1) - 1 = t.at
      BY <1>1, <1>7, <2>1, AliasTypes
    <3>2. NewDigest \in Digests /\ NewDigest.docs = Empty /\ Ascending(Empty)
      BY EmptySeq DEF NewDigest, Digests, Empty, Ascending
    <3>3. /\ w \in Takers /\ w.into = t.into /\ w.at = t.at + 1 /\ w.step = "settings"
          /\ w.digest = NewDigest /\ w.done = all /\ w.undisturbed = t.undisturbed
      BY <1>6, <1>7, <3>1, <3>2 DEF Takers
    <3>4. t.into # "nothing"
      BY <1>4, <2>1 DEF TakerInOrder, Resting
    <3> HIDE DEF w
    <3>5. TakerInOrder(w)
      BY <1>6, <1>7, <2>1, <3>1, <3>2, <3>3, <3>4 DEF TakerInOrder
    <3>6. TakerWhole(w, serving)
      BY <1>6, <1>7, <2>1, <3>3 DEF TakerWhole, Partial
    <3>7. QED
      BY <3>3, <3>5, <3>6 DEF w
  <2>2. /\ taker' = [taker EXCEPT !.at = @ + 1, !.step = "settings",
                                  !.digest = NewDigest, !.done = all]
        /\ UNCHANGED file
    BY <1>7 DEF ReadPage, all
  <2>3. QED
    BY <1>4, <2>1, <2>2, SnapTakerStep
<1>8. CASE some = Empty /\ ~(taker.at < Len(Aliases))
  <2> DEFINE f == [aliases |-> all, undisturbed |-> taker.undisturbed,
                   served |-> [a \in Served |-> Generations[serving[a]]]]
  <2>1. file' = [file EXCEPT ![taker.into] = f] /\ taker' = Resting
    BY <1>8 DEF ReadPage
  <2>2. taker.at = Len(Aliases)
    BY <1>1, <1>8, AliasTypes
  <2>3. [a \in Served |-> Generations[serving[a]]] \in [Served -> Indices]
    BY <1>4, AliasTypes
  <2>4. \A i \in 1..Len(Aliases) : f.served[Aliases[i]] = Generations[serving[Aliases[i]]]
    BY AliasTypes
  <2> HIDE DEF all
  <2>5. f \in Written /\ f.aliases = all /\ f.undisturbed = taker.undisturbed
    BY <1>4, <1>6, <1>8, <2>3 DEF Written, Takers
  <2> HIDE DEF f
  <2>6. FileGood(f)
    BY <1>6, <1>8, <2>2, <2>4, <2>5 DEF FileGood
  <2>7. DOMAIN file' = Files /\ \A g \in Files : file'[g] # Empty => FileGood(file'[g])
    <3>1. DOMAIN file = Files /\ \A g \in Files : file[g] # Empty => FileGood(file[g])
      BY DEF SnapInv
    <3>2. DOMAIN file' = Files
      BY <2>1, <3>1
    <3>3. \A g \in Files : file'[g] = IF g = taker.into THEN f ELSE file[g]
      BY <2>1, <3>1
    <3>4. QED
      BY <2>6, <3>1, <3>2, <3>3
  <2>8. DiffIsExact'
    BY <1>4 DEF SnapInv, DiffIsExact
  <2>9. taker' \in Takers /\ TakerInOrder(taker') /\ TakerWhole(taker', serving')
    BY <2>1, RestingIs
  <2>10. QED
    BY <1>4, <2>7, <2>8, <2>9 DEF SnapInv
<1>9. QED
  BY <1>5, <1>7, <1>8

\* Two files, compared: each alias tells whether its two indices differ.
LEMMA SnapDiff == ASSUME SnapInv, Diff PROVE SnapInv'
<1> DEFINE l == file["baseline"]
           r == file["candidate"]
<1>1. FileGood(l) /\ FileGood(r) /\ l \in Written /\ r \in Written
  BY DEF SnapInv, Diff, Files, FileGood
<1>2. ASSUME l.undisturbed, r.undisturbed, NEW i \in 1..Len(Aliases)
      PROVE  Differs(l.aliases[i], r.aliases[i]) <=> l.served[Aliases[i]] # r.served[Aliases[i]]
  <2> DEFINE left == l.aliases[i]
             right == r.aliases[i]
             g == l.served[Aliases[i]]
             h == r.served[Aliases[i]]
  <2>1. left \in Digests /\ right \in Digests
    BY <1>1, ElementOfSeq DEF FileGood, Written
  <2>2. g \in Indices /\ h \in Indices
    BY <1>1, AliasTypes DEF Written
  <2>3. /\ Ascending(left.docs) /\ Ascending(right.docs)
        /\ Whole(left, g) /\ Whole(right, h)
    BY <1>1, <1>2 DEF FileGood
  <2> HIDE DEF left, right, g, h
  <2>4. Differs(left, right) <=> g # h
    BY <2>1, <2>2, <2>3, DifferenceIsExact
  <2>5. QED
    BY <2>4 DEF left, right, g, h
<1> DEFINE differ == \E i \in 1..Len(Aliases) : Differs(l.aliases[i], r.aliases[i])
<1>3. verdict' = [of |-> file, says |-> IF differ THEN "differ" ELSE "identical"]
  BY DEF Diff
<1>4. ASSUME l.undisturbed, r.undisturbed PROVE ~differ <=> l.served = r.served
  <2>1. ~differ <=> \A i \in 1..Len(Aliases) : l.served[Aliases[i]] = r.served[Aliases[i]]
    BY <1>2, <1>4
  <2>2. l.served \in [Served -> Indices] /\ r.served \in [Served -> Indices]
    BY <1>1 DEF Written
  <2> HIDE DEF l, r, differ
  <2>3. (\A i \in 1..Len(Aliases) : l.served[Aliases[i]] = r.served[Aliases[i]])
            => \A a \in Served : l.served[a] = r.served[a]
    BY AliasTypes
  <2>4. QED
    BY <2>1, <2>2, <2>3
<1>5. DiffIsExact'
  <2> HIDE DEF differ
  <2>1. verdict'.of = file /\ (verdict'.says = "identical" <=> ~differ)
    BY <1>3
  <2>2. QED
    BY <1>4, <2>1 DEF DiffIsExact, Files
<1>6. QED
  BY <1>5 DEF SnapInv, Diff

LEMMA SnapStep == SnapInv /\ [SnapshotsNext]_snapshotVars => SnapInv'
<1>1. SUFFICES ASSUME SnapInv, [SnapshotsNext]_snapshotVars PROVE SnapInv'
  OBVIOUS
<1>2. CASE UNCHANGED snapshotVars
  BY <1>1, <1>2, SnapTakerStep DEF snapshotVars, SnapInv
<1>3. CASE \E f \in Files : Snapshot(f)
  BY <1>1, <1>3, SnapSnapshot
<1>4. CASE ReadSettings
  BY <1>1, <1>4, SnapReadSettings
<1>5. CASE ReadMappings
  BY <1>1, <1>5, SnapReadMappings
<1>6. CASE ReadPage
  BY <1>1, <1>6, SnapReadPage
<1>7. CASE Fail
  BY <1>1, <1>7, SnapFail
<1>8. CASE Diff
  BY <1>1, <1>8, SnapDiff
<1>9. CASE \E a \in Served : Move(a)
  BY <1>1, <1>9, SnapMove
<1>10. QED
  BY <1>1, <1>2, <1>3, <1>4, <1>5, <1>6, <1>7, <1>8, <1>9 DEF SnapshotsNext

LEMMA SnapInvFaithful == SnapInv => DigestsAreFaithful
<1>1. SUFFICES ASSUME SnapInv PROVE DigestsAreFaithful
  OBVIOUS
<1>2. EachDocumentOnce
  <2>1. Ascending(taker.digest.docs)
    BY <1>1 DEF SnapInv, TakerInOrder
  <2>2. ASSUME NEW f \in Files, file[f] # Empty, NEW digest \in ToSet(file[f].aliases)
        PROVE  Ascending(digest.docs)
    <3>1. FileGood(file[f])
      BY <1>1, <2>2 DEF SnapInv
    <3>2. DOMAIN file[f].aliases = 1..Len(Aliases)
      BY <3>1, LenProperties DEF FileGood, Written
    <3>3. PICK i \in 1..Len(Aliases) : digest = file[f].aliases[i]
      BY <2>2, <3>2 DEF ToSet
    <3>4. QED
      BY <3>1, <3>3 DEF FileGood
  <2>3. QED
    BY <2>1, <2>2 DEF EachDocumentOnce, Ascending
<1>3. UndisturbedIsWhole
  <2>1. SUFFICES ASSUME NEW f \in Files, file[f] # Empty, file[f].undisturbed,
                        NEW i \in 1..Len(Aliases),
                        NEW digest, digest = file[f].aliases[i],
                        NEW index, index = file[f].served[Aliases[i]]
                 PROVE  /\ digest.settings = index.settings /\ digest.mappings = index.mappings
                        /\ Hashes(digest) = {<<id, index.docs[id]>> : id \in DOMAIN index.docs}
    BY DEF UndisturbedIsWhole
  <2>2. Whole(digest, index)
    BY <1>1, <2>1 DEF SnapInv, FileGood
  <2>3. QED
    BY <2>2, WholeHashes DEF Whole
<1>4. QED
  BY <1>1, <1>2, <1>3 DEF SnapInv, DigestsAreFaithful

(* Whatever the aliases are, whatever indices they are moved along and in   *)
(* whatever order: a digest lists each document once, a digest of indices   *)
(* left alone lists all they hold, and the comparison of two such digests   *)
(* says identical exactly when the indices held the same.                   *)
THEOREM DigestsFaithful == SnapshotsSpec => []DigestsAreFaithful
<1>1. SnapshotsSpec => []SnapInv
  BY SnapStart, SnapStep, PTL DEF SnapshotsSpec
<1>2. QED
  BY <1>1, SnapInvFaithful, PTL

-----------------------------------------------------------------------------
(***************************************************************************)
(* The verdicts of the corpus tools, for any poems: the reading of a poem  *)
(* with stars is one of the readings of its lines without them, and the    *)
(* rates by which the readings are compared are counts out of lengths.     *)
(***************************************************************************)

LinesOf == Seq(Hemistichs)

\* A letter is counted at most once for each line, and the commonest at least as often as any.
LEMMA DominantIs ==
    ASSUME NEW ajuz \in LinesOf
    PROVE  /\ Len(ajuz) \in Nat /\ DOMAIN ajuz = 1..Len(ajuz)
           /\ Dominant(ajuz) \in 0..Len(ajuz)
           /\ \A letter : (\A i \in DOMAIN ajuz : letter \in rawiCandidates(ajuz[i])) /\ ajuz # <<>>
                             => Dominant(ajuz) = Len(ajuz)
<1> DEFINE n == Len(ajuz)
           letters == UNION {rawiCandidates(ajuz[i]) : i \in DOMAIN ajuz}
           tallies == {0} \cup {Tally(ajuz, letter) : letter \in letters}
<1>1. n \in Nat /\ DOMAIN ajuz = 1..n
  BY LenProperties DEF LinesOf
<1>2. IsFiniteSet(1..n) /\ Cardinality(1..n) = n
  <2> HIDE DEF n
  <2>1. 1 \in Int /\ n \in Int /\ (1 > n <=> n = 0) /\ n - 1 + 1 = n
    BY <1>1
  <2>2. IsFiniteSet(1..n) /\ Cardinality(1..n) = IF 1 > n THEN 0 ELSE n - 1 + 1
    BY <2>1, FS_Interval
  <2>3. QED
    BY <2>1, <2>2
<1>3. \A letter : Tally(ajuz, letter) \in 0..n
  <2>1. TAKE letter
  <2> DEFINE told == {i \in DOMAIN ajuz : letter \in rawiCandidates(ajuz[i])}
  <2>2. told \subseteq 1..n
    BY <1>1
  <2> HIDE DEF told
  <2>3. IsFiniteSet(told) /\ Cardinality(told) <= n
    BY <1>2, <2>2, FS_Subset
  <2>4. Cardinality(told) \in Nat
    BY <2>3, FS_CardinalityType
  <2>5. Tally(ajuz, letter) = Cardinality(told)
    BY DEF Tally, told
  <2>6. QED
    BY <1>1, <2>3, <2>4, <2>5
<1>4. tallies \subseteq 0..n /\ tallies # {}
  BY <1>1, <1>3
<1>5. Dominant(ajuz) = Max(tallies)
  BY DEF Dominant
<1> HIDE DEF tallies
<1>6. Max(tallies) \in tallies /\ \A t \in tallies : Max(tallies) >= t
  BY <1>1, <1>4, MaxIs
<1>7. ASSUME NEW letter, \A i \in DOMAIN ajuz : letter \in rawiCandidates(ajuz[i]), ajuz # <<>>
      PROVE  Dominant(ajuz) = n
  <2>1. 1 \in DOMAIN ajuz
    BY <1>1, <1>7, EmptySeq DEF LinesOf
  <2>2. letter \in letters
    BY <1>7, <2>1
  <2>3. Tally(ajuz, letter) = n
    <3>1. {i \in DOMAIN ajuz : letter \in rawiCandidates(ajuz[i])} = 1..n
      BY <1>1, <1>7
    <3>2. QED
      BY <1>2, <3>1 DEF Tally
  <2>4. n \in tallies
    BY <2>2, <2>3 DEF tallies
  <2>5. Dominant(ajuz) \in 0..n /\ Dominant(ajuz) >= n
    BY <1>4, <1>5, <1>6, <2>4
  <2>6. QED
    BY <1>1, <2>5
<1>8. Dominant(ajuz) \in 0..n
  BY <1>4, <1>5, <1>6
<1>9. QED
  BY <1>1, <1>7, <1>8

\* Lines that share their last two letters rhyme, every one of them.
LEMMA SharedRhymes ==
    ASSUME NEW ajuz \in LinesOf, sharedLiteralSuffixLength(ajuz) >= 2
    PROVE  Dominant(ajuz) = Len(ajuz) /\ ajuz # <<>>
<1>1. ajuz # <<>>
  BY DEF sharedLiteralSuffixLength
<1>2. Len(ajuz) \in Nat /\ DOMAIN ajuz = 1..Len(ajuz)
  BY DominantIs
<1>3. \A i \in DOMAIN ajuz : ajuz[i].tail \in Seq(STRING) /\ Len(ajuz[i].tail) \in Nat
  <2>1. \A i \in DOMAIN ajuz : ajuz[i] \in Hemistichs
    BY <1>2, ElementOfSeq DEF LinesOf
  <2>2. \A i \in DOMAIN ajuz : ajuz[i].tail \in Seq(STRING)
    BY <2>1 DEF Hemistichs
  <2>3. QED
    BY <2>2, LenProperties
<1>4. 1 \in DOMAIN ajuz
  BY <1>1, <1>2, EmptySeq DEF LinesOf
<1> DEFINE k == Len(ajuz[1].tail)
           Shared(n) == \A i \in DOMAIN ajuz : /\ Len(ajuz[i].tail) >= n
                                               /\ SubSeq(ajuz[i].tail, 1, n) = SubSeq(ajuz[1].tail, 1, n)
           shared == {n \in 0..k : Shared(n)}
<1>5. sharedLiteralSuffixLength(ajuz) = Max(shared)
  BY <1>1 DEF sharedLiteralSuffixLength
<1>6. \A i \in DOMAIN ajuz : SubSeq(ajuz[i].tail, 1, 0) = <<>>
  BY <1>3
<1>7. 0 \in shared
  BY <1>3, <1>4, <1>6
<1>8. Max(shared) \in shared
  <2>1. shared \subseteq 0..k /\ k \in Nat
    BY <1>3, <1>4
  <2> HIDE DEF shared, k
  <2>2. QED
    BY <1>7, <2>1, MaxIs
<1>9. PICK n \in 0..k : n >= 2 /\ Shared(n)
  BY <1>5, <1>8
<1> DEFINE letter == normalizeLetter(ajuz[1].tail[1])
<1>10. ASSUME NEW i \in DOMAIN ajuz PROVE letter \in rawiCandidates(ajuz[i])
  <2>1. ajuz[i].tail[1] = ajuz[1].tail[1]
    <3>1. SubSeq(ajuz[i].tail, 1, n)[1] = SubSeq(ajuz[1].tail, 1, n)[1]
      BY <1>9
    <3>2. /\ Len(ajuz[i].tail) >= n /\ Len(ajuz[1].tail) >= n /\ n \in Nat
          /\ ajuz[i].tail \in Seq(STRING) /\ ajuz[1].tail \in Seq(STRING)
      BY <1>3, <1>4, <1>9
    <3>3. ASSUME NEW tail \in Seq(STRING), Len(tail) >= n PROVE SubSeq(tail, 1, n)[1] = tail[1]
      BY <1>9, <3>2, <3>3, SubSeqProperties
    <3>4. QED
      BY <3>1, <3>2, <3>3
  <2>2. QED
    BY <2>1 DEF rawiCandidates
<1> HIDE DEF letter
<1>11. QED
  BY <1>1, <1>10, DominantIs

\* Most lines rhyme if all do.
LEMMA AllRhyme ==
    ASSUME NEW ajuz \in LinesOf, Dominant(ajuz) = Len(ajuz), ajuz # <<>>
    PROVE  Rhymes(ajuz)
<1>1. Len(ajuz) \in Nat
  BY DominantIs
<1>2. QED
  BY <1>1 DEF Rhymes

\* What the kind of a poem says of its rows.
LEMMA KindIs ==
    ASSUME NEW rows \in PoemBodies
    PROVE  /\ Len(rows) \in Nat /\ DOMAIN rows = 1..Len(rows) /\ rows \in Seq(Seq(Hemistichs))
           /\ classifyStructure(rows) \in {"irregular", "mixed", "starred", "flat"}
           /\ classifyStructure(rows) = "starred" => rows # <<>> /\ \A i \in DOMAIN rows : Len(rows[i]) = 2
           /\ classifyStructure(rows) = "flat" => \A i \in DOMAIN rows : Len(rows[i]) = 1
           /\ rows # <<>> /\ (\A i \in DOMAIN rows : Len(rows[i]) = 1) => classifyStructure(rows) = "flat"
<1> DEFINE widths == {Len(rows[i]) : i \in DOMAIN rows}
<1>1. /\ Len(rows) \in Nat /\ DOMAIN rows = 1..Len(rows) /\ rows \in Seq(Seq(Hemistichs))
      /\ \A i \in DOMAIN rows : rows[i] \in Seq(Hemistichs) \ {<<>>}
  BY LenProperties, ElementOfSeq DEF PoemBodies
<1>2. \A i \in DOMAIN rows : Len(rows[i]) \in Nat \ {0}
  BY <1>1, EmptySeq, LenProperties
<1>3. widths \in SUBSET (Nat \ {0})
  BY <1>2
<1>4. \A i \in DOMAIN rows : Len(rows[i]) \in widths
  OBVIOUS
<1>5. classifyStructure(rows) =
         IF \E w \in widths : w > 2 THEN "irregular"
         ELSE IF Cardinality(widths) > 1 THEN "mixed" ELSE IF 2 \in widths THEN "starred" ELSE "flat"
  BY DEF classifyStructure
<1>6. classifyStructure(rows) = "starred" => rows # <<>> /\ \A i \in DOMAIN rows : Len(rows[i]) = 2
  <2>1. SUFFICES ASSUME classifyStructure(rows) = "starred"
                 PROVE  rows # <<>> /\ \A i \in DOMAIN rows : Len(rows[i]) = 2
    OBVIOUS
  <2>2. 2 \in widths
    BY <1>5, <2>1
  <2>3. rows # <<>>
    BY <2>2
  <2> HIDE DEF widths
  <2>4. (\A w \in widths : w <= 2) /\ ~(Cardinality(widths) > 1)
    BY <1>3, <1>5, <2>1
  <2>5. IsFiniteSet(widths)
    <3>1. widths \in SUBSET Nat /\ 2 \in Nat
      BY <1>3
    <3>2. QED
      BY <2>4, <3>1, FS_BoundedSetOfNaturals
  <2>6. \A w \in widths : w = 2
    BY <2>2, <2>4, <2>5, OneOnly
  <2>7. QED
    BY <1>4, <2>3, <2>6
<1>7. classifyStructure(rows) = "flat" => \A i \in DOMAIN rows : Len(rows[i]) = 1
  <2>1. SUFFICES ASSUME classifyStructure(rows) = "flat", NEW i \in DOMAIN rows
                 PROVE  Len(rows[i]) = 1
    OBVIOUS
  <2> HIDE DEF widths
  <2>2. Len(rows[i]) \in widths /\ (\A w \in widths : ~(w > 2)) /\ 2 \notin widths
    BY <1>4, <1>5, <2>1
  <2> DEFINE w == Len(rows[i])
  <2>3. ~(w > 2) /\ w # 2 /\ w \in Nat \ {0}
    BY <1>2, <2>2
  <2> HIDE DEF w
  <2>4. w = 1
    BY <2>3
  <2>5. QED
    BY <2>4 DEF w
<1>8. rows # <<>> /\ (\A i \in DOMAIN rows : Len(rows[i]) = 1) => classifyStructure(rows) = "flat"
  <2>1. SUFFICES ASSUME rows # <<>>, \A i \in DOMAIN rows : Len(rows[i]) = 1
                 PROVE  classifyStructure(rows) = "flat"
    OBVIOUS
  <2>2. DOMAIN rows # {}
    BY <1>1, <2>1, EmptySeq
  <2>3. widths = {1}
    BY <2>1, <2>2
  <2> HIDE DEF widths
  <2>4. Cardinality(widths) = 1
    BY <2>3, FS_Singleton
  <2>5. QED
    BY <1>5, <2>3, <2>4
<1> HIDE DEF widths
<1>9. classifyStructure(rows) \in {"irregular", "mixed", "starred", "flat"}
  BY <1>5
<1>10. QED
  BY <1>1, <1>6, <1>7, <1>8, <1>9

\* A column of rows that have it is one of lines.
LEMMA SecondIs ==
    ASSUME NEW rows \in Seq(Seq(Hemistichs)), \A i \in DOMAIN rows : Len(rows[i]) = 2
    PROVE  /\ Second(rows) \in LinesOf /\ Len(Second(rows)) = Len(rows)
           /\ \A i \in 1..Len(rows) : rows[i][1] \in Hemistichs /\ rows[i][2] \in Hemistichs
<1>1. Len(rows) \in Nat /\ DOMAIN rows = 1..Len(rows)
  BY LenProperties
<1>2. \A i \in 1..Len(rows) : rows[i] \in Seq(Hemistichs)
  BY <1>1, ElementOfSeq
<1>3. \A i \in 1..Len(rows) : rows[i][1] \in Hemistichs /\ rows[i][2] \in Hemistichs
  <2>1. ASSUME NEW i \in 1..Len(rows) PROVE rows[i][1] \in Hemistichs /\ rows[i][2] \in Hemistichs
    <3>1. rows[i] \in Seq(Hemistichs) /\ 1 \in 1..Len(rows[i]) /\ 2 \in 1..Len(rows[i])
      <4> DEFINE w == Len(rows[i])
      <4>1. rows[i] \in Seq(Hemistichs) /\ w = 2
        BY <1>1, <1>2
      <4> HIDE DEF w
      <4>2. 1 \in 1..w /\ 2 \in 1..w
        BY <4>1
      <4>3. QED
        BY <4>1, <4>2 DEF w
    <3>2. QED
      BY <3>1, ElementOfSeq
  <2>2. QED
    BY <2>1
<1>4. Second(rows) = [i \in 1..Len(rows) |-> rows[i][2]]
  BY <1>1 DEF Second
<1> DEFINE n == Len(rows)
<1>5. n \in Nat /\ Second(rows) \in [1..n -> Hemistichs]
  BY <1>1, <1>3, <1>4
<1> HIDE DEF n
<1>6. Second(rows) \in LinesOf /\ Len(Second(rows)) = n
  BY <1>5 DEF LinesOf
<1>7. QED
  BY <1>3, <1>6 DEF n

LEMMA LinesAre ==
    ASSUME NEW rows \in Seq(Seq(Hemistichs)), \A i \in DOMAIN rows : Len(rows[i]) = 1
    PROVE  Lines(rows) \in LinesOf /\ Len(Lines(rows)) = Len(rows)
<1>1. Len(rows) \in Nat /\ DOMAIN rows = 1..Len(rows)
  BY LenProperties
<1>2. \A i \in 1..Len(rows) : rows[i] \in Seq(Hemistichs)
  BY <1>1, ElementOfSeq
<1>3. \A i \in 1..Len(rows) : rows[i][1] \in Hemistichs
  <2>1. ASSUME NEW i \in 1..Len(rows) PROVE rows[i][1] \in Hemistichs
    <3>1. rows[i] \in Seq(Hemistichs) /\ 1 \in 1..Len(rows[i])
      <4> DEFINE w == Len(rows[i])
      <4>1. rows[i] \in Seq(Hemistichs) /\ w = 1
        BY <1>1, <1>2
      <4> HIDE DEF w
      <4>2. 1 \in 1..w
        BY <4>1
      <4>3. QED
        BY <4>1, <4>2 DEF w
    <3>2. QED
      BY <3>1, ElementOfSeq
  <2>2. QED
    BY <2>1
<1>4. Lines(rows) = [i \in 1..Len(rows) |-> rows[i][1]]
  BY <1>1 DEF Lines
<1> DEFINE n == Len(rows)
<1>5. n \in Nat /\ Lines(rows) \in [1..n -> Hemistichs]
  BY <1>1, <1>3, <1>4
<1> HIDE DEF n
<1>6. Lines(rows) \in LinesOf /\ Len(Lines(rows)) = n
  BY <1>5 DEF LinesOf
<1>7. QED
  BY <1>6 DEF n

LEMMA AlternatingIs ==
    ASSUME NEW lines \in LinesOf
    PROVE  Alternating(lines) \in LinesOf /\ Len(Alternating(lines)) = Len(lines) \div 2
<1> DEFINE h == Len(lines) \div 2
<1>1. Len(lines) \in Nat /\ DOMAIN lines = 1..Len(lines)
  BY LenProperties DEF LinesOf
<1>2. h \in Nat /\ \A i \in 1..h : 2 * i \in 1..Len(lines)
  BY <1>1
<1> HIDE DEF h
<1>3. \A i \in 1..h : lines[2 * i] \in Hemistichs
  BY <1>2, ElementOfSeq DEF LinesOf
<1>4. Alternating(lines) = [i \in 1..h |-> lines[2 * i]]
  BY DEF Alternating, h
<1>5. Alternating(lines) \in [1..h -> Hemistichs]
  BY <1>3, <1>4
<1>6. Alternating(lines) \in LinesOf /\ Len(Alternating(lines)) = h
  BY <1>2, <1>5 DEF LinesOf
<1>7. QED
  BY <1>6 DEF h

\* The reading that is judged is one of lines.
LEMMA BestIs ==
    ASSUME NEW rows \in PoemBodies
    PROVE  BestAjuz(rows) \in LinesOf
<1> DEFINE kind == classifyStructure(rows)
<1>1. kind \in {"irregular", "mixed", "starred", "flat"} /\ rows \in Seq(Seq(Hemistichs))
      /\ DOMAIN rows = 1..Len(rows)
  BY KindIs
<1>2. <<>> \in LinesOf
  BY EmptySeq DEF LinesOf
<1>3. CASE kind = "irregular"
  BY <1>2, <1>3 DEF BestAjuz, ajuzHypotheses
<1>4. CASE kind = "starred"
  <2>1. BestAjuz(rows) = Second(rows)
    BY <1>4 DEF BestAjuz, ajuzHypotheses
  <2>2. QED
    BY <1>1, <1>4, <2>1, KindIs, SecondIs
<1>5. CASE kind = "mixed"
  <2>1. BestAjuz(rows) \in {<<>>, Second(Starred(rows))}
    BY <1>5 DEF BestAjuz, ajuzHypotheses
  <2>2. Second(Starred(rows)) \in LinesOf
    <3> DEFINE S == Seq(Hemistichs)
               places == {i \in DOMAIN rows : Len(rows[i]) = 2}
               some == ElementsAt(rows, places)
    <3>1. rows \in Seq(S) /\ places \in SUBSET (1..Len(rows)) /\ \A i \in places : Len(rows[i]) = 2
      BY <1>1
    <3> HIDE DEF S, places
    <3>2. /\ some \in Seq(S) /\ DOMAIN some = 1..Len(some)
          /\ \A n \in 1..Len(some) : Nth(places, n) \in places /\ some[n] = rows[Nth(places, n)]
      <4>1. \A T : \A list \in Seq(T) : \A at \in SUBSET (1..Len(list)) :
               /\ ElementsAt(list, at) \in Seq(T)
               /\ DOMAIN ElementsAt(list, at) = 1..Len(ElementsAt(list, at))
               /\ \A n \in 1..Len(ElementsAt(list, at)) :
                     Nth(at, n) \in at /\ ElementsAt(list, at)[n] = list[Nth(at, n)]
        BY ElementsAre
      <4>2. QED
        BY <3>1, <4>1
    <3>3. Starred(rows) = some
      BY DEF Starred, places
    <3> HIDE DEF some
    <3>4. \A n \in DOMAIN some : Len(some[n]) = 2
      BY <3>1, <3>2
    <3>5. QED
      BY <3>2, <3>3, <3>4, SecondIs DEF S
  <2>3. QED
    BY <1>2, <2>1, <2>2
<1>6. CASE kind = "flat"
  <2>1. BestAjuz(rows) \in {Lines(rows), Alternating(Lines(rows))}
    BY <1>6 DEF BestAjuz, ajuzHypotheses
  <2>2. Lines(rows) \in LinesOf
    BY <1>1, <1>6, KindIs, LinesAre
  <2>3. QED
    BY <2>1, <2>2, AlternatingIs
<1>7. QED
  BY <1>1, <1>3, <1>4, <1>5, <1>6

\* A reading of half of the lines that scores no higher than all of them.
LEMMA HalfRhymes ==
    ASSUME NEW n \in Nat \ {0}, NEW half \in Nat, NEW whole \in Nat,
           ~(half * (2 * n) > whole * n)
    PROVE  2 * half <= whole
<1>1. SUFFICES ASSUME whole + 1 <= 2 * half PROVE FALSE
  OBVIOUS
<1>2. PICK k \in Nat : 2 * half = (whole + 1) + k
  <2>1. 2 * half - (whole + 1) \in Nat
    BY <1>1
  <2>2. 2 * half = (whole + 1) + (2 * half - (whole + 1))
    OBVIOUS
  <2>3. QED
    BY <2>1, <2>2
<1>3. (2 * half) * n = whole * n + n + k * n
  BY <1>2
<1>4. half * (2 * n) = (2 * half) * n
  OBVIOUS
<1>5. k * n \in Nat /\ whole * n \in Nat
  OBVIOUS
<1>6. QED
  BY <1>3, <1>4, <1>5

\* Without its stars a poem that rhymes is not contradicted: its second hemistichs are every
\* other line, and when the lines are judged as they stand they score as high.
LEMMA LayoutIs ==
    ASSUME NEW rows \in PoemBodies, classifyStructure(rows) = "starred", assessPoem(rows) = "verified"
    PROVE  assessPoem(Unstarred(rows)) # "contradicted"
<1> DEFINE n == Len(rows)
           flat == Unstarred(rows)
           ajuz == Second(rows)
           lines == Lines(flat)
<1>1. /\ n \in Nat \ {0} /\ DOMAIN rows = 1..n /\ rows \in Seq(Seq(Hemistichs))
      /\ \A i \in DOMAIN rows : Len(rows[i]) = 2
  BY KindIs, EmptySeq
<1>2. /\ ajuz \in LinesOf /\ Len(ajuz) = n
      /\ \A i \in 1..n : rows[i][1] \in Hemistichs /\ rows[i][2] \in Hemistichs
  BY <1>1, SecondIs
<1>3. flat = [i \in 1..(2 * n) |-> <<rows[(i + 1) \div 2][IF i % 2 = 1 THEN 1 ELSE 2]>>]
  BY DEF Unstarred
<1>4. \A i \in 1..n : ajuz[i] = rows[i][2]
  BY <1>1 DEF Second
<1> HIDE DEF n, flat, ajuz
<1>5. \A i \in 1..(2 * n) : /\ (i + 1) \div 2 \in 1..n
                            /\ i % 2 \in {0, 1}
  BY <1>1
<1>6. \A i \in 1..(2 * n) : rows[(i + 1) \div 2][IF i % 2 = 1 THEN 1 ELSE 2] \in Hemistichs
  BY <1>2, <1>5
<1>7. /\ flat \in PoemBodies /\ Len(flat) = 2 * n /\ DOMAIN flat = 1..(2 * n) /\ flat # <<>>
      /\ \A i \in 1..(2 * n) : Len(flat[i]) = 1
  <2> DEFINE Rows == Seq(Hemistichs) \ {<<>>}
             m == 2 * n
  <2>1. \A h \in Hemistichs : <<h>> \in Rows /\ Len(<<h>>) = 1
    OBVIOUS
  <2>2. \A i \in 1..m : flat[i] \in Rows /\ Len(flat[i]) = 1
    BY <1>3, <1>6, <2>1
  <2>3. m \in Nat \ {0}
    BY <1>1
  <2> HIDE DEF Rows, m
  <2>4. DOMAIN flat = 1..m /\ flat = [i \in 1..m |-> flat[i]]
    BY <1>3 DEF m
  <2>5. flat \in [1..m -> Rows]
    BY <2>2, <2>4
  <2>6. flat \in Seq(Rows) /\ Len(flat) = m
    BY <2>3, <2>5
  <2>7. flat # <<>>
    BY <2>3, <2>6
  <2>8. QED
    BY <2>2, <2>4, <2>6, <2>7 DEF PoemBodies, Rows, m
<1>8. classifyStructure(flat) = "flat" /\ flat \in Seq(Seq(Hemistichs))
  BY <1>7, KindIs
<1>9. lines \in LinesOf /\ Len(lines) = 2 * n
  BY <1>7, <1>8, LinesAre
<1>10. Alternating(lines) = ajuz
  <2>1. Len(lines) \div 2 = n
    BY <1>1, <1>9
  <2>2. Alternating(lines) = [i \in 1..n |-> lines[2 * i]]
    BY <2>1 DEF Alternating
  <2>3. ASSUME NEW i \in 1..n PROVE lines[2 * i] = ajuz[i]
    <3>1. 2 * i \in 1..(2 * n) /\ (2 * i + 1) \div 2 = i /\ (2 * i) % 2 = 0
      BY <1>1
    <3>2. flat[2 * i] = <<rows[i][2]>>
      BY <1>3, <3>1
    <3>3. lines[2 * i] = flat[2 * i][1]
      BY <1>7, <3>1 DEF Lines
    <3>4. QED
      BY <1>4, <3>2, <3>3
  <2>4. ajuz = [i \in 1..n |-> ajuz[i]]
    BY <1>2 DEF LinesOf
  <2> HIDE DEF lines
  <2>5. QED
    BY <2>2, <2>3, <2>4
<1>11. BestAjuz(rows) = ajuz
  BY DEF BestAjuz, ajuzHypotheses, ajuz
<1>12. /\ Len(ajuz) >= 2
       /\ Len(ajuz) >= 5 => Rhymes(ajuz)
       /\ ~(Len(ajuz) >= 5) => sharedLiteralSuffixLength(ajuz) >= 2
  BY <1>2, <1>11 DEF assessPoem
<1>13. BestAjuz(flat) = IF HigherScore(ajuz, lines) THEN ajuz ELSE lines
  <2>1. Len(flat) \div 2 = n /\ n >= 2
    BY <1>1, <1>2, <1>7, <1>12
  <2>2. ajuzHypotheses(flat, "flat") = <<lines, ajuz>>
    BY <1>10, <2>1 DEF ajuzHypotheses
  <2> HIDE DEF lines
  <2> DEFINE both == ajuzHypotheses(flat, "flat")
  <2>3. Len(both) = 2 /\ both # <<>> /\ both[1] = lines /\ both[2] = ajuz
    BY <2>2
  <2>4. BestAjuz(flat) = IF both = <<>> THEN <<>>
                         ELSE IF Len(both) = 2 /\ HigherScore(both[2], both[1]) THEN both[2] ELSE both[1]
    BY <1>8 DEF BestAjuz
  <2> HIDE DEF both
  <2>5. QED
    BY <2>3, <2>4
<1> HIDE DEF lines
<1>14. Dominant(ajuz) \in Nat /\ Dominant(lines) \in Nat /\ Dominant(ajuz) <= n
  BY <1>2, <1>9, DominantIs
<1>15. 10 * Dominant(ajuz) >= 9 * n
  <2>1. CASE Len(ajuz) >= 5
    BY <1>2, <1>12, <2>1 DEF Rhymes
  <2>2. CASE ~(Len(ajuz) >= 5)
    BY <1>1, <1>2, <1>12, <2>2, SharedRhymes
  <2>3. QED
    BY <2>1, <2>2
<1> DEFINE best == BestAjuz(flat)
<1>16. ASSUME Len(best) >= 5 => Rhymes(best) PROVE assessPoem(flat) # "contradicted"
  BY <1>16 DEF assessPoem
<1> HIDE DEF best
<1>17. CASE HigherScore(ajuz, lines)
  <2>1. best = ajuz
    BY <1>13, <1>17 DEF best
  <2>2. QED
    BY <1>12, <1>16, <2>1 DEF flat
<1>18. CASE ~HigherScore(ajuz, lines)
  <2>1. ~(Dominant(ajuz) * (2 * n) > Dominant(lines) * n)
    BY <1>2, <1>9, <1>18 DEF HigherScore
  <2>2. 2 * Dominant(ajuz) <= Dominant(lines)
    BY <1>1, <1>14, <2>1, HalfRhymes
  <2>3. 10 * Dominant(lines) >= 9 * (2 * n) /\ lines # <<>>
    BY <1>1, <1>9, <1>14, <1>15, <2>2
  <2>4. Rhymes(lines)
    BY <1>9, <2>3 DEF Rhymes
  <2>5. best = lines
    BY <1>13, <1>18 DEF best
  <2>6. QED
    BY <1>16, <2>4, <2>5 DEF flat
<1>19. QED
  BY <1>17, <1>18

-----------------------------------------------------------------------------
CorpusInv ==
    /\ poem.body \in Corpus /\ poem = [body |-> poem.body, label |-> poem.label]
    /\ csv # None => csv.chance = "low"
    /\ sql # None => sql.chance = "low"

LEMMA CorpusStart == CorpusInit => CorpusInv
BY DEF CorpusInit, CorpusInv

LEMMA CorpusStep == CorpusInv /\ [CorpusNext]_corpusVars => CorpusInv'
<1>1. SUFFICES ASSUME CorpusInv, [CorpusNext]_corpusVars PROVE CorpusInv'
  OBVIOUS
<1>2. CASE Edit
  BY <1>1, <1>2 DEF CorpusInv, Edit
<1>3. CASE Export
  BY <1>1, <1>3 DEF CorpusInv, Export
<1>4. CASE Verify
  <2>1. csv' = csv \/ csv'.chance = "low"
    BY <1>4 DEF Verify, CalibrationPassed
  <2>2. UNCHANGED <<poem, sql>>
    BY <1>4 DEF Verify
  <2>3. QED
    BY <1>1, <2>1, <2>2 DEF CorpusInv
<1>5. CASE BuildUpdateStatements
  BY <1>1, <1>5 DEF CorpusInv, BuildUpdateStatements
<1>6. CASE Apply
  <2>1. PICK label : poem' = [poem EXCEPT !.label = label]
    BY <1>6 DEF Apply
  <2>2. UNCHANGED <<csv, sql>>
    BY <1>6 DEF Apply
  <2>3. QED
    BY <1>1, <2>1, <2>2 DEF CorpusInv
<1>7. CASE UNCHANGED corpusVars
  BY <1>1, <1>7 DEF CorpusInv, corpusVars
<1>8. QED
  BY <1>1, <1>2, <1>3, <1>4, <1>5, <1>6, <1>7 DEF CorpusNext

LEMMA CorpusInvIsSound == CorpusInv => VerdictsAreSound
<1>1. SUFFICES ASSUME CorpusInv PROVE VerdictsAreSound
  OBVIOUS
<1>2. poem.body \in PoemBodies
  BY <1>1, CorpusConstants DEF CorpusInv
<1>3. LayoutNeverContradicts
  BY <1>2, LayoutIs DEF LayoutNeverContradicts
<1>4. AnchorsAreRecalled
  <2>1. SUFFICES ASSUME isAnchor(BestAjuz(poem.body)) PROVE Rhymes(BestAjuz(poem.body))
    BY DEF AnchorsAreRecalled
  <2>2. BestAjuz(poem.body) \in LinesOf /\ sharedLiteralSuffixLength(BestAjuz(poem.body)) >= 2
    BY <1>2, <2>1, BestIs DEF isAnchor
  <2>3. QED
    BY <2>2, SharedRhymes, AllRhyme
<1>5. AppliedIsCalibrated
  BY <1>1 DEF CorpusInv, AppliedIsCalibrated
<1>6. SecondPassIsEmpty
  <2> DEFINE judged == assessPoem(poem.body)
  <2>1. SUFFICES ASSUME NEW label \in Labels, NEW p \in proposedLabel(label, judged)
                 PROVE  proposedLabel(p, judged) = {}
    BY DEF SecondPassIsEmpty
  <2> HIDE DEF judged
  <2>2. QED
    BY <2>1 DEF proposedLabel
<1>7. QED
  BY <1>3, <1>4, <1>5, <1>6 DEF VerdictsAreSound

(* Whatever the poems are, their labels, and the order in which they are    *)
(* edited, exported, judged and applied: how a poem is laid out never turns *)
(* it from classical into one that is not, the anchors the calibration goes *)
(* by are recalled, only calibrated verdicts are applied, and once applied  *)
(* they leave nothing to do.                                                *)
THEOREM SoundVerdicts == CorpusSpec => []VerdictsAreSound
<1>1. CorpusSpec => []CorpusInv
  BY CorpusStart, CorpusStep, PTL DEF CorpusSpec
<1>2. QED
  BY <1>1, CorpusInvIsSound, PTL

-----------------------------------------------------------------------------
(***************************************************************************)
(* The report of the inspector.                                            *)
(***************************************************************************)

LEMMA SiteTypes ==
    /\ Len(PageFiles) \in Nat /\ Places \subseteq Nat \ {0} /\ IsFiniteSet(Places)
    /\ \A place \in Places : /\ PageFiles[place].astro \in BOOLEAN
                             /\ Segments(place) \in Seq(Seq(STRING)) /\ Segments(place) # <<>>
                             /\ Len(Segments(place)) \in Nat \ {0}
                             /\ ShapeOf(place) \in Paths
<1>1. Len(PageFiles) \in Nat /\ Places \subseteq Nat \ {0} /\ IsFiniteSet(Places)
  <2>1. Len(PageFiles) \in Nat
    BY CrawlConstants, LenProperties
  <2>2. 1 \in Int /\ Len(PageFiles) \in Int
    BY <2>1
  <2>3. IsFiniteSet(1..Len(PageFiles))
    BY <2>2, FS_Interval
  <2>4. QED
    BY <2>1, <2>3 DEF Places
<1>2. ASSUME NEW place \in Places
      PROVE  /\ PageFiles[place].astro \in BOOLEAN
             /\ Segments(place) \in Seq(Seq(STRING)) /\ Segments(place) # <<>>
  <2>1. PageFiles[place] \in [segments : Seq(Seq(STRING)) \ {<<>>}, astro : BOOLEAN]
    BY CrawlConstants, ElementOfSeq DEF Places
  <2>2. QED
    BY <2>1 DEF Segments
<1>3. ASSUME NEW place \in Places
      PROVE  Len(Segments(place)) \in Nat \ {0} /\ ShapeOf(place) \in Paths
  <2>1. Segments(place) \in Seq(Seq(STRING)) /\ Segments(place) # <<>>
    BY <1>2
  <2> DEFINE some == {i \in 1..Len(Segments(place)) : Segments(place)[i] # IndexPage}
  <2>2. some \in SUBSET (1..Len(Segments(place)))
    OBVIOUS
  <2>3. ShapeOf(place) = ElementsAt(Segments(place), some)
    BY DEF ShapeOf
  <2> HIDE DEF some
  <2>4. ElementsAt(Segments(place), some) \in Seq(Seq(STRING))
    BY <2>1, <2>2, ElementsAre
  <2>5. QED
    BY <2>1, <2>3, <2>4, EmptySeq, LenProperties DEF Paths
<1>4. QED
  BY <1>1, <1>2, <1>3

\* A page that is not an index has its segments for a shape.
LEMMA PlainShape ==
    ASSUME NEW place \in Places, Name(place) # IndexPage
    PROVE  ShapeOf(place) = Segments(place)
<1>1. Segments(place) \in Seq(Seq(STRING)) /\ Len(Segments(place)) \in Nat \ {0}
  BY SiteTypes
<1>2. Name(place) = Segments(place)[Len(Segments(place))]
  BY DEF Name, Last
<1>3. \A i \in 1..Len(Segments(place)) : Segments(place)[i] # IndexPage
  BY <1>1, <1>2, PagesAreLaidOut
<1>4. {i \in 1..Len(Segments(place)) : Segments(place)[i] # IndexPage} = 1..Len(Segments(place))
  BY <1>3
<1>5. QED
  BY <1>1, <1>4, AllElements DEF ShapeOf

\* A dynamic segment is the last.
LEMMA DynamicShape ==
    ASSUME NEW place \in DynamicPages
    PROVE  /\ place \in Places /\ Name(place) = Slug /\ ShapeOf(place) = Segments(place)
           /\ \A i \in 1..Len(Segments(place)) :
                 Segments(place)[i] = Slug <=> i = Len(Segments(place))
<1>1. place \in Places /\ Slug \in ToSet(Segments(place))
  BY DEF DynamicPages, PageShapes
<1>2. Segments(place) \in Seq(Seq(STRING)) /\ Len(Segments(place)) \in Nat \ {0}
      /\ DOMAIN Segments(place) = 1..Len(Segments(place))
  BY <1>1, SiteTypes, LenProperties
<1>3. PICK i \in 1..Len(Segments(place)) : Segments(place)[i] = Slug
  BY <1>1, <1>2 DEF ToSet
<1>4. \A j \in 1..Len(Segments(place)) : Segments(place)[j] = Slug => j = Len(Segments(place))
  BY <1>1, PagesAreLaidOut
<1>5. Name(place) = Slug
  BY <1>3, <1>4 DEF Name, Last
<1>6. Slug # IndexPage
  BY DEF Slug, IndexPage
<1>7. QED
  BY <1>1, <1>2, <1>3, <1>4, <1>5, <1>6, PlainShape

LEMMA SameFront ==
    ASSUME NEW place \in Places, NEW other \in Places, Directory(place) = Directory(other)
    PROVE  /\ Len(Segments(place)) = Len(Segments(other))
           /\ \A i \in 1..(Len(Segments(place)) - 1) : Segments(place)[i] = Segments(other)[i]
<1> DEFINE s == Segments(place)
           t == Segments(other)
<1>1. /\ s \in Seq(Seq(STRING)) /\ t \in Seq(Seq(STRING))
      /\ Len(s) \in Nat \ {0} /\ Len(t) \in Nat \ {0}
  BY SiteTypes
<1>2. SubSeq(s, 1, Len(s) - 1) = SubSeq(t, 1, Len(t) - 1)
  BY DEF Directory, Front
<1> HIDE DEF s, t
<1>3. ASSUME NEW u \in Seq(Seq(STRING)), Len(u) \in Nat \ {0}
      PROVE  /\ Len(SubSeq(u, 1, Len(u) - 1)) = Len(u) - 1
             /\ \A i \in 1..(Len(u) - 1) : SubSeq(u, 1, Len(u) - 1)[i] = u[i]
  <2> DEFINE n == Len(u) - 1
  <2>1. n \in Int /\ 1 \in Int /\ n \in Nat /\ (~(1 <= n) => n = 0) /\ n - 1 + 1 = n
    <3>1. PICK k \in Nat \ {0} : Len(u) = k
      BY <1>3
    <3>2. QED
      BY <3>1
  <2>2. \A i \in 1..n : u[i] \in Seq(STRING)
    BY <1>3, ElementOfSeq
  <2> HIDE DEF n
  <2>3. /\ Len(SubSeq(u, 1, n)) = IF 1 <= n THEN n - 1 + 1 ELSE 0
        /\ \A i \in 1..(n - 1 + 1) : SubSeq(u, 1, n)[i] = u[1 + i - 1]
    BY <2>1, <2>2, SubSeqProperties
  <2>4. \A i \in 1..n : 1 + i - 1 = i
    BY <2>1
  <2>5. QED
    BY <2>1, <2>3, <2>4 DEF n
<1>4. Len(s) = Len(t)
  BY <1>1, <1>2, <1>3
<1>5. \A i \in 1..(Len(s) - 1) : s[i] = t[i]
  BY <1>1, <1>2, <1>3, <1>4
<1>6. QED
  BY <1>4, <1>5 DEF s, t

\* A directory and a name are a file's segments.
LEMMA SameSegments ==
    ASSUME NEW place \in Places, NEW other \in Places, Namesake(place, other)
    PROVE  Segments(place) = Segments(other)
<1> DEFINE s == Segments(place)
           t == Segments(other)
<1>1. /\ s \in Seq(Seq(STRING)) /\ t \in Seq(Seq(STRING))
      /\ Len(s) \in Nat \ {0} /\ Len(t) \in Nat \ {0}
  BY SiteTypes
<1>2. Len(s) = Len(t) /\ \A i \in 1..(Len(s) - 1) : s[i] = t[i]
  BY SameFront DEF Namesake
<1>3. s[Len(s)] = t[Len(t)]
  BY DEF Namesake, Name, Last
<1> HIDE DEF s, t
<1>4. ASSUME NEW i \in 1..Len(s) PROVE s[i] = t[i]
  <2>1. i = Len(s) \/ i \in 1..(Len(s) - 1)
    BY <1>1
  <2>2. CASE i = Len(s)
    BY <1>2, <1>3, <2>2
  <2>3. CASE i \in 1..(Len(s) - 1)
    BY <1>2, <2>3
  <2>4. QED
    BY <2>1, <2>2, <2>3
<1>5. s = t
  BY <1>1, <1>2, <1>4, SeqEqual
<1>6. QED
  BY <1>5 DEF s, t

\* A path that a pattern takes is an example: the route that it could be instead lies
\* beside the page, and its name is one that the pattern excludes.
LEMMA TakenIsExample ==
    ASSUME NEW place \in DynamicPages, NEW path \in Paths, MatchesPattern(place, path)
    PROVE  IsExample(place, path)
<1>1. /\ place \in Places /\ Name(place) = Slug /\ ShapeOf(place) = Segments(place)
      /\ \A i \in 1..Len(Segments(place)) :
            Segments(place)[i] = Slug <=> i = Len(Segments(place))
  BY DynamicShape
<1>2. Fits(place, path)
  BY DEF MatchesPattern
<1>3. SUFFICES ASSUME NEW other \in Places, path = ShapeOf(other), path # ShapeOf(place)
               PROVE  FALSE
  BY <1>2 DEF IsExample
<1>4. Directory(other) = Directory(place) /\ Name(other) # IndexPage
  BY <1>2, <1>3, PagesAreLaidOut
<1>5. path = Segments(other)
  BY <1>3, <1>4, PlainShape
<1>6. Name(other) # Slug
  BY <1>1, <1>3, <1>4, <1>5, SameSegments DEF Namesake
<1> DEFINE T == {namesake \in Places : Namesake(namesake, other)}
<1>7. T \subseteq Nat /\ other \in T
  BY SiteTypes DEF Namesake
<1>8. PICK first \in T : \A namesake \in T : first <= namesake
  <2> HIDE DEF T
  <2>1. QED
    BY <1>7, LeastNatural
<1>9. first \in Places /\ Directory(first) = Directory(place) /\ Name(first) = Name(other)
  BY <1>4, <1>8 DEF Namesake
<1>10. \A earlier \in 1..(first - 1) : ~Namesake(earlier, first)
  <2>1. SUFFICES ASSUME NEW earlier \in 1..(first - 1), Namesake(earlier, first) PROVE FALSE
    OBVIOUS
  <2>2. earlier \in Places /\ ~(first <= earlier)
    BY <1>9, <2>1, SiteTypes DEF Places
  <2>3. earlier \in T
    BY <1>8, <2>1, <2>2 DEF Namesake
  <2>4. QED
    BY <1>8, <2>2, <2>3
<1>11. first \in Reserved(place)
  BY <1>4, <1>6, <1>9, <1>10 DEF Reserved
<1> DEFINE n == Len(path)
<1>12. n = Len(Segments(place)) /\ n \in 1..n /\ path[n] = Name(first)
  <2>1. n = Len(Segments(place)) /\ Len(Segments(place)) \in Nat \ {0}
    BY <1>1, <1>2, SiteTypes DEF Fits
  <2>2. path[n] = Name(other)
    BY <1>5 DEF Name, Last
  <2>3. QED
    BY <1>9, <2>1, <2>2
<1>13. ~IsExcluded(place, path[n], TRUE)
  <2>1. ShapeOf(place)[n] = Slug
    BY <1>1, <1>12
  <2>2. ~IsExcluded(place, path[n], n = Len(path))
    BY <1>12, <2>1 DEF MatchesPattern
  <2>3. (n = Len(path)) = TRUE
    OBVIOUS
  <2>4. QED
    BY <2>2, <2>3
<1>14. IsPrefix(Name(first), path[n])
  <2>1. Name(first) \in Seq(STRING)
    <3>1. Segments(first) \in Seq(Seq(STRING)) /\ Len(Segments(first)) \in 1..Len(Segments(first))
      BY <1>9, SiteTypes
    <3>2. QED
      BY <3>1, ElementOfSeq DEF Name, Last
  <2>2. Len(Name(first)) \in Nat
    BY <2>1, LenProperties
  <2>3. QED
    BY <1>12, <2>2 DEF IsPrefix
<1>15. QED
  BY <1>11, <1>12, <1>13, <1>14 DEF IsExcluded

\* And an example that a page links to is taken: a slug does not begin with a name that
\* excludes by prefix.
LEMMA ExampleIsTaken ==
    ASSUME NEW place \in DynamicPages, NEW links \in LinkLists, NEW href \in ToSet(links),
           IsExample(place, href)
    PROVE  MatchesPattern(place, href)
<1>1. /\ place \in Places /\ Name(place) = Slug /\ ShapeOf(place) = Segments(place)
      /\ \A i \in 1..Len(Segments(place)) :
            Segments(place)[i] = Slug <=> i = Len(Segments(place))
  BY DynamicShape
<1>2. href \in Paths /\ Fits(place, href)
  <2>1. links \in Seq(Paths)
    BY CrawlConstants
  <2>2. DOMAIN links = 1..Len(links)
    BY <2>1, LenProperties
  <2>3. href \in Paths
    BY <2>1, <2>2, ElementOfSeq DEF ToSet
  <2>4. QED
    BY <2>3 DEF IsExample
<1>3. SUFFICES ASSUME NEW i \in 1..Len(href), ShapeOf(place)[i] = Slug,
                      IsExcluded(place, href[i], i = Len(href))
               PROVE  FALSE
  BY <1>2 DEF MatchesPattern
<1>4. Len(href) = Len(Segments(place)) /\ i = Len(href) /\ href[i] = Last(href)
  <2>1. Len(href) = Len(Segments(place))
    BY <1>1, <1>2 DEF Fits
  <2>2. i = Len(href)
    BY <1>1, <1>3, <2>1
  <2>3. QED
    BY <2>1, <2>2 DEF Last
<1>5. PICK other \in Reserved(place) : Last(href) = Name(other)
  <2>1. CASE \E other \in ByPrefix(place) : IsPrefix(Name(other), href[i])
    <3>1. PICK other \in ByPrefix(place) : IsPrefix(Name(other), href[i])
      BY <2>1
    <3>2. Last(href) = Name(other)
      BY <1>2, <1>4, <3>1, LinksAreClear
    <3>3. QED
      BY <3>1, <3>2 DEF ByPrefix
  <2>2. CASE \E other \in Reserved(place) \ ByPrefix(place) : href[i] = Name(other)
    BY <1>4, <2>2
  <2>3. QED
    BY <1>3, <2>1, <2>2 DEF IsExcluded
<1>6. /\ other \in Places /\ Directory(other) = Directory(place)
      /\ Name(other) # IndexPage /\ Name(other) # Slug
  BY DEF Reserved
<1>7. ShapeOf(other) = Segments(other)
  BY <1>6, PlainShape
<1>8. href = Segments(other)
  <2>1. /\ Segments(place) \in Seq(Seq(STRING)) /\ Segments(other) \in Seq(Seq(STRING))
        /\ Len(Segments(place)) \in Nat \ {0} /\ Len(Segments(other)) \in Nat \ {0}
        /\ href \in Seq(Seq(STRING))
    BY <1>1, <1>2, <1>6, SiteTypes DEF Paths
  <2>2. /\ Len(Segments(other)) = Len(Segments(place))
        /\ \A j \in 1..(Len(Segments(place)) - 1) : Segments(other)[j] = Segments(place)[j]
    BY <1>1, <1>6, SameFront
  <2>3. \A j \in 1..(Len(Segments(place)) - 1) : href[j] = Segments(place)[j]
    <3>1. SUFFICES ASSUME NEW j \in 1..(Len(Segments(place)) - 1)
                   PROVE  href[j] = Segments(place)[j]
      OBVIOUS
    <3>2. j \in 1..Len(href) /\ j \in 1..Len(Segments(place)) /\ j # Len(Segments(place))
      BY <1>4, <2>1, <3>1
    <3>3. ShapeOf(place)[j] \in {Slug, href[j]}
      BY <1>2, <3>2 DEF Fits
    <3>4. QED
      BY <1>1, <3>2, <3>3
  <2>4. href[Len(href)] = Segments(other)[Len(Segments(other))]
    BY <1>5 DEF Name, Last
  <2>5. \A j \in 1..Len(href) : href[j] = Segments(other)[j]
    <3>1. SUFFICES ASSUME NEW j \in 1..Len(href), j # Len(href)
                   PROVE  href[j] = Segments(other)[j]
      BY <1>4, <2>2, <2>4
    <3>2. j \in 1..(Len(Segments(place)) - 1)
      BY <1>4, <2>1, <3>1
    <3>3. QED
      BY <2>2, <2>3, <3>2
  <2>6. QED
    BY <1>4, <2>1, <2>2, <2>5, SeqEqual
<1>9. ShapeOf(other) # ShapeOf(place)
  BY <1>1, <1>6, <1>7 DEF Name
<1>10. QED
  BY <1>6, <1>7, <1>8, <1>9 DEF IsExample

\* One pattern at most takes a path, and a static page is none of theirs.
LEMMA OneShape ==
    ASSUME NEW place \in DynamicPages, NEW other \in DynamicPages, NEW path \in Paths,
           MatchesPattern(place, path), MatchesPattern(other, path)
    PROVE  place = other
<1>1. /\ place \in Places /\ ShapeOf(place) = Segments(place)
      /\ other \in Places /\ ShapeOf(other) = Segments(other)
      /\ \A i \in 1..Len(Segments(place)) :
            Segments(place)[i] = Slug <=> i = Len(Segments(place))
      /\ \A i \in 1..Len(Segments(other)) :
            Segments(other)[i] = Slug <=> i = Len(Segments(other))
  BY DynamicShape
<1>2. ShapeOf(place) \in Seq(Seq(STRING)) /\ ShapeOf(other) \in Seq(Seq(STRING))
  BY <1>1, SiteTypes DEF Paths
<1>3. /\ Len(path) = Len(ShapeOf(place)) /\ Len(path) = Len(ShapeOf(other))
      /\ \A i \in 1..Len(path) : ShapeOf(place)[i] \in {Slug, path[i]}
                               /\ ShapeOf(other)[i] \in {Slug, path[i]}
  BY DEF MatchesPattern, Fits
<1>4. \A i \in 1..Len(path) : ShapeOf(place)[i] = ShapeOf(other)[i]
  BY <1>1, <1>3
<1>5. ShapeOf(place) = ShapeOf(other)
  BY <1>2, <1>3, <1>4, SeqEqual
<1>6. QED
  BY <1>5, PagesAreLaidOut DEF DynamicPages

LEMMA NotStatic ==
    ASSUME NEW place \in DynamicPages
    PROVE  /\ ShapeOf(place) \notin StaticPaths
           /\ \A path \in Paths : MatchesPattern(place, path) => path \notin StaticPaths
<1>1. \A other \in StaticPages : other \in Places /\ ShapeOf(other) # ShapeOf(place)
  BY PagesAreLaidOut DEF StaticPages, DynamicPages, PageShapes
<1>2. \A path \in Paths : MatchesPattern(place, path) => IsExample(place, path)
  BY TakenIsExample
<1>3. QED
  BY <1>1, <1>2 DEF StaticPaths, IsExample

LEMMA FirstIs ==
    ASSUME NEW places \in SUBSET Places, places # {}
    PROVE  FirstOf(places) \in places
<1>1. places \subseteq Nat
  BY SiteTypes
<1>2. \E place \in places : \A other \in places : place <= other
  BY <1>1, LeastNatural
<1>3. QED
  BY <1>2 DEF FirstOf

-----------------------------------------------------------------------------
(* The start of a crawl.                                                   *)

LEMMA StartingQueue ==
    /\ PreferredPaths \in Seq(Paths) /\ StartingPaths \in Seq(Paths)
    /\ ToSet(StartingPaths) = StaticPaths
<1> DEFINE all == [place \in Places |-> place]
<1>1. all \in Seq(Places) /\ Len(all) = Len(PageFiles)
  <2>1. Len(PageFiles) \in Nat /\ \A i \in 1..Len(PageFiles) : i \in Places
    BY SiteTypes DEF Places
  <2>2. [i \in 1..Len(PageFiles) |-> i] \in [1..Len(PageFiles) -> Places]
    BY <2>1
  <2>3. QED
    BY <2>1, <2>2 DEF Places
<1>2. ASSUME NEW places \in SUBSET Places
      PROVE  InOrder(places) \in Seq(places) /\ ToSet(InOrder(places)) = places
             /\ DOMAIN InOrder(places) = 1..Len(InOrder(places)) /\ Len(InOrder(places)) \in Nat
  <2>1. places \in SUBSET (1..Len(all)) /\ InOrder(places) = ElementsAt(all, places)
    BY <1>1 DEF Places, InOrder
  <2>2. \A i \in places : all[i] = i
    OBVIOUS
  <2> HIDE DEF all
  <2>3. /\ InOrder(places) \in Seq(Places)
        /\ ToSet(InOrder(places)) = {all[i] : i \in places}
    BY <1>1, <2>1, SetOfSome
  <2>4. ToSet(InOrder(places)) = places
    BY <2>2, <2>3
  <2>5. DOMAIN InOrder(places) = 1..Len(InOrder(places)) /\ Len(InOrder(places)) \in Nat
    BY <2>3, LenProperties
  <2>6. \A i \in 1..Len(InOrder(places)) : InOrder(places)[i] \in places
    BY <2>4, <2>5 DEF ToSet
  <2>7. InOrder(places) \in [1..Len(InOrder(places)) -> places]
    BY <2>3, <2>6, LenProperties
  <2>8. QED
    BY <2>4, <2>5, <2>7
<1>3. PreferredPaths \in Seq(Paths)
  <2> DEFINE places == {place \in DynamicPages : ShapeOf(place) \in DOMAIN Preferred}
             list == InOrder(places)
  <2>1. places \in SUBSET Places
    BY DEF DynamicPages, PageShapes
  <2>2. \A place \in places : Preferred[ShapeOf(place)] \in Paths
    BY CrawlConstants
  <2> HIDE DEF places
  <2>3. list \in Seq(places) /\ Len(list) \in Nat
    BY <1>2, <2>1
  <2>4. \A i \in 1..Len(list) : list[i] \in places
    BY <2>3, ElementOfSeq
  <2> HIDE DEF list
  <2>5. [i \in 1..Len(list) |-> Preferred[ShapeOf(list[i])]] \in [1..Len(list) -> Paths]
    BY <2>2, <2>4
  <2>6. [i \in 1..Len(list) |-> Preferred[ShapeOf(list[i])]] \in Seq(Paths)
    BY <2>3, <2>5
  <2>7. QED
    BY <2>6 DEF PreferredPaths, list, places
<1>4. StartingPaths \in Seq(Paths) /\ ToSet(StartingPaths) = StaticPaths
  <2> DEFINE list == InOrder(StaticPages)
             u == [i \in 1..Len(list) |-> ShapeOf(list[i])]
  <2>1. StaticPages \in SUBSET Places /\ \A place \in StaticPages : ShapeOf(place) \in Paths
    BY SiteTypes DEF StaticPages, PageShapes
  <2>2. list \in Seq(StaticPages) /\ Len(list) \in Nat /\ ToSet(list) = StaticPages
        /\ DOMAIN list = 1..Len(list)
    BY <1>2, <2>1
  <2>3. \A i \in 1..Len(list) : list[i] \in StaticPages
    BY <2>2, ElementOfSeq
  <2> HIDE DEF list
  <2>4. u \in [1..Len(list) -> Paths]
    BY <2>1, <2>3
  <2>5. u \in Seq(Paths) /\ DOMAIN u = 1..Len(list)
    BY <2>2, <2>4
  <2>6. \A x : x \in ToSet(u) <=> \E i \in 1..Len(list) : x = ShapeOf(list[i])
    BY <2>5 DEF ToSet
  <2>7. \A x : x \in StaticPaths <=> \E i \in 1..Len(list) : x = ShapeOf(list[i])
    <3>1. \A place : place \in StaticPages <=> \E i \in 1..Len(list) : place = list[i]
      BY <2>2 DEF ToSet
    <3>2. QED
      BY <3>1 DEF StaticPaths
  <2>8. ToSet(u) = StaticPaths
    BY <2>6, <2>7
  <2>9. StartingPaths = u
    BY DEF StartingPaths, list
  <2>10. QED
    BY <2>5, <2>8, <2>9
<1>5. QED
  BY <1>3, <1>4

-----------------------------------------------------------------------------
(***************************************************************************)
(* A crawl, for any files and links that are laid out so, and any budget.  *)
(* The invariant says of every path that was visited what came of it: it   *)
(* is awaited, it was fetched, or it leads to nothing that is still looked *)
(* for; of every section whose page it is; and of every fetch what it was  *)
(* spent on.                                                               *)
(***************************************************************************)

Examples == [shape : Paths, path : Paths]
HtmlPages == [path : Paths, links : LinkLists, usable : BOOLEAN]
Crawls ==
    [step : {"none", "crawling", "fetching", "done", "failed"}, queue : Seq(Paths),
     visited : SUBSET Paths, fetches : Nat, at : Paths, remaining : SUBSET DynamicPages,
     resolved : Seq(Examples), html : SUBSET HtmlPages]

IsAwaited(c, path) == c.step \in {"fetching", "failed"} /\ c.at = path
IsFetched(c, path) == \E page \in c.html : page.path = path
IsUsable(c, path) == \E page \in c.html : page.path = path /\ page.usable
IsExampleOf(c, shape, path) ==
    \/ path \in StaticPaths /\ shape = path
    \/ \E place \in DynamicPages \ c.remaining :
          shape = ShapeOf(place) /\ MatchesPattern(place, path)
HasSection(c, shape) == \E i \in 1..Len(c.resolved) : c.resolved[i].shape = shape

\* What is awaited is of use, and was not fetched before.
CrawlAwaits(c) ==
    \A path \in Paths : IsAwaited(c, path) =>
        /\ path \in c.visited /\ ~IsFetched(c, path)
        /\ path \in StaticPaths \/ \E place \in c.remaining : MatchesPattern(place, path)

\* What was fetched was visited, and is no example of what is still looked for.
CrawlFetched(c) ==
    /\ IsFiniteSet(c.html)
    /\ \A page \in c.html : page.path \in c.visited
    /\ \A page \in c.html, place \in c.remaining :
          MatchesPattern(place, page.path) => ~page.usable

\* A section is of a static page, or of an example of a shape that is no more looked for.
CrawlResolved(c) ==
    /\ \A i \in 1..Len(c.resolved) :
          /\ IsUsable(c, c.resolved[i].path)
          /\ IsExampleOf(c, c.resolved[i].shape, c.resolved[i].path)
    /\ \A i, j \in 1..Len(c.resolved) : c.resolved[i].shape = c.resolved[j].shape => i = j
    /\ \A place \in DynamicPages \ c.remaining : HasSection(c, ShapeOf(place))

\* Nothing that could be an example is passed over.
CrawlTries(c) ==
    /\ StaticPaths \subseteq c.visited \cup ToSet(c.queue)
    /\ \A path \in c.visited \cap StaticPaths : IsAwaited(c, path) \/ HasSection(c, path)
    /\ \A path \in c.visited, place \in c.remaining :
          MatchesPattern(place, path) => IsAwaited(c, path) \/ IsFetched(c, path)
    /\ \A page \in c.html, place \in c.remaining : \A href \in ToSet(page.links) \ Sentinels :
          MatchesPattern(place, href) => href \in c.visited \cup ToSet(c.queue)

Unusable(c) == {page \in c.html : ~page.usable}
CrawlCounts(c) ==
    c.fetches = Len(c.resolved) + Cardinality(Unusable(c))
                + (IF c.step \in {"fetching", "failed"} THEN 1 ELSE 0)

CrawlIs(c) ==
    CrawlAwaits(c) /\ CrawlFetched(c) /\ CrawlResolved(c) /\ CrawlTries(c) /\ CrawlCounts(c)

CrawlInv ==
    /\ crawl \in Crawls /\ reports \in Nat
    /\ crawl.step = "none" => crawl = NoCrawl
    /\ crawl.step # "none" => CrawlIs(crawl)
    /\ crawl.step = "done" => ~More

-----------------------------------------------------------------------------
(* What one step makes of a crawl.                                         *)

\* Sections are of what was fetched and of what is no more looked for.
LEMMA SameSections ==
    ASSUME NEW c, NEW d, CrawlResolved(c), d.html = c.html, d.remaining = c.remaining,
           d.resolved = c.resolved
    PROVE  /\ CrawlResolved(d) /\ Unusable(d) = Unusable(c)
           /\ \A path : IsFetched(d, path) <=> IsFetched(c, path)
           /\ \A shape : HasSection(d, shape) <=> HasSection(c, shape)
<1>1. /\ Unusable(d) = Unusable(c)
      /\ \A path : IsFetched(d, path) <=> IsFetched(c, path)
      /\ \A shape : HasSection(d, shape) <=> HasSection(c, shape)
  BY DEF Unusable, IsFetched, HasSection
<1>2. CrawlResolved(d)
  BY <1>1 DEF CrawlResolved, IsUsable, IsExampleOf
<1>3. QED
  BY <1>1, <1>2

LEMMA SkipKeeps ==
    ASSUME NEW c \in Crawls, CrawlIs(c), c.step = "crawling", c.queue # <<>>,
           NEW path, path = Head(c.queue),
           path \in c.visited \/ (path \notin StaticPaths /\ Candidates(c.remaining, path) = {}),
           NEW d, d = [c EXCEPT !.queue = Tail(@), !.visited = @ \cup {path}]
    PROVE  d \in Crawls /\ CrawlIs(d)
<1>1. /\ c.queue \in Seq(Paths) /\ c.visited \subseteq Paths
      /\ path \in Paths /\ Tail(c.queue) \in Seq(Paths)
      /\ ToSet(c.queue) = {path} \cup ToSet(Tail(c.queue))
  BY SetOfQueue DEF Crawls
<1>2. d \in Crawls
  BY <1>1 DEF Crawls
<1>3. /\ d.step = c.step /\ d.queue = Tail(c.queue) /\ d.visited = c.visited \cup {path}
      /\ d.fetches = c.fetches /\ d.at = c.at /\ d.remaining = c.remaining
      /\ d.resolved = c.resolved /\ d.html = c.html
  BY DEF Crawls
<1>4. /\ CrawlResolved(d) /\ Unusable(d) = Unusable(c)
      /\ \A p : IsFetched(d, p) <=> IsFetched(c, p)
      /\ \A s : HasSection(d, s) <=> HasSection(c, s)
  BY <1>3, SameSections DEF CrawlIs
<1>5. CrawlAwaits(d) /\ \A p : ~IsAwaited(d, p) /\ ~IsAwaited(c, p)
  BY <1>3 DEF CrawlAwaits, IsAwaited
<1>6. CrawlFetched(d)
  BY <1>3 DEF CrawlFetched, CrawlIs
<1>7. CrawlTries(d)
  <2>1. StaticPaths \subseteq d.visited \cup ToSet(d.queue)
    BY <1>1, <1>3 DEF CrawlIs, CrawlTries
  <2>2. \A p \in d.visited \cap StaticPaths : IsAwaited(d, p) \/ HasSection(d, p)
    BY <1>3, <1>4, <1>5 DEF CrawlIs, CrawlTries
  <2>3. \A p \in d.visited, place \in d.remaining :
           MatchesPattern(place, p) => IsAwaited(d, p) \/ IsFetched(d, p)
    BY <1>3, <1>4, <1>5 DEF CrawlIs, CrawlTries, Candidates
  <2>4. \A page \in d.html, place \in d.remaining : \A href \in ToSet(page.links) \ Sentinels :
           MatchesPattern(place, href) => href \in d.visited \cup ToSet(d.queue)
    BY <1>1, <1>3 DEF CrawlIs, CrawlTries
  <2>5. QED
    BY <2>1, <2>2, <2>3, <2>4 DEF CrawlTries
<1>8. CrawlCounts(d)
  BY <1>3, <1>4 DEF CrawlCounts, CrawlIs
<1>9. QED
  BY <1>2, <1>4, <1>5, <1>6, <1>7, <1>8 DEF CrawlIs

LEMMA FetchKeeps ==
    ASSUME NEW c \in Crawls, CrawlIs(c), c.step = "crawling", c.queue # <<>>,
           NEW path, path = Head(c.queue), path \notin c.visited,
           path \in StaticPaths \/ Candidates(c.remaining, path) # {},
           NEW d, d = [c EXCEPT !.step = "fetching", !.queue = Tail(@),
                                !.visited = @ \cup {path}, !.fetches = @ + 1, !.at = path]
    PROVE  d \in Crawls /\ CrawlIs(d)
<1>1. /\ c.queue \in Seq(Paths) /\ c.visited \subseteq Paths
      /\ path \in Paths /\ Tail(c.queue) \in Seq(Paths)
      /\ ToSet(c.queue) = {path} \cup ToSet(Tail(c.queue))
  BY SetOfQueue DEF Crawls
<1>2. /\ d.step = "fetching" /\ d.queue = Tail(c.queue) /\ d.visited = c.visited \cup {path}
      /\ d.fetches = c.fetches + 1 /\ d.at = path /\ d.remaining = c.remaining
      /\ d.resolved = c.resolved /\ d.html = c.html
  BY DEF Crawls
<1>3. d \in Crawls
  <2>1. /\ c.visited \cup {path} \in SUBSET Paths /\ c.fetches + 1 \in Nat
        /\ c.remaining \in SUBSET DynamicPages /\ c.resolved \in Seq(Examples)
        /\ c.html \in SUBSET HtmlPages
    BY <1>1 DEF Crawls
  <2>2. d = [step |-> "fetching", queue |-> Tail(c.queue), visited |-> c.visited \cup {path},
             fetches |-> c.fetches + 1, at |-> path, remaining |-> c.remaining,
             resolved |-> c.resolved, html |-> c.html]
    BY DEF Crawls
  <2>3. QED
    BY <1>1, <2>1, <2>2 DEF Crawls
<1>4. /\ CrawlResolved(d) /\ Unusable(d) = Unusable(c)
      /\ \A p : IsFetched(d, p) <=> IsFetched(c, p)
      /\ \A s : HasSection(d, s) <=> HasSection(c, s)
  BY <1>2, SameSections DEF CrawlIs
<1>5. \A p : ~IsAwaited(c, p) /\ (IsAwaited(d, p) <=> p = path)
  BY <1>2 DEF IsAwaited
<1>6. CrawlAwaits(d)
  <2>1. ~IsFetched(c, path)
    BY DEF IsFetched, CrawlIs, CrawlFetched
  <2>2. path \in StaticPaths \/ \E place \in c.remaining : MatchesPattern(place, path)
    BY DEF Candidates
  <2>3. QED
    BY <1>2, <1>4, <1>5, <2>1, <2>2 DEF CrawlAwaits
<1>7. CrawlFetched(d)
  BY <1>2 DEF CrawlFetched, CrawlIs
<1>8. CrawlTries(d)
  <2>1. StaticPaths \subseteq d.visited \cup ToSet(d.queue)
    BY <1>1, <1>2 DEF CrawlIs, CrawlTries
  <2>2. \A p \in d.visited \cap StaticPaths : IsAwaited(d, p) \/ HasSection(d, p)
    BY <1>2, <1>4, <1>5 DEF CrawlIs, CrawlTries
  <2>3. \A p \in d.visited, place \in d.remaining :
           MatchesPattern(place, p) => IsAwaited(d, p) \/ IsFetched(d, p)
    BY <1>2, <1>4, <1>5 DEF CrawlIs, CrawlTries
  <2>4. \A page \in d.html, place \in d.remaining : \A href \in ToSet(page.links) \ Sentinels :
           MatchesPattern(place, href) => href \in d.visited \cup ToSet(d.queue)
    BY <1>1, <1>2 DEF CrawlIs, CrawlTries
  <2>5. QED
    BY <2>1, <2>2, <2>3, <2>4 DEF CrawlTries
<1>9. CrawlCounts(d)
  <2> DEFINE n == Len(c.resolved) + Cardinality(Unusable(c))
  <2>1. c.fetches = n + 0 /\ d.fetches = c.fetches + 1
    BY <1>2 DEF CrawlIs, CrawlCounts
  <2>2. n \in Nat
    <3>1. Len(c.resolved) \in Nat
      BY LenProperties DEF Crawls
    <3>2. Unusable(c) \in SUBSET c.html /\ IsFiniteSet(c.html)
      BY DEF Unusable, CrawlIs, CrawlFetched
    <3>3. Cardinality(Unusable(c)) \in Nat
      BY <3>2, FS_Subset, FS_CardinalityType
    <3>4. QED
      BY <3>1, <3>3
  <2> HIDE DEF n
  <2>3. d.fetches = n + 1
    BY <2>1, <2>2
  <2>4. QED
    BY <1>2, <1>4, <2>3 DEF CrawlCounts, n
<1>10. QED
  BY <1>3, <1>4, <1>6, <1>7, <1>8, <1>9 DEF CrawlIs

LEMMA FailureKeeps ==
    ASSUME NEW c \in Crawls, CrawlIs(c), c.step = "fetching",
           NEW d, d = [c EXCEPT !.step = "failed"]
    PROVE  d \in Crawls /\ CrawlIs(d)
<1>1. d \in Crawls
  BY DEF Crawls
<1>2. /\ d.step = "failed" /\ d.queue = c.queue /\ d.visited = c.visited
      /\ d.fetches = c.fetches /\ d.at = c.at /\ d.remaining = c.remaining
      /\ d.resolved = c.resolved /\ d.html = c.html
  BY DEF Crawls
<1>3. /\ CrawlResolved(d) /\ Unusable(d) = Unusable(c)
      /\ \A p : IsFetched(d, p) <=> IsFetched(c, p)
      /\ \A s : HasSection(d, s) <=> HasSection(c, s)
  BY <1>2, SameSections DEF CrawlIs
<1>4. \A p : IsAwaited(d, p) <=> IsAwaited(c, p)
  BY <1>2 DEF IsAwaited
<1>5. CrawlAwaits(d) /\ CrawlFetched(d)
  BY <1>2, <1>3, <1>4 DEF CrawlAwaits, CrawlFetched, CrawlIs
<1>6. CrawlTries(d)
  BY <1>2, <1>3, <1>4 DEF CrawlTries, CrawlIs
<1>7. CrawlCounts(d)
  BY <1>2, <1>3 DEF CrawlCounts, CrawlIs
<1>8. QED
  BY <1>1, <1>3, <1>5, <1>6, <1>7 DEF CrawlIs

LEMMA EndKeeps ==
    ASSUME NEW c \in Crawls, CrawlIs(c), c.step = "crawling",
           NEW d, d = [c EXCEPT !.step = "done"]
    PROVE  d \in Crawls /\ CrawlIs(d)
<1>1. d \in Crawls
  BY DEF Crawls
<1>2. /\ d.step = "done" /\ d.queue = c.queue /\ d.visited = c.visited
      /\ d.fetches = c.fetches /\ d.at = c.at /\ d.remaining = c.remaining
      /\ d.resolved = c.resolved /\ d.html = c.html
  BY DEF Crawls
<1>3. /\ CrawlResolved(d) /\ Unusable(d) = Unusable(c)
      /\ \A p : IsFetched(d, p) <=> IsFetched(c, p)
      /\ \A s : HasSection(d, s) <=> HasSection(c, s)
  BY <1>2, SameSections DEF CrawlIs
<1>4. \A p : ~IsAwaited(d, p) /\ ~IsAwaited(c, p)
  BY <1>2 DEF IsAwaited
<1>5. CrawlAwaits(d) /\ CrawlFetched(d)
  BY <1>2, <1>3, <1>4 DEF CrawlAwaits, CrawlFetched, CrawlIs
<1>6. CrawlTries(d)
  BY <1>2, <1>3, <1>4 DEF CrawlTries, CrawlIs
<1>7. CrawlCounts(d)
  BY <1>2, <1>3 DEF CrawlCounts, CrawlIs
<1>8. QED
  BY <1>1, <1>3, <1>5, <1>6, <1>7 DEF CrawlIs

LEMMA StartIs ==
    ASSUME NEW queue \in Seq(Paths), StaticPaths \subseteq ToSet(queue),
           NEW none \in Paths, none \in Seq(Examples), Len(none) = 0,
           NEW d,
           d = [step |-> "crawling", queue |-> queue, visited |-> {}, fetches |-> 0, at |-> none,
                remaining |-> DynamicPages, resolved |-> none, html |-> {}]
    PROVE  d \in Crawls /\ CrawlIs(d)
<1>1. /\ d.step = "crawling" /\ d.queue = queue /\ d.visited = {} /\ d.fetches = 0
       /\ d.remaining = DynamicPages /\ d.resolved = none /\ d.html = {}
  OBVIOUS
<1>2. d \in Crawls
  <2>1. /\ {} \in SUBSET Paths /\ 0 \in Nat /\ DynamicPages \in SUBSET DynamicPages
        /\ {} \in SUBSET HtmlPages
    OBVIOUS
  <2>2. QED
    BY <2>1 DEF Crawls
<1>3. CrawlAwaits(d)
  BY <1>1 DEF CrawlAwaits, IsAwaited
<1>4. CrawlFetched(d)
  BY <1>1, FS_EmptySet DEF CrawlFetched
<1>5. CrawlResolved(d)
  <2>1. d.resolved = none /\ 1..Len(d.resolved) = {} /\ DynamicPages \ d.remaining = {}
    BY <1>1
  <2>2. QED
    BY <2>1 DEF CrawlResolved
<1>6. CrawlTries(d)
  BY <1>1 DEF CrawlTries
<1>7. CrawlCounts(d)
  <2>1. Unusable(d) = {} /\ d.fetches = 0 /\ Len(d.resolved) = 0 /\ d.step = "crawling"
    BY <1>1 DEF Unusable
  <2>2. Cardinality(Unusable(d)) = 0
    BY <2>1, FS_EmptySet
  <2>3. QED
    BY <2>1, <2>2 DEF CrawlCounts
<1>8. QED
  BY <1>2, <1>3, <1>4, <1>5, <1>6, <1>7 DEF CrawlIs

\* A page that arrives leaves no link behind that could be an example.
LEMMA ArrivalTries ==
    ASSUME NEW c \in Crawls, CrawlIs(c), c.step = "fetching",
           NEW links \in LinkLists, NEW usable \in BOOLEAN,
           NEW d, d.step = "crawling", d.visited = c.visited, d.remaining \subseteq c.remaining,
           d.html = c.html \cup {[path |-> c.at, links |-> links, usable |-> usable]},
           d.queue = c.queue \o ElementsAt(links, ToQueue(c.queue, c.visited, d.remaining, links)),
           \A place \in d.remaining : MatchesPattern(place, c.at) => ~usable,
           \A shape : HasSection(c, shape) => HasSection(d, shape),
           c.at \in StaticPaths => HasSection(d, c.at)
    PROVE  CrawlAwaits(d) /\ CrawlFetched(d) /\ CrawlTries(d)
<1> DEFINE page == [path |-> c.at, links |-> links, usable |-> usable]
           queued == ToQueue(c.queue, c.visited, d.remaining, links)
<1>1. page.path = c.at /\ page.links = links /\ page.usable = usable /\ d.html = c.html \cup {page}
  OBVIOUS
<1> HIDE DEF page
<1>2. c.at \in Paths /\ \A p : IsAwaited(c, p) <=> p = c.at
  BY DEF IsAwaited, Crawls
<1>3. c.at \in c.visited
  BY <1>2 DEF CrawlIs, CrawlAwaits
<1>4. \A p : ~IsAwaited(d, p)
  BY DEF IsAwaited
<1>5. \A p : IsFetched(c, p) \/ p = c.at => IsFetched(d, p)
  BY <1>1 DEF IsFetched
<1>6. CrawlAwaits(d)
  BY <1>4 DEF CrawlAwaits
<1>7. CrawlFetched(d)
  <2>1. IsFiniteSet(d.html)
    BY <1>1, FS_AddElement DEF CrawlIs, CrawlFetched
  <2>2. \A p \in d.html : p.path \in d.visited
    BY <1>1, <1>3 DEF CrawlIs, CrawlFetched
  <2>3. \A p \in d.html, place \in d.remaining : MatchesPattern(place, p.path) => ~p.usable
    BY <1>1 DEF CrawlIs, CrawlFetched
  <2>4. QED
    BY <2>1, <2>2, <2>3 DEF CrawlFetched
<1>8. /\ links \in Seq(Paths) /\ DOMAIN links = 1..Len(links) /\ Len(links) \in Nat
      /\ c.queue \in Seq(Paths) /\ queued \in SUBSET (1..Len(links))
  BY CrawlConstants, LenProperties DEF Crawls, ToQueue
<1>9. ToSet(d.queue) = ToSet(c.queue) \cup {links[i] : i \in queued}
  <2> HIDE DEF queued
  <2>1. /\ ElementsAt(links, queued) \in Seq(Paths)
        /\ ToSet(ElementsAt(links, queued)) = {links[i] : i \in queued}
    BY <1>8, SetOfSome
  <2>2. d.queue = c.queue \o ElementsAt(links, queued)
    BY DEF queued
  <2>3. ToSet(c.queue \o ElementsAt(links, queued))
           = ToSet(c.queue) \cup ToSet(ElementsAt(links, queued))
    BY <1>8, <2>1, SetOfBoth
  <2>4. QED
    BY <2>1, <2>2, <2>3
<1>10. ASSUME NEW href \in ToSet(links) \ Sentinels, NEW place \in d.remaining,
              MatchesPattern(place, href)
       PROVE  href \in d.visited \cup ToSet(d.queue)
  <2>1. SUFFICES ASSUME href \notin c.visited \cup ToSet(c.queue)
                 PROVE  href \in {links[i] : i \in queued}
    BY <1>9
  <2> DEFINE T == {i \in 1..Len(links) : links[i] = href}
  <2>2. T \subseteq Nat /\ T # {}
    BY <1>8 DEF ToSet
  <2>3. PICK m \in T : \A i \in T : m <= i
    <3> HIDE DEF T
    <3>1. QED
      BY <2>2, LeastNatural
  <2>4. m \in 1..Len(links) /\ links[m] = href
    BY <2>3
  <2>5. \A j \in 1..(m - 1) : links[j] # links[m]
    <3>1. SUFFICES ASSUME NEW j \in 1..(m - 1), links[j] = links[m] PROVE FALSE
      OBVIOUS
    <3>2. j \in 1..Len(links) /\ ~(m <= j)
      BY <1>8, <2>4, <3>1
    <3>3. j \in T
      BY <2>4, <3>1, <3>2
    <3>4. QED
      BY <2>3, <3>2, <3>3
  <2>6. Candidates(d.remaining, links[m]) # {}
    BY <1>10, <2>4 DEF Candidates
  <2>7. m \in queued
    BY <1>10, <2>1, <2>4, <2>5, <2>6 DEF ToQueue
  <2>8. QED
    BY <2>4, <2>7
<1>11. CrawlTries(d)
  <2>1. StaticPaths \subseteq d.visited \cup ToSet(d.queue)
    BY <1>9 DEF CrawlIs, CrawlTries
  <2>2. \A p \in d.visited \cap StaticPaths : IsAwaited(d, p) \/ HasSection(d, p)
    BY <1>2 DEF CrawlIs, CrawlTries
  <2>3. \A p \in d.visited, place \in d.remaining :
           MatchesPattern(place, p) => IsAwaited(d, p) \/ IsFetched(d, p)
    BY <1>2, <1>5 DEF CrawlIs, CrawlTries
  <2>4. \A p \in d.html, place \in d.remaining : \A href \in ToSet(p.links) \ Sentinels :
           MatchesPattern(place, href) => href \in d.visited \cup ToSet(d.queue)
    <3>1. SUFFICES ASSUME NEW p \in d.html, NEW place \in d.remaining,
                          NEW href \in ToSet(p.links) \ Sentinels, MatchesPattern(place, href)
                   PROVE  href \in d.visited \cup ToSet(d.queue)
      OBVIOUS
    <3>2. CASE p \in c.html
      BY <1>9, <3>1, <3>2 DEF CrawlIs, CrawlTries
    <3>3. CASE p = page
      BY <1>1, <1>10, <3>1, <3>3
    <3>4. QED
      BY <1>1, <3>2, <3>3
  <2>5. QED
    BY <2>1, <2>2, <2>3, <2>4 DEF CrawlTries
<1>12. QED
  BY <1>6, <1>7, <1>11

\* A section is added for a shape that has none.
LEMMA SectionAdded ==
    ASSUME NEW c \in Crawls, CrawlResolved(c), NEW shape \in Paths, NEW path \in Paths,
           ~HasSection(c, shape),
           NEW d, d.resolved = Append(c.resolved, [shape |-> shape, path |-> path]),
           c.html \subseteq d.html, IsUsable(d, path),
           d.remaining \subseteq c.remaining,
           \A place \in c.remaining \ d.remaining : ShapeOf(place) = shape,
           IsExampleOf(d, shape, path)
    PROVE  /\ CrawlResolved(d) /\ d.resolved \in Seq(Examples)
           /\ Len(d.resolved) = Len(c.resolved) + 1
           /\ \A s : HasSection(d, s) <=> HasSection(c, s) \/ s = shape
<1> DEFINE example == [shape |-> shape, path |-> path]
           n == Len(c.resolved)
<1>1. example \in Examples /\ example.shape = shape /\ example.path = path
  BY DEF Examples
<1>2. c.resolved \in Seq(Examples) /\ n \in Nat
  BY LenProperties DEF Crawls
<1> HIDE DEF example
<1>3. d.resolved = Append(c.resolved, example)
  BY DEF example
<1>4. /\ d.resolved \in Seq(Examples) /\ Len(d.resolved) = n + 1
      /\ \A i \in 1..n : d.resolved[i] = c.resolved[i]
      /\ d.resolved[n + 1] = example
  BY <1>1, <1>2, <1>3, AppendProperties
<1> HIDE DEF n
<1>5. \A i \in 1..(n + 1) : i \in 1..n \/ i = n + 1
  BY <1>2
<1>6. \A i \in 1..n : i \in 1..(n + 1)
  BY <1>2
<1>7. n + 1 \in 1..(n + 1)
  BY <1>2
<1>8. \A s : HasSection(c, s) <=> \E i \in 1..n : c.resolved[i].shape = s
  BY DEF HasSection, n
<1>9. \A s : HasSection(d, s) <=> \E i \in 1..(n + 1) : d.resolved[i].shape = s
  BY <1>4 DEF HasSection
<1>10. \A s : HasSection(d, s) <=> HasSection(c, s) \/ s = shape
  BY <1>1, <1>4, <1>5, <1>6, <1>7, <1>8, <1>9
<1>11. ASSUME NEW i \in 1..Len(d.resolved)
       PROVE  /\ IsUsable(d, d.resolved[i].path)
              /\ IsExampleOf(d, d.resolved[i].shape, d.resolved[i].path)
  <2>1. CASE i \in 1..n
    <3>1. d.resolved[i] = c.resolved[i] /\ i \in 1..Len(c.resolved)
      BY <1>4, <2>1 DEF n
    <3>2. /\ IsUsable(c, c.resolved[i].path)
          /\ IsExampleOf(c, c.resolved[i].shape, c.resolved[i].path)
      BY <3>1 DEF CrawlResolved
    <3>3. IsUsable(d, c.resolved[i].path)
      BY <3>2 DEF IsUsable
    <3>4. IsExampleOf(d, c.resolved[i].shape, c.resolved[i].path)
      BY <3>2 DEF IsExampleOf
    <3>5. QED
      BY <3>1, <3>3, <3>4
  <2>2. CASE i = n + 1
    BY <1>1, <1>4, <2>2
  <2>3. QED
    BY <1>4, <1>5, <2>1, <2>2
<1>12. \A i, j \in 1..Len(d.resolved) : d.resolved[i].shape = d.resolved[j].shape => i = j
  <2>1. \A i, j \in 1..n : c.resolved[i].shape = c.resolved[j].shape => i = j
    BY DEF CrawlResolved, n
  <2>2. \A i \in 1..n : c.resolved[i].shape # shape
    BY <1>8
  <2>3. QED
    BY <1>1, <1>4, <1>5, <2>1, <2>2
<1>13. \A place \in DynamicPages \ d.remaining : HasSection(d, ShapeOf(place))
  BY <1>10 DEF CrawlResolved
<1>14. CrawlResolved(d)
  BY <1>11, <1>12, <1>13 DEF CrawlResolved
<1>15. QED
  BY <1>4, <1>10, <1>14 DEF n

\* A page that arrives is a new one.
LEMMA PageAdded ==
    ASSUME NEW c \in Crawls, CrawlIs(c), c.step = "fetching", NEW links, NEW usable \in BOOLEAN,
           NEW d, d.html = c.html \cup {[path |-> c.at, links |-> links, usable |-> usable]}
    PROVE  /\ Cardinality(Unusable(c)) \in Nat
           /\ Cardinality(Unusable(d)) = Cardinality(Unusable(c)) + IF usable THEN 0 ELSE 1
<1> DEFINE page == [path |-> c.at, links |-> links, usable |-> usable]
<1>1. page.path = c.at /\ page.usable = usable /\ d.html = c.html \cup {page}
  OBVIOUS
<1> HIDE DEF page
<1>2. ~IsFetched(c, c.at)
  BY DEF IsAwaited, Crawls, CrawlIs, CrawlAwaits
<1>3. page \notin c.html
  BY <1>1, <1>2 DEF IsFetched
<1>4. IsFiniteSet(Unusable(c)) /\ Cardinality(Unusable(c)) \in Nat
  <2>1. Unusable(c) \in SUBSET c.html /\ IsFiniteSet(c.html)
    BY DEF Unusable, CrawlIs, CrawlFetched
  <2>2. QED
    BY <2>1, FS_Subset, FS_CardinalityType
<1>5. CASE usable
  <2>1. Unusable(d) = Unusable(c)
    BY <1>1, <1>5 DEF Unusable
  <2>2. QED
    BY <1>4, <1>5, <2>1
<1>6. CASE ~usable
  <2>1. Unusable(d) = Unusable(c) \cup {page} /\ page \notin Unusable(c)
    BY <1>1, <1>3, <1>6 DEF Unusable
  <2>2. Cardinality(Unusable(d)) = Cardinality(Unusable(c)) + 1
    BY <1>4, <2>1, FS_AddElement
  <2>3. QED
    BY <1>4, <1>6, <2>2
<1>7. QED
  BY <1>5, <1>6

\* What the arrival of a page makes of a crawl, its parts named.
Arrival(c, d, links, usable, matched, rejected, shape, remaining) ==
    /\ matched = Candidates(c.remaining, c.at) /\ (matched = {} => usable)
    /\ rejected \in BOOLEAN /\ (rejected <=> matched # {} /\ ~usable)
    /\ shape = IF c.at \in StaticPaths THEN c.at ELSE ShapeOf(FirstOf(matched))
    /\ remaining = IF rejected \/ matched = {} THEN c.remaining
                   ELSE c.remaining \ {FirstOf(matched)}
    /\ d.step = "crawling" /\ d.visited = c.visited /\ d.fetches = c.fetches
    /\ d.remaining = remaining
    /\ d.resolved = IF rejected THEN c.resolved
                    ELSE Append(c.resolved, [shape |-> shape, path |-> c.at])
    /\ d.queue = c.queue \o ElementsAt(links, ToQueue(c.queue, c.visited, remaining, links))
    /\ d.html = c.html \cup {[path |-> c.at, links |-> links, usable |-> usable]}

LEMMA ArrivalKeeps ==
    ASSUME NEW c \in Crawls, CrawlIs(c), c.step = "fetching",
           NEW links \in LinkLists, NEW usable \in BOOLEAN,
           NEW matched, NEW rejected, NEW shape, NEW remaining,
           NEW d, Arrival(c, d, links, usable, matched, rejected, shape, remaining)
    PROVE  /\ CrawlIs(d) /\ d.queue \in Seq(Paths) /\ d.remaining \in SUBSET DynamicPages
           /\ d.resolved \in Seq(Examples) /\ d.html \in SUBSET HtmlPages
<1> USE DEF Arrival
<1> DEFINE wanted == ToQueue(c.queue, c.visited, remaining, links)
<1> DEFINE page == [path |-> c.at, links |-> links, usable |-> usable]
<1>1. d.html = c.html \cup {page}
  OBVIOUS
<1>2. page.path = c.at /\ page.usable = usable /\ page \in d.html
  BY <1>1
<1>3. /\ c.at \in Paths /\ c.queue \in Seq(Paths) /\ c.visited \in SUBSET Paths
      /\ c.fetches \in Nat /\ c.remaining \in SUBSET DynamicPages
      /\ c.resolved \in Seq(Examples) /\ c.html \in SUBSET HtmlPages
  BY DEF Crawls
<1>4. matched \subseteq c.remaining /\ matched \in SUBSET Places
      /\ \A place \in c.remaining : place \in matched <=> MatchesPattern(place, c.at)
  BY <1>3 DEF Candidates, DynamicPages, PageShapes
<1>5. c.at \in StaticPaths \/ matched # {}
  BY <1>3, <1>4 DEF IsAwaited, CrawlIs, CrawlAwaits
<1>6. c.at \in StaticPaths => matched = {}
  BY <1>3, <1>4, NotStatic
<1>7. remaining \in SUBSET c.remaining /\ remaining \in SUBSET DynamicPages
  BY <1>3
<1>8. d.queue \in Seq(Paths)
  <2>1. links \in Seq(Paths) /\ wanted \in SUBSET (1..Len(links))
    BY CrawlConstants DEF ToQueue
  <2>2. ElementsAt(links, wanted) \in Seq(Paths)
    BY <2>1, SetOfSome
  <2>3. QED
    BY <1>3, <2>2, SetOfBoth
<1>9. c.html \cup {page} \in SUBSET HtmlPages
  BY <1>3 DEF HtmlPages
<1> HIDE DEF page
<1>10. /\ Cardinality(Unusable(c)) \in Nat /\ Len(c.resolved) \in Nat
       /\ Cardinality(Unusable(d)) = Cardinality(Unusable(c)) + IF usable THEN 0 ELSE 1
       /\ c.fetches = Len(c.resolved) + Cardinality(Unusable(c)) + 1
  <2>1. /\ Cardinality(Unusable(c)) \in Nat
        /\ Cardinality(Unusable(d)) = Cardinality(Unusable(c)) + IF usable THEN 0 ELSE 1
    <3>1. d.html = c.html \cup {[path |-> c.at, links |-> links, usable |-> usable]}
      OBVIOUS
    <3> HIDE DEF Arrival
    <3>2. QED
      BY <3>1, PageAdded
  <2>2. Len(c.resolved) \in Nat
    BY <1>3, LenProperties
  <2>3. QED
    BY <2>1, <2>2 DEF CrawlIs, CrawlCounts
<1>11. CrawlResolved(c) /\ c.html \subseteq d.html
  BY <1>1 DEF CrawlIs
<1>12. ASSUME rejected
       PROVE  /\ CrawlResolved(d) /\ d.resolved \in Seq(Examples)
              /\ \A s : HasSection(c, s) => HasSection(d, s)
              /\ c.at \in StaticPaths => HasSection(d, c.at)
              /\ \A place \in remaining : MatchesPattern(place, c.at) => ~usable
              /\ CrawlCounts(d)
  <2>1. d.resolved = c.resolved /\ d.remaining = c.remaining /\ ~usable /\ c.at \notin StaticPaths
    BY <1>1, <1>6, <1>12
  <2>2. \A s : HasSection(d, s) <=> HasSection(c, s)
    BY <2>1 DEF HasSection
  <2>3. CrawlResolved(d)
    <3>1. \A p : IsUsable(c, p) => IsUsable(d, p)
      BY <1>11 DEF IsUsable
    <3>2. \A s, p : IsExampleOf(c, s, p) => IsExampleOf(d, s, p)
      BY <2>1 DEF IsExampleOf
    <3>3. QED
      BY <1>11, <2>1, <2>2, <3>1, <3>2 DEF CrawlResolved
  <2>4. CrawlCounts(d)
    <3>1. Cardinality(Unusable(d)) = Cardinality(Unusable(c)) + 1
      BY <1>10, <2>1
    <3>2. QED
      BY <1>1, <1>10, <2>1, <3>1 DEF CrawlCounts
  <2>5. QED
    BY <1>1, <1>3, <1>12, <2>1, <2>2, <2>3, <2>4
<1>13. ASSUME ~rejected, c.at \in StaticPaths
       PROVE  /\ remaining = c.remaining /\ shape = c.at /\ shape \in Paths
              /\ ~HasSection(c, shape)
  <2>1. remaining = c.remaining /\ shape = c.at /\ shape \in Paths
    BY <1>3, <1>6, <1>13
  <2>2. SUFFICES ASSUME NEW i \in 1..Len(c.resolved), c.resolved[i].shape = c.at PROVE FALSE
    BY <2>1 DEF HasSection
  <2>3. c.resolved[i].path # c.at
    BY <1>3 DEF CrawlIs, CrawlResolved, CrawlAwaits, IsFetched, IsAwaited, IsUsable
  <2>4. \A place \in DynamicPages : ShapeOf(place) # c.at
    BY <1>13, NotStatic
  <2>5. \/ c.resolved[i].path \in StaticPaths /\ c.resolved[i].shape = c.resolved[i].path
        \/ \E place \in DynamicPages \ c.remaining : c.resolved[i].shape = ShapeOf(place)
    BY <1>11 DEF CrawlResolved, IsExampleOf
  <2>6. QED
    BY <2>2, <2>3, <2>4, <2>5
<1>14. ASSUME ~rejected, c.at \notin StaticPaths
       PROVE  /\ FirstOf(matched) \in matched /\ shape = ShapeOf(FirstOf(matched))
              /\ remaining = c.remaining \ {FirstOf(matched)} /\ shape \in Paths
              /\ ~HasSection(c, shape) /\ usable
  <2>1. FirstOf(matched) \in matched
    BY <1>4, <1>5, <1>14, FirstIs
  <2>2. /\ shape = ShapeOf(FirstOf(matched)) /\ remaining = c.remaining \ {FirstOf(matched)}
        /\ FirstOf(matched) \in c.remaining /\ FirstOf(matched) \in DynamicPages /\ usable
    BY <1>3, <1>4, <1>14, <2>1
  <2>3. shape \in Paths
    BY <1>4, <2>1, <2>2, SiteTypes, ZenonT(30)
  <2>4. SUFFICES ASSUME NEW i \in 1..Len(c.resolved), c.resolved[i].shape = shape PROVE FALSE
    BY <2>1, <2>2, <2>3 DEF HasSection
  <2>5. shape \notin StaticPaths
    BY <2>2, NotStatic
  <2>6. PICK place \in DynamicPages \ c.remaining : shape = ShapeOf(place)
    BY <1>11, <2>4, <2>5 DEF CrawlResolved, IsExampleOf
  <2>7. place = FirstOf(matched)
    BY <2>2, <2>6, PagesAreLaidOut DEF DynamicPages
  <2>8. QED
    BY <2>2, <2>6, <2>7
<1>15. ASSUME ~rejected
       PROVE  /\ CrawlResolved(d) /\ d.resolved \in Seq(Examples)
              /\ \A s : HasSection(c, s) => HasSection(d, s)
              /\ c.at \in StaticPaths => HasSection(d, c.at)
              /\ \A place \in remaining : MatchesPattern(place, c.at) => ~usable
              /\ CrawlCounts(d)
  <2>1. usable
    BY <1>4, <1>15
  <2>2. d.resolved = Append(c.resolved, [shape |-> shape, path |-> c.at])
    BY <1>1, <1>15
  <2>3. IsUsable(d, c.at)
    BY <1>2, <2>1 DEF IsUsable
  <2>4. /\ shape \in Paths /\ ~HasSection(c, shape)
        /\ \A place \in c.remaining \ d.remaining : ShapeOf(place) = shape
        /\ IsExampleOf(d, shape, c.at)
        /\ \A place \in remaining : ~MatchesPattern(place, c.at)
        /\ c.at \in StaticPaths => shape = c.at
    <3>1. CASE c.at \in StaticPaths
      BY <1>1, <1>3, <1>4, <1>6, <1>13, <1>15, <3>1 DEF IsExampleOf
    <3>2. CASE c.at \notin StaticPaths
      <4> DEFINE first == FirstOf(matched)
      <4>1. /\ first \in matched /\ shape = ShapeOf(first) /\ shape \in Paths
            /\ remaining = c.remaining \ {first} /\ ~HasSection(c, shape)
        BY <1>14, <1>15, <3>2
      <4> HIDE DEF first
      <4>2. first \in DynamicPages /\ MatchesPattern(first, c.at)
        BY <1>3, <1>4, <4>1
      <4>3. \A place \in remaining : ~MatchesPattern(place, c.at)
        <5>1. \A place \in remaining : place \in DynamicPages /\ place # first
          BY <1>7, <4>1
        <5>2. QED
          BY <1>3, <4>2, <5>1, OneShape
      <4>4. QED
        BY <1>1, <3>2, <4>1, <4>2, <4>3 DEF IsExampleOf
    <3>3. QED
      BY <3>1, <3>2
  <2>5. d.remaining \subseteq c.remaining
    BY <1>1, <1>7
  <2>6. /\ CrawlResolved(d) /\ d.resolved \in Seq(Examples)
        /\ Len(d.resolved) = Len(c.resolved) + 1
        /\ \A s : HasSection(d, s) <=> HasSection(c, s) \/ s = shape
    BY <1>3, <1>11, <2>2, <2>3, <2>4, <2>5, SectionAdded, SMTT(20)
  <2>7. CrawlCounts(d)
    <3>1. Cardinality(Unusable(d)) = Cardinality(Unusable(c))
      BY <1>10, <2>1
    <3>2. QED
      BY <1>1, <1>10, <2>6, <3>1 DEF CrawlCounts
  <2>8. QED
    BY <1>1, <2>4, <2>6, <2>7
<1>16. CrawlAwaits(d) /\ CrawlFetched(d) /\ CrawlTries(d)
  <2>1. /\ d.html = c.html \cup {[path |-> c.at, links |-> links, usable |-> usable]}
        /\ d.queue = c.queue
                     \o ElementsAt(links, ToQueue(c.queue, c.visited, d.remaining, links))
    OBVIOUS
  <2>2. /\ \A place \in d.remaining : MatchesPattern(place, c.at) => ~usable
        /\ \A s : HasSection(c, s) => HasSection(d, s)
        /\ c.at \in StaticPaths => HasSection(d, c.at)
    BY <1>1, <1>12, <1>15
  <2>3. QED
    BY <1>7, <2>1, <2>2, ArrivalTries
<1>17. QED
  BY <1>1, <1>7, <1>8, <1>9, <1>12, <1>15, <1>16 DEF CrawlIs

-----------------------------------------------------------------------------
(* The invariant holds, step by step.                                      *)

LEMMA CrawlStarts ==
    CrawlInit => CrawlInv
<1>1. SUFFICES ASSUME CrawlInit PROVE CrawlInv
  OBVIOUS
<1>2. crawl = NoCrawl /\ reports = 0
  BY <1>1 DEF CrawlInit
<1>3. NoCrawl.step = "none"
  BY DEF NoCrawl
<1>4. NoCrawl \in Crawls
  <2> DEFINE none == <<>>
  <2>1. none \in Paths /\ none \in Seq(Examples) /\ none \in Seq(Paths)
    BY EmptySeq DEF Paths
  <2>2. NoCrawl = [step |-> "none", queue |-> none, visited |-> {}, fetches |-> 0, at |-> none,
                   remaining |-> {}, resolved |-> none, html |-> {}]
    BY DEF NoCrawl
  <2> HIDE DEF none
  <2>3. QED
    BY <2>1, <2>2 DEF Crawls
<1>5. QED
  BY <1>2, <1>3, <1>4 DEF CrawlInv

LEMMA CrawlSteps ==
    CrawlInv /\ [SiteCrawlNext]_siteCrawlVars => CrawlInv'
<1> USE DEF CrawlInv
<1>1. SUFFICES ASSUME CrawlInv, [SiteCrawlNext]_siteCrawlVars PROVE CrawlInv'
  OBVIOUS
<1>2. crawl \in Crawls /\ reports \in Nat
  BY <1>1
<1>3. ASSUME crawl.step \in {"crawling", "fetching"} PROVE CrawlIs(crawl)
  BY <1>1, <1>3
<1>4. CASE BeginCrawl
  <2> DEFINE queue == PreferredPaths \o StartingPaths
             none == <<>>
  <2>1. queue \in Seq(Paths) /\ StaticPaths \subseteq ToSet(queue)
    BY StartingQueue, SetOfBoth
  <2>2. none \in Paths /\ none \in Seq(Examples) /\ Len(none) = 0
    BY EmptySeq DEF Paths
  <2>3. crawl' = [step |-> "crawling", queue |-> queue, visited |-> {}, fetches |-> 0,
                  at |-> none, remaining |-> DynamicPages, resolved |-> none, html |-> {}]
    BY <1>4 DEF BeginCrawl, NoCrawl
  <2> HIDE DEF queue, none
  <2>4. crawl' \in Crawls /\ CrawlIs(crawl')
    BY <2>1, <2>2, <2>3, StartIs
  <2>5. crawl'.step = "crawling"
    BY <2>3
  <2>6. reports' \in Nat
    BY <1>2, <1>4 DEF BeginCrawl
  <2>7. QED
    BY <2>4, <2>5, <2>6
<1>5. CASE SkipPath
  <2> DEFINE path == Head(crawl.queue)
  <2>1. /\ crawl.step = "crawling" /\ crawl.queue # <<>> /\ CrawlIs(crawl)
        /\ path \in crawl.visited
           \/ (path \notin StaticPaths /\ Candidates(crawl.remaining, path) = {})
        /\ crawl' = [crawl EXCEPT !.queue = Tail(@), !.visited = @ \cup {path}]
        /\ reports' = reports
    BY <1>3, <1>5 DEF SkipPath, More, IsExpected
  <2> HIDE DEF path
  <2>2. path = Head(crawl.queue)
    BY DEF path
  <2>3. crawl' \in Crawls /\ CrawlIs(crawl')
    BY <1>2, <2>1, <2>2, SkipKeeps
  <2>4. crawl'.step = "crawling"
    BY <1>2, <2>1 DEF Crawls
  <2>5. QED
    BY <1>2, <2>1, <2>3, <2>4
<1>6. CASE FetchPath
  <2> DEFINE path == Head(crawl.queue)
  <2>1. /\ crawl.step = "crawling" /\ crawl.queue # <<>> /\ CrawlIs(crawl)
        /\ path \notin crawl.visited
        /\ path \in StaticPaths \/ Candidates(crawl.remaining, path) # {}
        /\ crawl' = [crawl EXCEPT !.step = "fetching", !.queue = Tail(@),
                                  !.visited = @ \cup {path}, !.fetches = @ + 1, !.at = path]
        /\ reports' = reports
    BY <1>3, <1>6 DEF FetchPath, More, IsExpected
  <2> HIDE DEF path
  <2>2. path = Head(crawl.queue)
    BY DEF path
  <2>3. crawl' \in Crawls /\ CrawlIs(crawl')
    BY <1>2, <2>1, <2>2, FetchKeeps
  <2>4. crawl'.step = "fetching"
    BY <1>2, <2>1 DEF Crawls
  <2>5. QED
    BY <1>2, <2>1, <2>3, <2>4
<1>7. CASE FetchFails
  <2>1. /\ crawl.step = "fetching" /\ CrawlIs(crawl)
        /\ crawl' = [crawl EXCEPT !.step = "failed"] /\ reports' = reports
    BY <1>3, <1>7 DEF FetchFails
  <2>2. crawl' \in Crawls /\ CrawlIs(crawl')
    BY <1>2, <2>1, FailureKeeps
  <2>3. crawl'.step = "failed"
    BY <1>2, <2>1 DEF Crawls
  <2>4. QED
    BY <1>2, <2>1, <2>2, <2>3
<1>8. CASE EndCrawl
  <2>1. /\ crawl.step = "crawling" /\ ~More /\ CrawlIs(crawl)
        /\ crawl' = [crawl EXCEPT !.step = "done"] /\ reports' = reports
    BY <1>3, <1>8 DEF EndCrawl
  <2>2. crawl' \in Crawls /\ CrawlIs(crawl')
    BY <1>2, <2>1, EndKeeps
  <2>3. crawl'.step = "done" /\ crawl'.queue = crawl.queue /\ crawl'.fetches = crawl.fetches
    BY <1>2, <2>1 DEF Crawls
  <2>4. ~More'
    BY <2>1, <2>3 DEF More
  <2>5. QED
    BY <1>2, <2>1, <2>2, <2>3, <2>4
<1>9. ASSUME NEW links \in LinkLists, NEW usable \in BOOLEAN, Arrives(links, usable)
      PROVE  CrawlInv'
  <2> DEFINE matched == Candidates(crawl.remaining, crawl.at)
             rejected == matched # {} /\ ~usable
             shape == IF crawl.at \in StaticPaths THEN crawl.at ELSE ShapeOf(FirstOf(matched))
             remaining == IF rejected \/ matched = {} THEN crawl.remaining
                          ELSE crawl.remaining \ {FirstOf(matched)}
             wanted == ToQueue(crawl.queue, crawl.visited, remaining, links)
             resolved == IF rejected THEN crawl.resolved
                         ELSE Append(crawl.resolved, [shape |-> shape, path |-> crawl.at])
             queue == crawl.queue \o ElementsAt(links, wanted)
             html == crawl.html \cup {[path |-> crawl.at, links |-> links, usable |-> usable]}
  <2>1. crawl.step = "fetching" /\ (matched = {} => usable) /\ reports' = reports
    BY <1>9 DEF Arrives
  <2>2. crawl' = [crawl EXCEPT !.step = "crawling", !.remaining = remaining,
                    !.resolved = resolved, !.queue = queue, !.html = html]
    BY <1>9 DEF Arrives
  <2>3. /\ rejected \in BOOLEAN /\ (rejected <=> matched # {} /\ ~usable)
        /\ matched = Candidates(crawl.remaining, crawl.at)
        /\ shape = IF crawl.at \in StaticPaths THEN crawl.at ELSE ShapeOf(FirstOf(matched))
        /\ remaining = IF rejected \/ matched = {} THEN crawl.remaining
                       ELSE crawl.remaining \ {FirstOf(matched)}
        /\ wanted = ToQueue(crawl.queue, crawl.visited, remaining, links)
        /\ resolved = IF rejected THEN crawl.resolved
                      ELSE Append(crawl.resolved, [shape |-> shape, path |-> crawl.at])
        /\ queue = crawl.queue \o ElementsAt(links, wanted)
        /\ html = crawl.html \cup {[path |-> crawl.at, links |-> links, usable |-> usable]}
    OBVIOUS
  <2> HIDE DEF matched, rejected, shape, remaining, wanted, resolved, queue, html
  <2>4. crawl' = [step |-> "crawling", queue |-> queue, visited |-> crawl.visited,
                  fetches |-> crawl.fetches, at |-> crawl.at, remaining |-> remaining,
                  resolved |-> resolved, html |-> html]
    BY <1>2, <2>2 DEF Crawls
  <2>5. /\ crawl'.step = "crawling" /\ crawl'.visited = crawl.visited
        /\ crawl'.fetches = crawl.fetches /\ crawl'.remaining = remaining
        /\ crawl'.resolved = resolved /\ crawl'.queue = queue /\ crawl'.html = html
    BY <2>4
  <2>6. CrawlIs(crawl)
    BY <1>3, <2>1
  <2>7. Arrival(crawl, crawl', links, usable, matched, rejected, shape, remaining)
    BY <2>1, <2>3, <2>5 DEF Arrival
  <2>8. /\ CrawlIs(crawl') /\ crawl'.queue \in Seq(Paths)
        /\ crawl'.remaining \in SUBSET DynamicPages
        /\ crawl'.resolved \in Seq(Examples) /\ crawl'.html \in SUBSET HtmlPages
    BY <1>2, <1>9, <2>1, <2>6, <2>7, ArrivalKeeps
  <2>9. crawl' \in Crawls
    <3>1. /\ queue \in Seq(Paths) /\ remaining \in SUBSET DynamicPages
          /\ resolved \in Seq(Examples) /\ html \in SUBSET HtmlPages
      BY <2>5, <2>8
    <3>2. crawl.visited \in SUBSET Paths /\ crawl.fetches \in Nat /\ crawl.at \in Paths
      BY <1>2 DEF Crawls
    <3>3. [step |-> "crawling", queue |-> queue, visited |-> crawl.visited,
           fetches |-> crawl.fetches, at |-> crawl.at, remaining |-> remaining,
           resolved |-> resolved, html |-> html] \in Crawls
      BY <3>1, <3>2 DEF Crawls
    <3>4. QED
      BY <2>4, <3>3
  <2>10. QED
    BY <1>2, <2>1, <2>5, <2>8, <2>9
<1>10. CASE UNCHANGED siteCrawlVars
  <2>1. crawl' = crawl /\ reports' = reports
    BY <1>10 DEF siteCrawlVars
  <2>2. More' <=> More
    BY <2>1 DEF More
  <2>3. QED
    BY <1>1, <2>1, <2>2
<1>11. QED
  BY <1>1, <1>4, <1>5, <1>6, <1>7, <1>8, <1>9, <1>10 DEF SiteCrawlNext

-----------------------------------------------------------------------------
(* What the invariant says of a report.                                    *)

LEMMA SectionsAre ==
    ASSUME CrawlInv, crawl.step # "none", NEW shape
    PROVE  /\ ~HasSection(crawl, shape) => Cardinality(Sections(shape)) = 0
           /\ HasSection(crawl, shape) => Cardinality(Sections(shape)) = 1
<1>1. \A i, j \in 1..Len(crawl.resolved) :
         crawl.resolved[i].shape = crawl.resolved[j].shape => i = j
  BY DEF CrawlInv, CrawlIs, CrawlResolved
<1>2. CASE ~HasSection(crawl, shape)
  <2>1. Sections(shape) = {}
    BY <1>2 DEF Sections, HasSection
  <2>2. QED
    BY <1>2, <2>1, FS_EmptySet
<1>3. CASE HasSection(crawl, shape)
  <2>1. PICK i \in 1..Len(crawl.resolved) : crawl.resolved[i].shape = shape
    BY <1>3 DEF HasSection
  <2>2. Sections(shape) = {i}
    BY <1>1, <2>1 DEF Sections
  <2>3. QED
    BY <1>3, <2>2, FS_Singleton
<1>4. QED
  BY <1>2, <1>3

\* A shape that is still looked for has no section.
LEMMA NoSectionYet ==
    ASSUME CrawlInv, crawl.step # "none", NEW place \in crawl.remaining
    PROVE  place \in DynamicPages /\ ~HasSection(crawl, ShapeOf(place))
<1>1. place \in DynamicPages
  BY DEF CrawlInv, Crawls
<1>2. SUFFICES ASSUME NEW i \in 1..Len(crawl.resolved), crawl.resolved[i].shape = ShapeOf(place)
               PROVE  FALSE
  BY <1>1 DEF HasSection
<1>3. IsExampleOf(crawl, ShapeOf(place), crawl.resolved[i].path)
  BY <1>2 DEF CrawlInv, CrawlIs, CrawlResolved
<1>4. ShapeOf(place) \notin StaticPaths
  BY <1>1, NotStatic
<1>5. PICK other \in DynamicPages \ crawl.remaining : ShapeOf(place) = ShapeOf(other)
  BY <1>3, <1>4 DEF IsExampleOf
<1>6. QED
  BY <1>1, <1>5, PagesAreLaidOut DEF DynamicPages

LEMMA ExamplesAre ==
    CrawlInv => ExamplesAreOfTheirShape
<1>1. SUFFICES ASSUME CrawlInv, NEW place \in DynamicPages, NEW i \in Sections(ShapeOf(place))
               PROVE  /\ IsExample(place, crawl.resolved[i].path)
                      /\ \E page \in crawl.html :
                            page.path = crawl.resolved[i].path /\ page.usable
  BY DEF ExamplesAreOfTheirShape
<1>2. i \in 1..Len(crawl.resolved) /\ crawl.resolved[i].shape = ShapeOf(place)
  BY <1>1 DEF Sections
<1>3. crawl.resolved \in Seq(Examples) /\ crawl.resolved[i].path \in Paths
  <2>1. crawl.resolved \in Seq(Examples)
    BY <1>1 DEF CrawlInv, Crawls
  <2>2. crawl.resolved[i] \in Examples
    BY <1>2, <2>1, ElementOfSeq
  <2>3. QED
    BY <2>1, <2>2 DEF Examples
<1>4. crawl.step # "none"
  <2>1. SUFFICES ASSUME crawl.step = "none" PROVE FALSE
    OBVIOUS
  <2>2. crawl.resolved = <<>>
    BY <1>1, <2>1 DEF CrawlInv, NoCrawl
  <2>3. Len(<<>>) = 0
    OBVIOUS
  <2>4. QED
    BY <1>2, <2>2, <2>3
<1>5. /\ IsUsable(crawl, crawl.resolved[i].path)
      /\ IsExampleOf(crawl, ShapeOf(place), crawl.resolved[i].path)
  BY <1>1, <1>2, <1>4 DEF CrawlInv, CrawlIs, CrawlResolved
<1>6. ShapeOf(place) \notin StaticPaths
  BY NotStatic
<1>7. PICK other \in DynamicPages : /\ ShapeOf(place) = ShapeOf(other)
                                    /\ MatchesPattern(other, crawl.resolved[i].path)
  BY <1>5, <1>6 DEF IsExampleOf
<1>8. place = other
  BY <1>7, PagesAreLaidOut DEF DynamicPages
<1>9. QED
  BY <1>3, <1>5, <1>7, <1>8, TakenIsExample DEF IsUsable

LEMMA ReportsAre ==
    CrawlInv => EveryShapeIsReported
<1>1. SUFFICES ASSUME CrawlInv, crawl.step = "done" PROVE EveryShapeIsReported
  BY DEF EveryShapeIsReported
<1>2. crawl.step # "none" /\ CrawlIs(crawl) /\ ~More
  BY <1>1 DEF CrawlInv
<1>3. ASSUME NEW place \in DynamicPages
      PROVE  Cardinality(Sections(ShapeOf(place))) = IF place \in crawl.remaining THEN 0 ELSE 1
  <2>1. CASE place \in crawl.remaining
    BY <1>1, <1>2, <2>1, NoSectionYet, SectionsAre
  <2>2. CASE place \notin crawl.remaining
    <3>1. HasSection(crawl, ShapeOf(place))
      BY <1>2, <2>2 DEF CrawlIs, CrawlResolved
    <3>2. QED
      BY <1>1, <1>2, <2>2, <3>1, SectionsAre
  <2>3. QED
    BY <2>1, <2>2
<1>4. ASSUME crawl.fetches < MaxFetches, NEW path \in StaticPaths
      PROVE  Cardinality(Sections(path)) = 1
  <2>1. crawl.queue = <<>>
    BY <1>2, <1>4 DEF More
  <2>2. ToSet(crawl.queue) = {}
    BY <2>1 DEF ToSet
  <2>3. path \in crawl.visited
    BY <1>2, <2>2 DEF CrawlIs, CrawlTries
  <2>4. HasSection(crawl, path)
    BY <1>1, <1>2, <2>3 DEF CrawlIs, CrawlTries, IsAwaited
  <2>5. QED
    BY <1>1, <1>2, <2>4, SectionsAre
<1>5. QED
  BY <1>1, <1>3, <1>4 DEF EveryShapeIsReported

LEMMA NonesAre ==
    CrawlInv => NoneMeansNone
<1>1. SUFFICES ASSUME CrawlInv, crawl.step = "done", crawl.fetches < MaxFetches,
                      NEW place \in crawl.remaining, NEW page \in crawl.html,
                      NEW href \in ToSet(page.links) \ Sentinels, IsExample(place, href)
               PROVE  \E tried \in crawl.html : tried.path = href /\ ~tried.usable
  BY DEF NoneMeansNone
<1>2. CrawlIs(crawl) /\ ~More /\ crawl \in Crawls
  BY <1>1 DEF CrawlInv
<1>3. place \in DynamicPages /\ page.links \in LinkLists
  BY <1>2 DEF Crawls, HtmlPages
<1>4. MatchesPattern(place, href)
  BY <1>1, <1>3, ExampleIsTaken
<1>5. ToSet(crawl.queue) = {}
  <2>1. crawl.queue = <<>>
    BY <1>1, <1>2 DEF More
  <2>2. QED
    BY <2>1 DEF ToSet
<1>6. href \in crawl.visited
  BY <1>1, <1>2, <1>4, <1>5 DEF CrawlIs, CrawlTries
<1>7. IsFetched(crawl, href)
  BY <1>1, <1>2, <1>4, <1>6 DEF CrawlIs, CrawlTries, IsAwaited
<1>8. QED
  BY <1>1, <1>2, <1>4, <1>7 DEF IsFetched, CrawlIs, CrawlFetched

\* There are no more shapes than there are pages.
LEMMA ShapesCount ==
    ASSUME NEW n \in Nat, NEW shapes,
           \A i \in 1..n : \E place \in PageShapes : ShapeOf(place) = shapes[i],
           \A i, j \in 1..n : shapes[i] = shapes[j] => i = j
    PROVE  /\ Cardinality(StaticPages) \in Nat /\ Cardinality(DynamicPages) \in Nat
           /\ n <= Cardinality(StaticPages) + Cardinality(DynamicPages)
<1> DEFINE page == [i \in 1..n |-> CHOOSE place \in PageShapes : ShapeOf(place) = shapes[i]]
<1>1. \A i \in 1..n : page[i] \in PageShapes /\ ShapeOf(page[i]) = shapes[i]
  OBVIOUS
<1>2. page \in [1..n -> PageShapes]
  BY <1>1
<1>3. \A i, j \in 1..n : page[i] = page[j] => i = j
  BY <1>1
<1> HIDE DEF page
<1>4. page \in Injection(1..n, PageShapes)
  BY <1>2, <1>3 DEF Injection, IsInjective
<1>5. IsFiniteSet(PageShapes)
  <2>1. PageShapes \in SUBSET Places
    BY DEF PageShapes
  <2>2. QED
    BY <2>1, SiteTypes, FS_Subset
<1>6. Cardinality(1..n) <= Cardinality(PageShapes)
  BY <1>4, <1>5, FS_Injection
<1>7. Cardinality(1..n) = n
  <2>1. n \in Int /\ 1 \in Int /\ (1 > n => n = 0) /\ n - 1 + 1 = n
    OBVIOUS
  <2>2. Cardinality(1..n) = IF 1 > n THEN 0 ELSE n - 1 + 1
    BY <2>1, FS_Interval
  <2>3. QED
    BY <2>1, <2>2
<1>8. /\ Cardinality(StaticPages) \in Nat /\ Cardinality(DynamicPages) \in Nat
      /\ Cardinality(PageShapes) = Cardinality(StaticPages) + Cardinality(DynamicPages)
  <2>1. /\ DynamicPages \in SUBSET PageShapes /\ StaticPages \in SUBSET PageShapes
        /\ PageShapes = StaticPages \cup DynamicPages /\ StaticPages \cap DynamicPages = {}
    BY DEF DynamicPages, StaticPages
  <2>2. IsFiniteSet(DynamicPages) /\ IsFiniteSet(StaticPages)
    BY <1>5, <2>1, FS_Subset
  <2>3. /\ Cardinality(StaticPages) \in Nat /\ Cardinality(DynamicPages) \in Nat
    BY <2>2, FS_CardinalityType
  <2>4. Cardinality(PageShapes) = Cardinality(StaticPages) + Cardinality(DynamicPages)
                                  - Cardinality(StaticPages \cap DynamicPages)
    BY <2>1, <2>2, FS_Union
  <2>5. Cardinality(StaticPages \cap DynamicPages) = 0
    BY <2>1, FS_EmptySet
  <2>6. QED
    BY <2>3, <2>4, <2>5
<1>9. QED
  BY <1>6, <1>7, <1>8

\* Every section is of the shape of a page, and what is awaited is of one that has none.
LEMMA BudgetIs ==
    CrawlInv => BudgetIsWellSpent
<1> DEFINE n == Len(crawl.resolved)
           wasted == Cardinality(Unusable(crawl))
           pages == Cardinality(StaticPages) + Cardinality(DynamicPages)
<1>1. SUFFICES ASSUME CrawlInv PROVE crawl.fetches <= pages + wasted
  BY DEF BudgetIsWellSpent, Unusable
<1>2. n \in Nat /\ IsFiniteSet(crawl.html)
  <2>1. n \in Nat
    <3>1. crawl.resolved \in Seq(Examples)
      BY <1>1 DEF CrawlInv, Crawls
    <3>2. QED
      BY <3>1, LenProperties
  <2>2. crawl.step = "none" => IsFiniteSet(crawl.html)
    BY <1>1, FS_EmptySet DEF CrawlInv, NoCrawl
  <2>3. crawl.step # "none" => IsFiniteSet(crawl.html)
    BY <1>1 DEF CrawlInv, CrawlIs, CrawlFetched
  <2>4. QED
    BY <2>1, <2>2, <2>3
<1>3. wasted \in Nat
  <2>1. Unusable(crawl) \in SUBSET crawl.html
    BY DEF Unusable
  <2>2. QED
    BY <1>2, <2>1, FS_Subset, FS_CardinalityType
<1>4. pages \in Nat
  <2>1. \A i \in 1..0 : FALSE
    OBVIOUS
  <2>2. Cardinality(StaticPages) \in Nat /\ Cardinality(DynamicPages) \in Nat
    BY <2>1, ShapesCount
  <2>3. QED
    BY <2>2
<1>5. CASE crawl.step = "none"
  <2>1. crawl.fetches = 0
    BY <1>1, <1>5 DEF CrawlInv, NoCrawl
  <2>2. QED
    BY <1>3, <1>4, <2>1
<1>6. CASE crawl.step # "none"
  <2>1. CrawlIs(crawl) /\ crawl \in Crawls
    BY <1>1, <1>6 DEF CrawlInv
  <2>2. ASSUME NEW i \in 1..n
        PROVE  \E place \in PageShapes : ShapeOf(place) = crawl.resolved[i].shape
    BY <2>1, <2>2 DEF CrawlIs, CrawlResolved, IsExampleOf, StaticPaths, StaticPages, DynamicPages
  <2>3. \A i, j \in 1..n : crawl.resolved[i].shape = crawl.resolved[j].shape => i = j
    BY <2>1 DEF CrawlIs, CrawlResolved
  <2>4. CASE crawl.step \notin {"fetching", "failed"}
    <3> DEFINE shapes == [i \in 1..n |-> crawl.resolved[i].shape]
    <3>1. /\ \A i \in 1..n : \E place \in PageShapes : ShapeOf(place) = shapes[i]
          /\ \A i, j \in 1..n : shapes[i] = shapes[j] => i = j
      BY <2>2, <2>3
    <3>2. n <= pages
      <4> HIDE DEF shapes, n
      <4>1. QED
        BY <1>2, <3>1, ShapesCount
    <3>3. crawl.fetches = n + wasted
      BY <1>2, <1>3, <2>1, <2>4 DEF CrawlIs, CrawlCounts
    <3>4. QED
      BY <1>2, <1>3, <1>4, <3>2, <3>3
  <2>5. CASE crawl.step \in {"fetching", "failed"}
    <3>1. PICK place \in PageShapes : ~HasSection(crawl, ShapeOf(place))
      <4>1. /\ crawl.at \in Paths /\ IsAwaited(crawl, crawl.at)
            /\ crawl.remaining \in SUBSET DynamicPages
        BY <2>1, <2>5 DEF Crawls, IsAwaited
      <4>2. /\ ~IsFetched(crawl, crawl.at)
            /\ crawl.at \in StaticPaths
               \/ \E place \in crawl.remaining : MatchesPattern(place, crawl.at)
        BY <2>1, <4>1 DEF CrawlIs, CrawlAwaits
      <4>3. CASE crawl.at \in StaticPaths
        <5>1. PICK place \in StaticPages : crawl.at = ShapeOf(place)
          BY <4>3 DEF StaticPaths
        <5>2. ~HasSection(crawl, crawl.at)
          <6>1. SUFFICES ASSUME NEW i \in 1..n, crawl.resolved[i].shape = crawl.at PROVE FALSE
            BY DEF HasSection
          <6>2. /\ IsUsable(crawl, crawl.resolved[i].path)
                /\ IsExampleOf(crawl, crawl.at, crawl.resolved[i].path)
            BY <2>1, <6>1 DEF CrawlIs, CrawlResolved
          <6>3. crawl.resolved[i].path # crawl.at
            BY <4>2, <6>2 DEF IsUsable, IsFetched
          <6>4. QED
            BY <4>3, <6>2, <6>3, NotStatic DEF IsExampleOf
        <5>3. QED
          BY <5>1, <5>2 DEF StaticPages
      <4>4. CASE crawl.at \notin StaticPaths
        BY <1>1, <1>6, <4>1, <4>2, <4>4, NoSectionYet DEF DynamicPages
      <4>5. QED
        BY <4>3, <4>4
    <3>2. \A i \in 1..n : crawl.resolved[i].shape # ShapeOf(place)
      BY <3>1 DEF HasSection
    <3> DEFINE m == n + 1
               shapes == [i \in 1..m |-> IF i \in 1..n THEN crawl.resolved[i].shape
                                         ELSE ShapeOf(place)]
    <3> HIDE DEF n
    <3>3. m \in Nat /\ \A i \in 1..m : i \in 1..n \/ (i = m /\ i \notin 1..n)
      BY <1>2
    <3> HIDE DEF m
    <3>4. \A i \in 1..m : \E other \in PageShapes : ShapeOf(other) = shapes[i]
      BY <2>2, <3>1, <3>3
    <3>5. \A i, j \in 1..m : shapes[i] = shapes[j] => i = j
      BY <2>3, <3>2, <3>3
    <3>6. m <= pages
      <4> HIDE DEF shapes
      <4>1. QED
        BY <3>3, <3>4, <3>5, ShapesCount
    <3>7. crawl.fetches = n + wasted + 1
      BY <1>2, <1>3, <2>1, <2>5 DEF CrawlIs, CrawlCounts, n
    <3>8. QED
      BY <1>2, <1>3, <1>4, <3>6, <3>7 DEF m
  <2>6. QED
    BY <2>4, <2>5
<1>7. QED
  BY <1>5, <1>6

\* The report of the inspector is sound, whatever the pages link to and in whatever order
\* the fetches end: every example is a usable page of its own shape, no shape is lost, none
\* is given up while a link to it is left, and no fetch is spent on what is not looked for.
THEOREM InspectionHonest ==
    CrawlSpec => []InspectionIsSound
<1>1. CrawlInv => InspectionIsSound
  BY ExamplesAre, ReportsAre, NonesAre, BudgetIs DEF InspectionIsSound
<1>2. QED
  BY <1>1, CrawlStarts, CrawlSteps, PTL DEF CrawlSpec

=============================================================================
