------------------------------ MODULE Rollout ------------------------------
(***************************************************************************)
(* scripts/deploy/vps.sh: a deploy builds the images of a commit and rolls *)
(* the services one after the other: twice the containers, a wait until    *)
(* all of them are healthy, then the old ones are stopped.  It may stop    *)
(* anywhere (set -e, a deadline, a lost connection), and the next deploy   *)
(* begins with whatever containers it finds.                               *)
(*                                                                         *)
(* A container that was healthy stays healthy until it is stopped: what    *)
(* breaks by itself is not the script's to prevent.                        *)
(***************************************************************************)
EXTENDS Integers, FiniteSets, Sequences

CONSTANTS
    RollOrder,      \* sequence: the services that are rolled, in order
    MaxDeploys,    \* bound on the deploys
    MaxContainers  \* bound on the containers ever started

VARIABLES container,  \* the containers that run: id -> [service, version, health]
          deploy,     \* the deploy under way
          version     \* the commit of the last deploy that was begun

rolloutVars == <<container, deploy, version>>

Rolled == {RollOrder[i] : i \in 1..Len(RollOrder)}
Ids == 1..MaxContainers
NoContainer == [service |-> "none", version |-> 0, health |-> "none"]
AtRest == [step |-> "rest", at |-> 0, old |-> {}, target |-> 0, found |-> [s \in Rolled |-> 0]]

RolloutInit ==
    /\ container = [i \in Ids |-> IF i <= Len(RollOrder)
                        THEN [service |-> RollOrder[i], version |-> 0, health |-> "healthy"]
                        ELSE NoContainer]
    /\ deploy = AtRest
    /\ version = 0

(* docker compose ps -q *)
Ps(s) == {i \in Ids : container[i].service = s}
Healthy(s) == {i \in Ps(s) : container[i].health = "healthy"}
Free == {i \in Ids : \A s \in Rolled : container[i].service # s}
Service == RollOrder[deploy.at]

(* git reset, the secrets and the build: a deploy that fails here has       *)
(* changed no container.                                                    *)
Deploy ==
    /\ deploy.step \in {"rest", "done"} /\ version < MaxDeploys
    /\ version' = version + 1
    /\ deploy' = [AtRest EXCEPT !.step = "next", !.found = [s \in Rolled |-> Cardinality(Ps(s))]]
    /\ UNCHANGED container

Target(n) == 2 * n

(* rollout: nothing running is an error; otherwise the containers are       *)
(* scaled to the double, the new ones from the images just built.           *)
Scale ==
    /\ deploy.step = "next" /\ deploy.at < Len(RollOrder)
    /\ LET s == RollOrder[deploy.at + 1]
           n == Cardinality(Ps(s))
       IN  /\ n >= 1
           /\ \E new \in SUBSET Free :
                 /\ Cardinality(new) = Target(n) - n
                 /\ \A i \in new, j \in Free \ new : i < j
                 /\ container' = [i \in Ids |-> IF i \in new
                        THEN [service |-> s, version |-> version, health |-> "starting"]
                        ELSE container[i]]
           /\ deploy' = [deploy EXCEPT !.step = "waiting", !.at = @ + 1, !.old = Ps(s),
                                       !.target = Target(n)]
    /\ UNCHANGED version

HealthCheck(i) ==
    /\ container[i].health \in {"starting", "unhealthy"}
    /\ \E health \in {"healthy", "unhealthy"} \ {container[i].health} :
          container' = [container EXCEPT ![i].health = health]
    /\ UNCHANGED <<deploy, version>>

AllUp(s, target) == Cardinality(Ps(s)) >= target /\ Healthy(s) = Ps(s)
AllHealthy ==
    /\ deploy.step = "waiting" /\ AllUp(Service, deploy.target)
    /\ deploy' = [deploy EXCEPT !.step = "settling"]
    /\ UNCHANGED <<container, version>>

(* docker stop $old && docker rm $old: one container after the other, in    *)
(* any order, and the rollout of the service is over when all are stopped.  *)
(* (Mutant: Relisted lists the containers again when it comes to it.)       *)
Relisted(old) == Ps(Service)
AsFound(old) == old
Drain(i) ==
    /\ deploy.step = "settling"
    /\ i \in AsFound(deploy.old) /\ container[i] # NoContainer
    /\ container' = [container EXCEPT ![i] = NoContainer]
    /\ UNCHANGED <<deploy, version>>
AllDrained ==
    /\ deploy.step = "settling"
    /\ \A i \in AsFound(deploy.old) : container[i] = NoContainer
    /\ deploy' = [deploy EXCEPT !.step = "next", !.old = {}]
    /\ UNCHANGED <<container, version>>

(* The smoke test through the edge passed. *)
Deployed ==
    /\ deploy.step = "next" /\ deploy.at = Len(RollOrder)
    /\ deploy' = [deploy EXCEPT !.step = "done"]
    /\ UNCHANGED <<container, version>>

(* The deploy stops: an error, the deadline, or nobody is left to run it.   *)
Deadline ==
    /\ deploy.step = "waiting" /\ ~AllUp(Service, deploy.target)
    /\ deploy' = AtRest
    /\ UNCHANGED <<container, version>>
Interrupted ==
    /\ deploy.step \in {"next", "waiting", "settling"}
    /\ deploy' = AtRest
    /\ UNCHANGED <<container, version>>

RolloutNext ==
    \/ Deploy \/ Scale \/ AllHealthy \/ AllDrained \/ Deployed \/ Deadline \/ Interrupted
    \/ \E i \in Ids : HealthCheck(i) \/ Drain(i)

RolloutSpec == RolloutInit /\ [][RolloutNext]_rolloutVars

(***************************************************************************)
(* What a deploy owes the site                                             *)
(***************************************************************************)

(* "zero-downtime": every service has a healthy container at every moment,  *)
(* however the deploys before ended.                                        *)
SomeoneServes == \A s \in Rolled : Healthy(s) # {}

(* A deploy that says it is done leaves its own version alone, also when    *)
(* one before it stopped half way and left a mixture.                       *)
DoneMeansDeployed ==
    deploy.step = "done" => \A s \in Rolled : \A i \in Ps(s) : container[i].version = version

(* It leaves as many containers as it found: the double that a deploy left  *)
(* which stopped half way is kept for good, and not doubled once more.      *)
ReplicasAreKept ==
    deploy.step = "done" => \A s \in Rolled : Cardinality(Ps(s)) = deploy.found[s]

(* All three: the site is up throughout a rollout, a rollout that ends well*)
(* has replaced every container, and it leaves as many as it found.        *)
RolloutIsSafe == SomeoneServes /\ DoneMeansDeployed /\ ReplicasAreKept
=============================================================================
