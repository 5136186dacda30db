---------------------------- MODULE QuotaProbe ----------------------------
(***************************************************************************)
(* scripts/dev/quota.ts: sends requests to the API to see its limits at    *)
(* work.  By default it sends a number of them; with --drain it spends what *)
(* is left of the hour, one request more, and waits out every refusal it    *)
(* takes for one of the burst limit.                                        *)
(*                                                                          *)
(* The other side is apps/api/src/rate_limit.rs, for one caller alone: the  *)
(* hourly window first, the window of a second next, only with a key.  The  *)
(* module RateLimiter has all of it; here it is what the probe is judged by.*)
(***************************************************************************)
EXTENDS Integers

CONSTANTS
    Window,             \* seconds in the hour
    Requests, Burst,    \* the two ceilings of the caller's plan
    Callers,            \* who asks: "anonymous", "key" or "unlimited"
    Count,              \* how many requests without --drain
    DrainCeiling,       \* DRAIN_CEILING
    DrainRetries,       \* DRAIN_RETRIES
    BurstRetrySeconds,  \* BURST_RETRY_SECONDS
    MaxNow              \* bound on the clock

(* A plan of this probe lets a request through now and then: the seeded ones  *)
(* have a burst of ten and more, though the schema allows zero; it asks again *)
(* at least once, and takes the one second of a burst refusal for short.      *)
ASSUME QuotaConstants ==
    /\ Window \in Nat \ {0} /\ Requests \in Nat /\ Burst \in Nat \ {0}
    /\ Callers \subseteq {"anonymous", "key", "unlimited"}
    /\ Count \in Nat /\ DrainCeiling \in Nat /\ MaxNow \in Nat
    /\ DrainRetries \in Nat \ {0} /\ BurstRetrySeconds \in Nat \ {0}

VARIABLES quota,    \* the probe
          limiter,  \* the caller's windows in the API
          now       \* seconds

quotaVars == <<quota, limiter, now>>

QuotaInit ==
    /\ \E caller \in Callers, drain \in BOOLEAN, start \in 0..(Window - 1), spent \in 0..Requests :
          /\ quota = [caller |-> caller, drain |-> drain, phase |-> "first", planned |-> 0,
                      tries |-> 0, wake |-> start, sawHourly |-> FALSE, sawBurst |-> FALSE,
                      code |-> -1, from |-> start, late |-> FALSE]
          /\ limiter = [used |-> spent, burst |-> 0, hour |-> Window, second |-> 0, refused |-> {}]
          /\ now = start

(***************************************************************************)
(* The API                                                                 *)
(***************************************************************************)

HourEnd == (now \div Window + 1) * Window
Used == IF limiter.hour = HourEnd THEN limiter.used ELSE 0
InSecond == IF limiter.second = now + 1 THEN limiter.burst ELSE 0

(* check_all: the first limit that refuses sets retry-after, and a request  *)
(* that is refused by any spends none.  Without headers: the site's own key.*)
HourlyRefuses == quota.caller # "unlimited" /\ Used >= Requests
BurstRefuses == quota.caller = "key" /\ InSecond >= Burst
Allowed == ~HourlyRefuses /\ ~BurstRefuses
Answered ==
    [status     |-> IF Allowed THEN 200 ELSE 429,
     headers    |-> quota.caller # "unlimited",
     remaining  |-> IF Allowed THEN Requests - Used - 1 ELSE Requests - Used,
     retryAfter |-> IF Allowed THEN 0 ELSE IF HourlyRefuses THEN HourEnd - now ELSE 1,
     by         |-> IF Allowed THEN "nobody" ELSE IF HourlyRefuses THEN "hour" ELSE "burst"]
Hit ==
    limiter' = [used |-> IF Allowed THEN Used + 1 ELSE Used, hour |-> HourEnd,
                burst |-> IF Allowed THEN InSecond + 1 ELSE InSecond, second |-> now + 1,
                refused |-> IF Allowed THEN limiter.refused
                            ELSE limiter.refused \cup {Answered.by}]

(***************************************************************************)
(* The probe                                                               *)
(***************************************************************************)

(* A refusal with a short wait is taken for one of the burst limit.         *)
isBurst(answer) == answer.status = 429 /\ answer.retryAfter <= BurstRetrySeconds
Hourly(answer) == answer.status = 429 /\ ~isBurst(answer)

(* A drain sends what is left and one more.                                 *)
(* (NotOneMore is the mutant that forgets the one.)                         *)
NotOneMore(answer) == answer.remaining
Drained(answer) == answer.remaining + 1
Planned(answer) == IF quota.drain THEN Drained(answer) ELSE Count

(* `late` remembers that an hourly refusal came so close to the end of its  *)
(* hour that it looks like the other kind.                                  *)
Saw(answer, run) ==
    [run EXCEPT !.sawHourly = @ \/ Hourly(answer), !.sawBurst = @ \/ isBurst(answer),
                !.late = @ \/ (answer.by = "hour" /\ isBurst(answer))]

Awake == now >= quota.wake
First ==
    /\ quota.phase = "first"
    /\ Hit
    /\ \E answer \in {Answered} :
          quota' = IF ~answer.headers THEN [quota EXCEPT !.phase = "left", !.code = 1]
                   ELSE IF quota.drain /\ answer.remaining > DrainCeiling
                   THEN [quota EXCEPT !.phase = "left", !.code = 1]
                   ELSE [Saw(answer, quota) EXCEPT !.phase = "probing", !.planned = Planned(answer)]
    /\ UNCHANGED now

(* drainHit asks again while its retries last, after the wait it was told.  *)
WaitsAndAsksAgain(answer) == quota.drain /\ isBurst(answer) /\ quota.tries < DrainRetries
Probe ==
    /\ quota.phase = "probing" /\ quota.planned > 0 /\ Awake
    /\ Hit
    /\ \E answer \in {Answered} :
          quota' = IF WaitsAndAsksAgain(answer)
                   THEN [quota EXCEPT !.tries = @ + 1, !.wake = now + answer.retryAfter,
                                      !.late = @ \/ answer.by = "hour"]
                   ELSE [Saw(answer, quota) EXCEPT !.planned = @ - 1, !.tries = 0]
    /\ UNCHANGED now

(* The summary; without any refusal one more request is sent for it.        *)
Conclude ==
    /\ quota.phase = "probing" /\ quota.planned = 0
    /\ IF quota.sawHourly \/ quota.sawBurst THEN UNCHANGED limiter ELSE Hit
    /\ quota' = [quota EXCEPT !.phase = "left", !.code = 0]
    /\ UNCHANGED now

(* No answer: nothing catches it, and the command ends. *)
Unreachable ==
    /\ quota.phase \in {"first", "probing"} /\ Awake
    /\ quota' = [quota EXCEPT !.phase = "left", !.code = 1]
    /\ UNCHANGED <<limiter, now>>

Tick ==
    /\ now < MaxNow /\ quota.phase # "left"
    /\ now' = now + 1
    /\ UNCHANGED <<quota, limiter>>

QuotaNext == First \/ Probe \/ Conclude \/ Unreachable \/ Tick

QuotaSpec == QuotaInit /\ [][QuotaNext]_quotaVars

(***************************************************************************)
(* What its verdict is worth                                               *)
(***************************************************************************)

(* "the hourly quota is enforced" is only said of a refusal of the hour: a  *)
(* burst refusal always comes with the shortest wait.                       *)
HourlyMeansHourly == quota.sawHourly => "hour" \in limiter.refused

(* A drain within one hour ends on a refusal of that hour, whatever the     *)
(* burst limit did in between, unless that refusal came in the last seconds *)
(* of the hour, where isBurst takes it for the other kind.                  *)
DrainReachesTheLimit ==
    quota.phase = "left" /\ quota.code = 0 /\ quota.drain /\ ~quota.late
        /\ now \div Window = quota.from \div Window => quota.sawHourly

(* Both: a hit of the hourly limit is one, and a drain that succeeds has   *)
(* reached it.                                                             *)
VerdictIsEarned == HourlyMeansHourly /\ DrainReachesTheLimit
=============================================================================
