----------------------------- MODULE RandomPoem ----------------------------
(***************************************************************************)
(* A random poem, from the button of the footer or from /poems/random      *)
(* (apps/web/src/lib/api/random-poem.ts and its two callers): up to three  *)
(* attempts, each with a timeout of its own, with pauses between them, all *)
(* within one budget of time.                                              *)
(*                                                                         *)
(* `clock` counts the time since the first attempt; no timer is passed by  *)
(* more than it.  A pause is shorter than a tick: it ends when it will.    *)
(***************************************************************************)
EXTENDS Integers

CONSTANTS Attempts, AttemptTimeout, Budget,
          MaxClicks   \* bound on the runs

ASSUME RandomPoemConstants ==
    /\ Attempts \in Nat \ {0} /\ AttemptTimeout \in Nat \ {0} /\ Budget \in Nat \ {0}
    /\ MaxClicks \in Nat

VARIABLES button,  \* "idle", "loading", "error", "left": to the poem; "stalled": loading
                   \* for the code, but its run was rejected
          run,     \* the run in progress
          clicks
randomPoemVars == <<button, run, clicks>>

NoRun == [step |-> "none", by |-> "button", attempt |-> 0, clock |-> 0, since |-> 0, sent |-> 0]
Callers == {"button", "route"}
Active == run.step \in {"asking", "reading", "pausing"}

RandomPoemInit == button = "idle" /\ run = NoRun /\ clicks = 0

(* deadline.aborted, and the signal of an attempt.                          *)
DeadlineAborted(r) == r.clock = Budget
AttemptAborted(r) == DeadlineAborted(r) \/ r.clock - r.since = AttemptTimeout

Attempt(r) == [r EXCEPT !.step = "asking", !.attempt = @ + 1, !.since = r.clock, !.sent = r.clock]

(* handleClick and GET: a click while one is loading does nothing.  One run *)
(* at a time: a second one beside it shares nothing with it but the button. *)
Begin(by) ==
    /\ ~Active /\ clicks < MaxClicks /\ clicks' = clicks + 1
    /\ by = "button" => button \in {"idle", "error"}
    /\ button' = IF by = "button" THEN "loading" ELSE button
    /\ run' = Attempt([NoRun EXCEPT !.by = by])

(* The run is over, and its caller goes on: to the poem, to the message     *)
(* under the button, to /500.                                               *)
Return(r, outcome) ==
    /\ run' = [r EXCEPT !.step = outcome]
    /\ button' = IF r.by = "route" THEN button
                 ELSE IF outcome = "poem" THEN "left" ELSE "error"
    /\ UNCHANGED clicks

(* An attempt failed: another one after a pause, while there may be one.    *)
Failed(r) ==
    IF r.attempt < Attempts /\ ~DeadlineAborted(r)
    THEN run' = [r EXCEPT !.step = "pausing"] /\ UNCHANGED <<button, clicks>>
    ELSE Return(r, "error")

(* The head of an answer, or none: the network failed, or the signal fired. *)
(* A status that is not 2xx is an error; the body of the others is read.    *)
Responds(status) ==
    /\ run.step = "asking"
    /\ IF status = "2xx" THEN run' = [run EXCEPT !.step = "reading"] /\ UNCHANGED <<button, clicks>>
       ELSE Failed(run)
AskingAborted == run.step = "asking" /\ AttemptAborted(run) /\ Failed(run)

(* The body is a slug, blank or something else.                             *)
Body(text) ==
    /\ run.step = "reading"
    /\ IF text = "slug" THEN Return(run, "poem") ELSE Failed(run)

(* Reading the body fails, or the signal fires meanwhile: nothing catches   *)
(* that, and the run is rejected.  The button stays as it is; the visitor of*)
(* the route gets the server's error page.                                  *)
BodyBreaks ==
    /\ run.step = "reading"
    /\ run' = [run EXCEPT !.step = "thrown"]
    /\ button' = IF run.by = "button" /\ button = "loading" THEN "stalled" ELSE button
    /\ UNCHANGED clicks

(* MUTANT: the deadline is not looked at again after the pause.             *)
AlwaysAgain(r) == TRUE
MayAskAgain(r) == ~DeadlineAborted(r)
PauseEnds ==
    /\ run.step = "pausing"
    /\ IF MayAskAgain(run) THEN run' = Attempt(run) /\ UNCHANGED <<button, clicks>>
       ELSE Return(run, "error")

(* Time passes up to the next timer. *)
Tick ==
    /\ Active /\ ~DeadlineAborted(run)
    /\ run.step = "pausing" \/ run.clock - run.since < AttemptTimeout
    /\ run' = [run EXCEPT !.clock = @ + 1]
    /\ UNCHANGED <<button, clicks>>

(* The user comes back to the page from the browser's cache: the button is  *)
(* idle, whatever its run does.                                             *)
PageShow == button # "idle" /\ button' = "idle" /\ UNCHANGED <<run, clicks>>

Timers ==
    \/ AskingAborted \/ PauseEnds
    \/ run.step = "reading" /\ AttemptAborted(run) /\ BodyBreaks

RandomPoemNext ==
    \/ \E by \in Callers : Begin(by)
    \/ \E status \in {"2xx", "429", "5xx", "lost"} : Responds(status)
    \/ \E text \in {"slug", "blank", "other"} : Body(text)
    \/ BodyBreaks \/ Timers \/ Tick \/ PageShow

RandomPoemSpec == RandomPoemInit /\ [][RandomPoemNext]_randomPoemVars

-----------------------------------------------------------------------------
(* No request is sent once the budget is used up, and none beyond the       *)
(* attempts there are, though the deadline can pass at any point of an      *)
(* attempt or of a pause.                                                   *)
AsksWithinBudget == run.step # "none" => run.sent < Budget /\ run.attempt \in 1..Attempts
=============================================================================
