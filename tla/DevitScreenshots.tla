---------------------------- MODULE DevitScreenshots ----------------------------
(***************************************************************************)
(* The screenshot limiter of the daemon (devitd/src/main.rs,               *)
(* ScreenshotControl): a queue of the instants of the accepted jobs, from  *)
(* which those older than the window are popped at each request. Requests  *)
(* come one at a time, under the state lock; the job itself runs outside   *)
(* it, and what becomes of it changes nothing here.                        *)
(***************************************************************************)
EXTENDS Naturals, Sequences

CONSTANTS Rates,        \* pairs [max_actions, per_seconds] of the configuration
          MaxInstant    \* bound: the clock, in units finer than the window, and the jobs

ASSUME ScreenshotAssumption ==
    Rates \subseteq [max_actions : Nat, per_seconds : Nat] /\ MaxInstant \in Nat

VARIABLES rate_limit,
          capable,      \* enabled, with an output directory inside the sandbox
          history,
          instant,
          accepted      \* history: the instants of all accepted jobs

shotVars == <<rate_limit, capable, history, instant, accepted>>

ShotInit ==
    /\ rate_limit \in Rates /\ capable \in BOOLEAN
    /\ history = <<>> /\ instant = 0 /\ accepted = <<>>

Unlimited == rate_limit.max_actions = 0 \/ rate_limit.per_seconds = 0
Old(t)    == instant - t > rate_limit.per_seconds

\* A slip: what is just as old as the window is popped.
PopEarly(h) ==
    IF Unlimited THEN {Len(h)}
    ELSE {n \in 0..Len(h) : /\ \A i \in 1..n : instant - h[i] >= rate_limit.per_seconds
                            /\ n < Len(h) => instant - h[n + 1] < rate_limit.per_seconds}

\* prune: how many are popped, one by one as long as the front is old.
Popped(h) ==
    IF Unlimited THEN {Len(h)}
    ELSE {n \in 0..Len(h) : (\A i \in 1..n : Old(h[i])) /\ (n < Len(h) => ~ Old(h[n + 1]))}

\* prepare_job. The directory may not be made, and then nothing is counted.
PrepareJob ==
    /\ capable /\ Len(accepted) <= MaxInstant
    /\ \E n \in Popped(history) :
          LET rest == SubSeq(history, n + 1, Len(history))
          IN  \/ /\ rate_limit.max_actions = 0 \/ Len(rest) < rate_limit.max_actions
                 /\ history' = Append(rest, instant)
                 /\ accepted' = Append(accepted, instant)
              \/ history' = rest /\ UNCHANGED accepted
    /\ UNCHANGED <<rate_limit, capable, instant>>

Tick ==
    /\ instant < MaxInstant /\ instant' = instant + 1
    /\ UNCHANGED <<rate_limit, capable, history, accepted>>

ShotNext == PrepareJob \/ Tick

ShotSpec == ShotInit /\ [][ShotNext]_shotVars

-----------------------------------------------------------------------------
(* Properties.                                                             *)

\* Of max_actions + 1 accepted jobs in a row, the last is later than the first
\* by more than the window, when the configuration sets both numbers
\* (main.rs:307): popping and counting by the queue's length misses nobody.
RateBound ==
    ~ Unlimited
    => \A i \in 1..Len(accepted) :
          i + rate_limit.max_actions <= Len(accepted)
          => accepted[i + rate_limit.max_actions] - accepted[i] > rate_limit.per_seconds
=============================================================================
