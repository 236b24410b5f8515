------------------------------ MODULE NasTimer ------------------------------
(***************************************************************************)
(* A retransmission timer of an AmfUe (T3550, T3560, T3513): the pointer   *)
(* in the AmfUe, its counter, and the time.AfterFunc objects it has        *)
(* pointed to.  A timer expires on its own and its callback runs in        *)
(* another goroutine later; StopT35xx (src/amf/util/timer.go) stops        *)
(* neither a callback that has begun nor a timer that the AmfUe no longer  *)
(* points to, and every callback, whichever timer it belongs to, counts in *)
(* the AmfUe and resets the timer that the AmfUe points to then.           *)
(***************************************************************************)
EXTENDS Naturals

CONSTANTS
    MaxStray,   \* bound on the armed timers that the AmfUe has lost
    MaxRunning  \* bound on the callbacks that have begun

ASSUME TimersAssumption == MaxStray \in Nat /\ MaxRunning \in Nat \ {0}

TimerType == [
    ptr     : BOOLEAN,          \* ue.T35xx is not nil
    armed   : BOOLEAN,          \* the timer it points to will expire
    stray   : 0..MaxStray,      \* armed timers that ue.T35xx does not point to
    running : 0..MaxRunning,    \* expired, the callback has yet to run
    retry   : Nat,              \* ue.T35xxRetryTimes
    lost    : BOOLEAN]          \* history: when ue.T35xx was last set, an earlier
                                \* timer was live or a callback had begun

NoTimer ==
    [ptr |-> FALSE, armed |-> FALSE, stray |-> 0, running |-> 0, retry |-> 0, lost |-> FALSE]

Live(x) == x.armed \/ x.stray + x.running > 0

\* ue.T35xxRetryTimes = 0; ue.T35xx = time.AfterFunc(...).
Started(x) ==
    [x EXCEPT !.ptr = TRUE, !.armed = TRUE, !.retry = 0, !.lost = Live(x),
              !.stray = IF x.armed THEN @ + 1 ELSE @]

\* Mutant: the pointer is cleared and the timer goes on.
ForgetStopped(x) ==
    [x EXCEPT !.ptr = FALSE, !.armed = FALSE, !.retry = 0, !.stray = IF x.armed THEN @ + 1 ELSE @]

\* StopT35xx.
Stopped(x) ==
    [x EXCEPT !.ptr = FALSE, !.armed = FALSE, !.retry = 0, !.lost = x.stray + x.running > 0]

\* The timer of the AmfUe expires, or one that it has lost.
OwnExpired(x)   == [x EXCEPT !.armed = FALSE, !.running = @ + 1]
StrayExpired(x) == [x EXCEPT !.stray = @ - 1, !.running = @ + 1]

\* Mutant: the expiry is not counted.
UncountedCounted(x) == [x EXCEPT !.running = @ - 1]

\* A callback has counted its expiry.
Counted(x) == [x EXCEPT !.running = @ - 1, !.retry = @ + 1]

\* ue.T35xx.Reset.
Reset(x) == [x EXCEPT !.armed = TRUE]
=============================================================================
