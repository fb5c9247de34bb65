---------------------------- MODULE ConsoleState ----------------------------
(***************************************************************************)
(* The part of class Console (JavaScriptgui_impl.h) that decides when a    *)
(* script is running, waiting or finished, and the methods that change it  *)
(* without running JavaScript.  Each method is an operator from the state  *)
(* of a console to its state on return; the modules that EXTEND this one   *)
(* say when the methods are called.                                        *)
(***************************************************************************)
EXTENDS Integers, FiniteSets

CONSTANTS
    Heaps,         \* addresses Duktape heaps are created at
    NoHeap,        \* the nullptr of mpCtx and of m_exitHandler
    Ids,           \* ids of callback entries
    NoId,
    MaxCallbacks   \* newCallbackEntry refuses to hold more (500 in the code)

ASSUME NoHeapAssumption == NoHeap \notin Heaps
ASSUME NoIdAssumption == NoId \notin Ids
ASSUME MaxCallbacksAssumption == MaxCallbacks \in Nat

\* A timer; a subscription to NMEA sentences, whose handler first asks
\* isWaiting(); one to plugin messages, which neither asks nor, when it is
\* made, drops the cached answer; a dialogue; the reply of another console.
CallbackTypes ==
    {"CB_TIMER", "CB_NMEA0183", "CB_MESSAGE", "CB_DIALOGUE", "CB_CONSOLE"}

Completions == {"HAD_ERROR", "TIMEOUT", "DONE", "INEXIT", "STOPPED",
                "MORETODO", "TOCHAIN", "CLOSED", "CLOSING"}

Entry == [id : Ids, type : CallbackTypes, persistant : BOOLEAN, heap : Heaps]

\* mpMessageDialog is the position on the C++ stack of the call that opened
\* the box, 0 for nullptr; m_exitHandler is the heap its function lives in;
\* timed: pConsoleBeingTimed is this console and m_pcall_endtime is set;
\* pending: the calls of doRunCommand() that CallAfter() has queued for it.
Console == [ctx           : Heaps \cup {NoHeap},
            runningMain   : BOOLEAN,
            waiting       : BOOLEAN,
            waitingCached : BOOLEAN,
            status        : SUBSET Completions,
            callbacks     : SUBSET Entry,
            modalCount    : Int,
            alert         : BOOLEAN,
            dialog        : Nat,
            exitHandler   : Heaps \cup {NoHeap},
            label         : {"Run", "Stop"},
            timed         : BOOLEAN,
            pending       : Nat]

\* A console after setup(), which ends in consoleReset().
NewConsole ==
    [ctx |-> NoHeap, runningMain |-> FALSE, waiting |-> FALSE,
     waitingCached |-> FALSE, status |-> {}, callbacks |-> {},
     modalCount |-> 0, alert |-> FALSE, dialog |-> 0,
     exitHandler |-> NoHeap, label |-> "Run", timed |-> FALSE, pending |-> 0]

-----------------------------------------------------------------------------
(* Waiting *)

\* What isWaiting() finds when it makes the full check.
SomethingAwaited(c) == c.callbacks # {} \/ c.dialog # 0 \/ c.alert

IsWaiting(c) == IF c.waitingCached THEN c.waiting ELSE SomethingAwaited(c)

\* isWaiting() leaves its result in the cache.
Asked(c) == [c EXCEPT !.waiting = IsWaiting(c), !.waitingCached = TRUE]

\* Mutant: a script whose main is running is not busy.
IsBusyIgnoringMain(c) == IsWaiting(c)

IsBusy(c) == c.runningMain \/ IsWaiting(c)

\* isBusy() asks isWaiting() only when main is not running.
AskedBusy(c) == IF c.runningMain THEN c ELSE Asked(c)

-----------------------------------------------------------------------------
(* Callback entries and the alert *)

\* onMessageName() and onConsoleResult() leave the cached answer alone.
AddEntry(c, e) ==
    [c EXCEPT !.callbacks = @ \cup {e},
              !.waitingCached = @ /\ e.type \in {"CB_MESSAGE", "CB_CONSOLE"}]

RemoveEntries(c, S) == [c EXCEPT !.callbacks = @ \ S]

\* getCallbackEntry(id, false) keeps a persistant entry.
TakeEntry(c, e) == RemoveEntries(c, {x \in {e} : ~x.persistant})

ShowAlert(c) ==
    [c EXCEPT !.alert = TRUE, !.waiting = TRUE, !.waitingCached = TRUE]

\* Mutant: the cached answer survives the alert.
ClearAlertKeepingCache(c) == [c EXCEPT !.alert = FALSE]

\* clearAlert() drops the cache only when there was an alert to clear.
ClearAlert(c) ==
    [c EXCEPT !.alert = FALSE, !.waitingCached = @ /\ ~c.alert]

-----------------------------------------------------------------------------
(* Clearing down *)

\* consoleReset() forgets the alert but not the callback entries.
ConsoleReset(c) ==
    [NewConsole EXCEPT !.waiting = c.waiting, !.callbacks = c.callbacks,
                       !.timed = c.timed, !.pending = c.pending]

\* Mutants: the callback entries, or the label of the button, are left.
ClearCallbacksKeepingEntries(c) ==
    [c EXCEPT !.alert = FALSE, !.runningMain = FALSE,
              !.dialog = 0, !.waitingCached = FALSE, !.label = "Run"]
ClearCallbacksKeepingLabel(c) ==
    [c EXCEPT !.callbacks = {}, !.alert = FALSE, !.runningMain = FALSE,
              !.dialog = 0, !.waitingCached = FALSE]

ClearCallbacks(c) ==
    [c EXCEPT !.callbacks = {}, !.alert = FALSE, !.runningMain = FALSE,
              !.dialog = 0, !.waitingCached = FALSE, !.label = "Run"]

\* The cleanup lambda of wrapUpWorks().
Cleanup(c) == [ClearCallbacks(c) EXCEPT !.ctx = NoHeap]

-----------------------------------------------------------------------------
(* Entering and leaving JavaScript *)

StartTimeout(c) == [c EXCEPT !.status = @ \ {"TIMEOUT"}, !.timed = TRUE]

ClearTimeout(c) == [c EXCEPT !.timed = FALSE]

\* Mutant: the console is not reset before the next script.
BeforeMainUnreset(c, h) ==
    StartTimeout([c EXCEPT !.ctx = h, !.label = "Stop", !.runningMain = TRUE])

\* run() between consoleReset() and the evaluation of the script.
BeforeMain(c, h) ==
    StartTimeout([ConsoleReset(c) EXCEPT !.ctx = h, !.label = "Stop",
                                         !.runningMain = TRUE])

\* Mutant: a callback gets no time of its own.
BeforeCallUntimed(c) == [c EXCEPT !.waitingCached = FALSE]

\* executeCallableNargs() just before the call.
BeforeCall(c) == [StartTimeout(c) EXCEPT !.waitingCached = FALSE]

\* prep_for_throw() takes main as no longer running.
PrepForThrow(c) == [c EXCEPT !.runningMain = FALSE]

\* The statuses afterwards() looks at before the outcome of the call itself.
Interrupts == {"TIMEOUT", "CLOSING", "STOPPED", "TOCHAIN"}

\* What afterwards() returns: the first interrupt in this order, else the
\* error, else whether there is more to do.
Outcome(c, threw) ==
    CASE "TIMEOUT" \in c.status -> "TIMEOUT"
      [] c.status \cap {"TIMEOUT", "CLOSING"} = {"CLOSING"} -> "CLOSING"
      [] c.status \cap {"TIMEOUT", "CLOSING", "STOPPED"} = {"STOPPED"} -> "STOPPED"
      [] c.status \cap Interrupts = {"TOCHAIN"} -> "TOCHAIN"
      [] c.status \cap Interrupts = {} /\ threw -> "HAD_ERROR"
      [] OTHER -> IF SomethingAwaited(c) THEN "MORETODO" ELSE "DONE"

\* Mutant: what is awaited keeps the console waiting after an interrupt too.
AfterwardsUndecreed(c, threw) ==
    [c EXCEPT !.waiting = SomethingAwaited(c),
              !.waitingCached = TRUE,
              !.status = IF threw THEN @ \cup {"HAD_ERROR"} ELSE @]

\* What afterwards() leaves: not waiting by decree after an interrupt or an
\* error, the result of the full check otherwise.
Afterwards(c, threw) ==
    LET interrupted == c.status \cap Interrupts # {}
    IN  [c EXCEPT !.waiting = ~interrupted /\ ~threw /\ SomethingAwaited(c),
                  !.waitingCached = TRUE,
                  !.status = IF threw /\ ~interrupted THEN @ \cup {"HAD_ERROR"} ELSE @]
=============================================================================
