------------------------------- MODULE Console -------------------------------
(***************************************************************************)
(* One console: its script is compiled and run to its end, is then called  *)
(* back for timers, messages, dialogues and alerts for as long as it waits *)
(* for any, and is wrapped up when it waits for nothing, fails, times out, *)
(* stops, chains to another script, is stopped or is closed.               *)
(*                                                                         *)
(* Everything happens on one thread.  What interleaves is the event loop:  *)
(* a modal dialogue runs a nested one, in which timers, messages and       *)
(* CallAfter() requests are dispatched while the JavaScript that opened    *)
(* the dialogue is still on the C++ stack.  So the state is a console, the *)
(* stack of JavaScript calls in progress, and the requests queued.         *)
(***************************************************************************)
EXTENDS ConsoleState, Sequences

CONSTANTS
    Types,       \* the callback types the script uses
    Modals,      \* the modal calls it uses: "message", "dialogue", "file"
    Practices,   \* the hazardous things scripts may do, see PracticeNames
    MaxDepth,    \* bound: JavaScript calls on the stack
    MaxPending   \* bound: queued requests to run the script

(***************************************************************************)
(* What the code does not stop scripts (or the user) from doing, and is    *)
(* only sound without:                                                     *)
(*   modalOutsideMain   a callback or exit handler opens a modal dialogue  *)
(*   failUnderModal     a callback throws while a modal dialogue is open   *)
(*   cancelUnderModal   a callback cancels dialogues while one is modal    *)
(*   catch              the script catches what API calls throw            *)
(*   overlappingRuns    the script is asked to run while a request to run  *)
(*                      it is already queued                               *)
(*   closedInDialogue   another script closes this console while it is in  *)
(*                      modalDialogue or prompts for a file                *)
(*   stopUnderPrompt    a callback stops the script while main prompts for *)
(*                      a file                                             *)
(*   notCallable        a handler is not, or no longer, a function         *)
(*   emptyScript        a request finds nothing in the script pane         *)
(***************************************************************************)
PracticeNames == {"modalOutsideMain", "failUnderModal", "cancelUnderModal",
                  "catch", "overlappingRuns", "closedInDialogue",
                  "stopUnderPrompt", "notCallable", "emptyScript"}

ASSUME TypesAssumption == Types \subseteq CallbackTypes
ASSUME ModalsAssumption == Modals \subseteq {"message", "dialogue", "file"}
ASSUME PracticesAssumption == Practices \subseteq PracticeNames
ASSUME BoundsAssumption == MaxDepth \in Nat /\ MaxPending \in Nat

VARIABLES
    con,      \* the console
    open,     \* whether it exists: deleteMe() has not deleted it
    stack,    \* the JavaScript calls in progress, the innermost last
    fault     \* the undefined behaviour met, "none" as long as there is none

vars == <<con, open, stack, fault>>

Faults == {"none",
           "heapInUse",      \* a heap destroyed under a call that runs on it
           "noContext",      \* a Duktape call on a null context
           "staleHandler",   \* a handler called on a heap that it is not from
           "noDialog",       \* a null mpMessageDialog dereferenced
           "noEntry",        \* a callback entry that is gone dereferenced
           "consoleInUse"}   \* a console deleted under a call that runs on it

-----------------------------------------------------------------------------
(* The stack *)

Frame == [kind   : {"main", "callback", "dialogue", "exit"},
          heap   : Heaps,
          modal  : {"no", "message", "dialogue", "file"},   \* the modal call it is in
          answer : {"none", "ok", "cancel", "closed"},
          entry  : Ids \cup {NoId},                 \* of its modal dialogue
          reason : Completions]                     \* of wrapUp(), for "exit"

NewFrame(kind, h, reason) ==
    [kind |-> kind, heap |-> h, modal |-> "no", answer |-> "none",
     entry |-> NoId, reason |-> reason]

Top == stack[Len(stack)]
Below(s) == SubSeq(s, 1, Len(s) - 1)

JSRunning   == stack # <<>> /\ Top.modal = "no"
InEventLoop == ~JSRunning

ModalFrames(s) == {i \in DOMAIN s : s[i].modal # "no"}

\* Those that mModalCount counts: not the prompt for a file.
CountedFrames(s) == {i \in DOMAIN s : s[i].modal \in {"message", "dialogue"}}

Prompting(s) == \E i \in DOMAIN s : s[i].modal = "file"

InUse(s, h) == \E i \in DOMAIN s : s[i].heap = h

\* EndModal(): the modal call of frame d will return this answer.
Answered(s, d, answer) ==
    [i \in DOMAIN s |-> IF i = d THEN [s[i] EXCEPT !.answer = answer] ELSE s[i]]

StillModal(s, d) == d \in DOMAIN s /\ s[d].modal = "message" /\ s[d].answer = "none"

\* mpMessageDialog->Destroy() hides the box, which ends its modality, if it
\* has not ended, as Cancel does.
Dismissed(s, d) == IF StillModal(s, d) THEN Answered(s, d, "cancel") ELSE s

Running == open /\ fault = "none"

-----------------------------------------------------------------------------
(***************************************************************************)
(* wrapUp().  In what follows c and s are the console and the stack that   *)
(* the code has arrived at so far in the current step.                     *)
(***************************************************************************)

Becomes(c, s) == con' = c /\ stack' = s /\ UNCHANGED fault

\* The heap goes, whatever still runs on it, and the box with it.
HeapGoes(c, s) ==
    /\ stack' = Dismissed(s, c.dialog)
    /\ fault' = IF InUse(s, c.ctx) THEN "heapInUse" ELSE "none"

\* The cleanup lambda, where nothing else follows.
ClearDown(c, s) == con' = Cleanup(c) /\ HeapGoes(c, s)

\* The end of an orderly wrapUp(): isBusy() is asked, to report an error that
\* cannot happen; then chain, or reply to the caller if any.
Finish(c, s, reason) ==
    LET idle == AskedBusy(Cleanup(c))
    IN  /\ HeapGoes(c, s)
        /\ con' = IF reason = "TOCHAIN"
                  THEN [idle EXCEPT !.status = @ \ {"TOCHAIN"}, !.pending = @ + 1]
                  ELSE idle

\* Mutant: an exit handler that fails ends the wrapping up.
ExitEndsUncleared(c, s, outcome, reason) ==
    LET left == [c EXCEPT !.status = @ \ {"INEXIT"}]
    IN  IF outcome \in {"TIMEOUT", "HAD_ERROR"} THEN Becomes(left, s)
                                               ELSE Finish(left, s, reason)

\* Back from the exit handler.
ExitEnds(c, s, outcome, reason) ==
    LET left == [c EXCEPT !.status = @ \ {"INEXIT"}]
    IN  IF outcome \in {"TIMEOUT", "HAD_ERROR"}
        THEN ClearDown(left, s)
        ELSE Finish(left, s, reason)

\* executeCallableNargs(), up to the call.
Call(c, s, f) ==
    /\ con' = BeforeCall(c)
    /\ stack' = Append(s, f)
    /\ fault' = CASE c.ctx = NoHeap -> "noContext"
                  [] c.ctx \in Heaps \ {f.heap} -> "staleHandler"
                  [] OTHER -> "none"

\* Mutant: a script that is stopped does not get to run its exit handler.
RunExitHandlerUnlessStopped(c, s, reason) ==
    IF reason = "STOPPED" THEN Finish(c, s, reason)
                          ELSE Call(c, s, NewFrame("exit", c.exitHandler, reason))

\* executeCallableNargs() calls nothing once the script has had an error, nor what
\* is not a function.
IsRefused(c) == "HAD_ERROR" \in c.status \/ "notCallable" \in Practices

RunExitHandler(c, s, reason) ==
    LET inExit == [c EXCEPT !.status = (@ \ {"DONE"}) \cup {"INEXIT"}]
    IN  \/ IsRefused(c) /\ ExitEnds(inExit, s, "HAD_ERROR", reason)
        \/ "HAD_ERROR" \notin c.status
           /\ Call(inExit, s, NewFrame("exit", c.exitHandler, reason))

\* An error message is formed from what is on the stack of the context.
WrapUp(c0, s, reason) ==
    LET c == [c0 EXCEPT !.status = (@ \ {"MORETODO"}) \cup {reason}]
    IN  CASE reason = "MORETODO" -> Becomes(c, s)
          [] reason = "HAD_ERROR" /\ c.ctx = NoHeap ->
               con' = c /\ stack' = s /\ fault' = "noContext"
          [] reason \in {"TIMEOUT", "CLOSING"} \/ (reason = "HAD_ERROR" /\ c.ctx # NoHeap) ->
               ClearDown(c, s)
          [] OTHER -> IF c.exitHandler = NoHeap THEN Finish(c, s, reason)
                                                ELSE RunExitHandler(c, s, reason)

\* What the callers of run() and of executeCallableNargs() do next.
WrapUpUnlessBusy(c, s, outcome) ==
    IF IsBusy(c) THEN Becomes(AskedBusy(c), s)
                 ELSE WrapUp(AskedBusy(c), s, outcome)

\* The innermost call returns, or throws what its JavaScript does not catch.
FrameEnds(c0, s, threw) ==
    LET f       == s[Len(s)]
        c1      == [ClearTimeout(c0) EXCEPT !.runningMain = @ /\ f.kind # "main"]
        outcome == Outcome(c1, threw)
        c       == Afterwards(c1, threw)
    IN  CASE f.kind \in {"main", "callback"} -> WrapUpUnlessBusy(c, Below(s), outcome)
          [] f.kind = "dialogue" -> WrapUp(c, Below(s), outcome)
          [] f.kind = "exit" -> ExitEnds(c, Below(s), outcome, f.reason)

-----------------------------------------------------------------------------
(* What running JavaScript does *)

JS == Running /\ JSRunning /\ UNCHANGED open

Sets(c) == Becomes(c, stack)

\* Scripts fail under a modal dialogue only where that practice is followed.
MayFail == ModalFrames(stack) = {} \/ "failUnderModal" \in Practices

\* An error raised by a call the script made, which it may catch.
Thrown(c, s) ==
    \/ "catch" \in Practices /\ Becomes(c, s)
    \/ FrameEnds(c, s, TRUE)

ApiThrow(c, s) == MayFail /\ Thrown(PrepForThrow(c), s)

InExit == "INEXIT" \in con.status

\* A call refused for its arguments.
ApiError == JS /\ ApiThrow(con, stack)

\* An error of the script's own that it does not catch.
ScriptError == JS /\ MayFail /\ FrameEnds(con, stack, TRUE)

\* Mutant: no time passes while a modal dialogue is open.
TimeoutOutsideModal ==
    /\ JS /\ con.timed /\ con.modalCount = 0
    /\ FrameEnds([con EXCEPT !.status = @ \cup {"TIMEOUT"}], stack, TRUE)

\* JSduk_timeout_check() finds that the time allocated is used up.
Timeout ==
    /\ JS /\ con.timed
    /\ FrameEnds([con EXCEPT !.status = @ \cup {"TIMEOUT"}], stack, TRUE)

Return == JS /\ FrameEnds(con, stack, FALSE)

\* At the limit newCallbackEntry() clears everything, then throws.
Full == Cardinality(con.callbacks) >= MaxCallbacks
TooManyCallbacks == ApiThrow(ClearCallbacks(con), Dismissed(stack, con.dialog))

FreeIds == Ids \ {e.id : e \in con.callbacks}

\* onSeconds(), OCPNonNMEA0183(), OCPNonMessageName(), onDialogue(), ...
Register(type, persistant) ==
    /\ JS
    /\ CASE InExit -> ApiThrow(con, stack)
         [] ~InExit /\ Full -> TooManyCallbacks
         [] OTHER -> \E id \in FreeIds :
                       Sets(AddEntry(con, [id |-> id, type |-> type,
                                           persistant |-> persistant,
                                           heap |-> Top.heap]))

\* The same functions called with an id, or with no handler: cancel.
Cancel(S) ==
    /\ JS
    /\ (\E e \in S : e.type = "CB_DIALOGUE") /\ ModalFrames(stack) # {}
         => "cancelUnderModal" \in Practices
    /\ Sets(RemoveEntries(con, S))

CancelOne == \E e \in con.callbacks : Cancel({e})
CancelType(type) == Cancel({e \in con.callbacks : e.type = type})

\* alert(text), alert(false)
Alert == JS /\ Sets(ShowAlert(con))
CancelAlert == JS /\ Sets(ClearAlert(con))

\* onExit(handler)
OnExit ==
    /\ JS
    /\ IF InExit THEN ApiThrow(con, stack)
                 ELSE Sets([con EXCEPT !.exitHandler = Top.heap])

\* Mutant: stopScript() does not look for modal dialogues.
StopScriptAnyway ==
    JS /\ Thrown(ClearCallbacks([con EXCEPT !.status = @ \cup {"STOPPED"}]),
                 Dismissed(stack, con.dialog))

\* stopScript(): the status is set even where the script cannot be stopped.
StopScript ==
    LET c == [con EXCEPT !.status = @ \cup {"STOPPED"}]
    IN  /\ JS
        /\ Prompting(stack) => "stopUnderPrompt" \in Practices
        /\ CASE con.modalCount > 0 -> Sets(c)
             [] con.modalCount <= 0 /\ InExit -> ApiThrow(c, stack)
             [] OTHER -> Thrown(ClearCallbacks(c), Dismissed(stack, con.dialog))

\* consoleChain(): the new script is in the pane, this one is to end.
ChainScript ==
    JS /\ Thrown([con EXCEPT !.status = @ \cup {"TOCHAIN"}], stack)

MayGoModal(modal) ==
    /\ JS /\ modal \in Modals
    /\ Top.kind = "main" \/ "modalOutsideMain" \in Practices

\* ShowModal(), up to its nested event loop.
InModal(modal, id) ==
    [stack EXCEPT ![Len(stack)] =
        [@ EXCEPT !.modal = modal, !.answer = "none", !.entry = id]]

\* Mutant: a message box does not count as a modal dialogue.
MessageBoxUncounted ==
    MayGoModal("message") /\ Becomes([con EXCEPT !.dialog = Len(stack)],
                                     InModal("message", NoId))

MessageBox ==
    /\ MayGoModal("message")
    /\ Becomes([con EXCEPT !.dialog = Len(stack), !.modalCount = @ + 1],
               InModal("message", NoId))

ModalDialogue ==
    /\ MayGoModal("dialogue")
    /\ IF Full THEN TooManyCallbacks
       ELSE \E id \in FreeIds :
              LET e == [id |-> id, type |-> "CB_DIALOGUE", persistant |-> FALSE,
                        heap |-> Top.heap]
              IN  Becomes([con EXCEPT !.callbacks = @ \cup {e}, !.modalCount = @ + 1],
                          InModal("dialogue", id))

\* resolveFileName() prompts for a file, and does not count as modal.
FilePrompt == MayGoModal("file") /\ Becomes(con, InModal("file", NoId))

-----------------------------------------------------------------------------
(* What the event loop dispatches *)

Event == Running /\ InEventLoop /\ UNCHANGED open

\* While a modal dialogue is open the user can reach no other window.
UserEvent == Event /\ stack = <<>>

\* Mutant: the request to run stays in the queue.
RunScriptAgain(c) ==
    \E h \in Heaps \ {stack[i].heap : i \in DOMAIN stack} :
        Becomes(BeforeMain([c EXCEPT !.pending = con.pending], h),
                Append(stack, NewFrame("main", h, "DONE")))

RunScript(c) ==
    \E h \in Heaps \ {stack[i].heap : i \in DOMAIN stack} :
        Becomes(BeforeMain(c, h), Append(stack, NewFrame("main", h, "DONE")))

StopRun(c) == WrapUp([c EXCEPT !.status = {}], stack, "STOPPED")

\* The Run button, which reads Stop while a script is running.
RunClicked ==
    /\ UserEvent
    /\ IF con.label = "Run"
       THEN (con.pending > 0 => "overlappingRuns" \in Practices) /\ RunScript(con)
       ELSE StopRun(con)

\* Mutant: doRunCommand() runs once more than it was queued.
RunQueuedTwice ==
    LET c == [con EXCEPT !.pending = @ - 1]
    IN  Event /\ IF con.label = "Run" THEN Len(stack) < MaxDepth /\ RunScript(c) ELSE StopRun(c)

\* A doRunCommand() queued by consoleChain(), consoleRun(), onConsoleResult();
\* run() returns at once, with no context, when there is no script.
RunQueued ==
    LET c == [con EXCEPT !.pending = @ - 1]
    IN  /\ Event /\ con.pending > 0
        /\ IF con.label = "Run"
           THEN \/ Len(stack) < MaxDepth /\ RunScript(c)
                \/ "emptyScript" \in Practices /\ WrapUpUnlessBusy(c, stack, "HAD_ERROR")
           ELSE StopRun(c)

\* Mutant: the console is not asked whether it is busy.
RunRequestedAnyway ==
    Event /\ con.pending = 0 /\ Sets([con EXCEPT !.pending = @ + 1])

\* consoleRun() and onConsoleResult() from another console.
RunRequested ==
    /\ Event /\ con.pending < MaxPending
    /\ con.pending > 0 => "overlappingRuns" \in Practices
    /\ \/ con.ctx = NoHeap /\ Sets([con EXCEPT !.pending = @ + 1])
       \/ ~IsBusy(con) /\ Sets([AskedBusy(con) EXCEPT !.pending = @ + 1])

\* HandleTimer(), HandleNMEA0183(), HandleMessage(): call the handler of e.
Handle(c0, e, kind) ==
    LET c == TakeEntry(c0, e)
    IN  \/ /\ IsRefused(c)
           /\ IF kind = "dialogue" THEN WrapUp(c, stack, "HAD_ERROR")
                                   ELSE WrapUpUnlessBusy(c, stack, "HAD_ERROR")
        \/ "HAD_ERROR" \notin c.status /\ Call(c, stack, NewFrame(kind, e.heap, "DONE"))

CallbackFires ==
    /\ Event /\ Len(stack) < MaxDepth
    /\ \E e \in con.callbacks :
         \/ e.type \in {"CB_TIMER", "CB_MESSAGE"} /\ Handle(con, e, "callback")
         \/ /\ e.type = "CB_NMEA0183"
            /\ IF IsWaiting(con) THEN Handle(Asked(con), e, "callback")
                                 ELSE Sets(Asked(con))

\* onButton() of a dialogue that is not modal.
DialogueButton ==
    /\ UserEvent
    /\ \E e \in con.callbacks : e.type = "CB_DIALOGUE" /\ Handle(con, e, "dialogue")

AlertDismissed ==
    /\ UserEvent /\ con.alert
    /\ LET c == ClearAlert(con)
       IN  IF IsWaiting(c) THEN Sets(Asked(c)) ELSE WrapUp(Asked(c), stack, "DONE")

\* A button of the box, or of the modal dialogue, the innermost call is in.
MessageButton(answer) ==
    /\ Event /\ stack # <<>> /\ Top.modal = "message" /\ Top.answer = "none"
    /\ IF con.dialog = 0
       THEN fault' = "noDialog" /\ UNCHANGED <<con, stack>>
       ELSE Becomes(con, Answered(stack, con.dialog, answer))

ModalButton ==
    /\ Event /\ stack # <<>> /\ Top.modal = "dialogue" /\ Top.answer = "none"
    /\ IF \E e \in con.callbacks : e.id = Top.entry
       THEN Becomes(RemoveEntries(con, {e \in con.callbacks : e.id = Top.entry}),
                    Answered(stack, Len(stack), "ok"))
       ELSE fault' = "noEntry" /\ UNCHANGED <<con, stack>>

\* A button of the prompt for a file.
PromptButton(answer) ==
    /\ Event /\ stack # <<>> /\ Top.modal = "file" /\ Top.answer = "none"
    /\ Becomes(con, Answered(stack, Len(stack), answer))

\* Mutant: the nested event loop ends only when there are no callbacks.
ModalOverWhenIdle == stack # <<>> /\ Top.answer # "none" /\ con.callbacks = {}

\* The innermost modal dialogue has been answered.
ModalOver == stack # <<>> /\ Top.answer # "none"

\* ShowModal() returns; only messageBox() gives the script more time.
ModalReturns ==
    LET c == [con EXCEPT !.modalCount = @ - 1]
        s == [stack EXCEPT ![Len(stack)] = [@ EXCEPT !.modal = "no"]]
    IN  /\ Event /\ ModalOver
        /\ CASE Top.modal = "dialogue" -> Becomes(c, s)
             [] Top.modal = "file" /\ Top.answer = "ok" -> Becomes(con, s)
             [] Top.modal = "file" /\ Top.answer # "ok" -> Thrown(PrepForThrow(con), s)
             [] Top.modal = "message" /\ Top.answer = "closed" ->
                  Thrown(PrepForThrow([c EXCEPT !.status = @ \cup {"CLOSING"}]), s)
             [] Top.modal = "message" /\ Top.answer = "cancel" ->
                  Thrown(PrepForThrow(c), s)
             [] Top.modal = "message" /\ Top.answer = "ok" ->
                  IF con.dialog = 0
                  THEN fault' = "noDialog" /\ UNCHANGED <<con, stack>>
                  ELSE Becomes(StartTimeout([c EXCEPT !.dialog = 0]),
                               Dismissed(s, con.dialog))

\* deleteMe(), which leaves the heap of a console that was waiting behind.
DeleteMe(c, s) ==
    /\ con' = AskedBusy(c)
    /\ open' = IsBusy(c)
    /\ stack' = s
    /\ fault' = IF ~IsBusy(c) /\ s # <<>> THEN "consoleInUse" ELSE fault

\* consoleClose() from another console.
ConsoleClose ==
    /\ Running /\ InEventLoop
    /\ (\E i \in DOMAIN stack : stack[i].modal \in {"dialogue", "file"})
         => "closedInDialogue" \in Practices
    /\ IF con.dialog # 0
       THEN DeleteMe(con, IF con.dialog \in DOMAIN stack /\ stack[con.dialog].modal = "message"
                          THEN Answered(stack, con.dialog, "closed") ELSE stack)
       ELSE DeleteMe(ClearCallbacks(con), stack)

\* The close box: refuses a busy console.
CloseBox ==
    /\ Running /\ stack = <<>>
    /\ DeleteMe(con, stack)

\* consoleAdd() makes a console of that name again.
ConsoleAdd ==
    /\ ~open /\ fault = "none"
    /\ con' = NewConsole /\ open' = TRUE /\ UNCHANGED <<stack, fault>>

-----------------------------------------------------------------------------
Init == con = NewConsole /\ open = TRUE /\ stack = <<>> /\ fault = "none"

Next ==
    \/ ApiError \/ ScriptError \/ Timeout \/ Return
    \/ \E type \in Types, persistant \in BOOLEAN : Register(type, persistant)
    \/ CancelOne
    \/ \E type \in Types : CancelType(type)
    \/ Alert \/ CancelAlert \/ OnExit \/ StopScript \/ ChainScript
    \/ MessageBox \/ ModalDialogue \/ FilePrompt
    \/ RunClicked \/ RunQueued \/ RunRequested
    \/ CallbackFires \/ DialogueButton \/ AlertDismissed
    \/ MessageButton("ok") \/ MessageButton("cancel") \/ ModalButton
    \/ PromptButton("ok") \/ PromptButton("cancel") \/ ModalReturns
    \/ ConsoleClose \/ CloseBox \/ ConsoleAdd

Spec == Init /\ [][Next]_vars

(***************************************************************************)
(* Fairness.  Duktape calls JSduk_timeout_check() at regular intervals, so *)
(* a script that runs for ever meets the timeout.  An event loop drains    *)
(* the queue of CallAfter() however many other events it dispatches, and a *)
(* nested one whose dialogue has ended returns as soon as it is innermost. *)
(* Nothing obliges the user, or a script, to do anything.                  *)
(***************************************************************************)
FairSpec == Spec /\ WF_vars(Timeout) /\ SF_vars(RunQueued) /\ SF_vars(ModalReturns)

-----------------------------------------------------------------------------
(***************************************************************************)
(* Properties                                                              *)
(***************************************************************************)

\* Every variable has its type.
TypeOK ==
    /\ con \in Console
    /\ open \in BOOLEAN
    /\ stack \in Seq(Frame)
    /\ fault \in Faults

\* wrapUp() destroys the Duktape heap and does not look whether a call is in
\* progress on it: every call on the C++ stack, the ones suspended in a modal
\* dialogue included, runs on the heap that the console still holds.
HeapOutlivesCalls == \A i \in DOMAIN stack : stack[i].heap = con.ctx

\* No null context, box or entry is dereferenced, no heap or console is
\* destroyed in use, no handler is called on a heap other than its own.
NoUndefinedBehaviour == fault = "none"

\* A callback entry never outlives the heap its handler is on: clearing the
\* entries and destroying the heap are separate steps in several places.
CallbacksOnLiveHeap == \A e \in con.callbacks : e.heap = con.ctx

\* With no JavaScript in progress the three ways the code has of telling that
\* a script is active agree: the button reads Stop, there is a heap, there is
\* something to wait for.  So a script is not left waiting for nothing, nor
\* called back after it was wrapped up.
QuiescentIsConsistent ==
    stack = <<>> /\ open =>
        /\ con.label = "Stop" <=> con.ctx # NoHeap
        /\ con.ctx # NoHeap <=> SomethingAwaited(con)
        /\ ~con.runningMain

\* The comment on mWaiting is "true if waiting for something": between events
\* a cached answer is that of the full check.
WaitingIsForSomething ==
    open /\ stack = <<>> /\ con.waitingCached => (con.waiting <=> SomethingAwaited(con))

\* mModalCount, on which stopScript() relies, counts the modal calls in
\* progress (but for prompts for a file) although consoleReset() zeroes it and
\* errors leave the calls early.
ModalCountAgrees == open => con.modalCount = Cardinality(CountedFrames(stack))

\* Whenever JavaScript runs, a time at which it must end is set: a nested
\* callback clears it for the call that is suspended below.
ScriptsAreTimed == JSRunning => con.timed

HasExitCall(s) == \E i \in DOMAIN s : s[i].kind = "exit"

\* The exit handler is the last JavaScript of a run: when its call is over the
\* heap is gone and nothing can call the script back.
ExitHandlerIsFinal ==
    [][HasExitCall(stack) /\ ~HasExitCall(stack') =>
         /\ con'.ctx = NoHeap /\ ~SomethingAwaited(con') /\ con'.label = "Run"
         /\ stack' = <<>>]_vars

\* A queued request to run, taken from the queue, starts the script: the
\* branch of doRunCommand() that stops one is for the Stop button only.
QueuedRunStarts ==
    [][open /\ open' /\ con'.pending < con.pending =>
         con'.runningMain /\ Len(stack') > Len(stack)]_vars

\* However badly a script behaves, control comes back to the event loop.
EventLoopResumes == []<>InEventLoop

\* A script that is chained to, or run from another console, is started.
QueuedRunsAreTaken == con.pending > 0 ~> (con.pending = 0 \/ ~open)

\* A modal dialogue that was answered ends, whatever callbacks come between.
AnsweredModalEnds ==
    (stack # <<>> /\ stack[1].modal # "no" /\ stack[1].answer # "none")
        ~> (stack = <<>> \/ stack[1].modal = "no")

-----------------------------------------------------------------------------
(***************************************************************************)
(* The life of a script, as ScriptLifecycle promises it                    *)
(***************************************************************************)

phase ==
    CASE ~open -> "closed"
      [] open /\ con.ctx = NoHeap -> "idle"
      [] open /\ con.ctx # NoHeap /\ stack = <<>> -> "waiting"
      [] OTHER -> CASE stack[1].kind = "main" -> "main"
                    [] stack[1].kind = "exit" -> "exiting"
                    [] OTHER -> "handling"

guarded == phase \in {"main", "waiting", "handling"} /\ con.exitHandler # NoHeap

ended == IF phase # "idle" THEN "no"
         ELSE IF con.status \cap {"TIMEOUT", "HAD_ERROR", "CLOSING"} = {}
              THEN "orderly" ELSE "abruptly"

Lifecycle == INSTANCE ScriptLifecycle

\* The console implements the life of a script.
ImplementsLifecycle == Lifecycle!Spec
=============================================================================
