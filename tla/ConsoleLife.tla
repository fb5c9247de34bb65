------------------------------ MODULE ConsoleLife ------------------------------
(***************************************************************************)
(* What a step may do to the life of a script that follows none of the     *)
(* hazardous practices: every step of Console is one of ScriptLifecycle or *)
(* leaves its variables alone, the exit handler is the last JavaScript of  *)
(* a run, a request taken from the queue starts the script, and with no    *)
(* modal call but message boxes no JavaScript runs untimed.                *)
(***************************************************************************)
EXTENDS ConsoleSafety

-----------------------------------------------------------------------------
(* What the console may have come to at the end of a step *)

\* No JavaScript runs untimed, and the modal call in progress is one that may be.
Kept ==
    /\ InModalMain(stack') => stack'[1].modal \in Modals
    /\ stack' # <<>> /\ stack'[Len(stack')].modal = "no"
         => con'.timed \/ Modals \cap {"dialogue", "file"} # {}

\* The script waits for its callbacks.
Waits(h) ==
    stack' = <<>> /\ con'.ctx \in Heaps /\ con'.exitHandler = h /\ ~Abrupt(con')

\* The run is over.
EndsWell  == stack' = <<>> /\ con'.ctx = NoHeap /\ ~Abrupt(con')
EndsBadly == stack' = <<>> /\ con'.ctx = NoHeap /\ Abrupt(con')

\* A call of this kind is in progress, nothing below it.
Calls(kind) ==
    /\ Len(stack') = 1 /\ stack' # <<>> /\ stack'[1].kind = kind
    /\ con'.ctx \in Heaps /\ "CLOSING" \notin con'.status
    /\ stack'[1].modal = "no" /\ con'.timed

\* What becomes of a script without, or with, an exit handler that ends well.
RunsOut(h) == IF h = NoHeap THEN EndsWell ELSE Calls("exit")

\* The outermost call, of this kind, is over; h was the exit handler.
Over(h, kind) ==
    IF kind = "exit" THEN EndsWell \/ EndsBadly
                     ELSE Waits(h) \/ EndsBadly \/ RunsOut(h)

\* The outermost call is still in progress, suspended or not.
GoesOn ==
    /\ stack' # <<>> /\ stack'[1].kind = stack[1].kind
    /\ con'.ctx \in Heaps /\ "CLOSING" \notin con'.status
    /\ con'.exitHandler = con.exitHandler \/ con'.exitHandler # NoHeap
    /\ Kept

-----------------------------------------------------------------------------
(* wrapUp() *)

\* The status says how the run ended.
LEMMA ClearDownLife ==
    ASSUME NEW c \in Console, ClearDown(c, <<>>)
    PROVE  stack' = <<>> /\ con'.ctx = NoHeap /\ (Abrupt(con') <=> Abrupt(c))
<1>1. con' = Cleanup(c) /\ stack' = <<>>
  BY HeapGoesSafely DEF ClearDown
<1>2. Cleanup(c).ctx = NoHeap /\ Cleanup(c).status = c.status
  BY ClearCallbacksFields
<1> QED BY <1>1, <1>2 DEF Abrupt

LEMMA FinishLife ==
    ASSUME NEW c \in Console, NEW reason, Finish(c, <<>>, reason)
    PROVE  stack' = <<>> /\ con'.ctx = NoHeap /\ (Abrupt(con') <=> Abrupt(c))
<1> DEFINE clean == Cleanup(c)
           idle  == AskedBusy(clean)
           unset == [idle EXCEPT !.status = @ \ {"TOCHAIN"}]
           d     == [idle EXCEPT !.status = @ \ {"TOCHAIN"}, !.pending = @ + 1]
<1>1. clean \in Console /\ clean.ctx = NoHeap /\ clean.status = c.status /\ ~clean.runningMain
  BY ClearCallbacksFields
<1> HIDE DEF clean
<1>2. idle \in Console /\ idle.ctx = NoHeap /\ idle.status = c.status
  <2>1. idle = Asked(clean)
    BY <1>1 DEF AskedBusy
  <2> HIDE DEF idle
  <2> QED BY <1>1, <2>1, AskedFields
<1> HIDE DEF idle
<1>3. unset \in Console /\ unset.ctx = NoHeap /\ unset.status = c.status \ {"TOCHAIN"}
      /\ unset.pending = idle.pending
  BY <1>2 DEF Console
<1>4. d = [unset EXCEPT !.pending = idle.pending + 1]
  BY <1>2 DEF Console
<1> HIDE DEF unset
<1>5. d.ctx = NoHeap /\ d.status = c.status \ {"TOCHAIN"}
  BY <1>3, <1>4 DEF Console
<1>6. con' = IF reason = "TOCHAIN" THEN d ELSE idle
  BY Zenon DEF Finish, d, idle, clean
<1> HIDE DEF d
<1>7. stack' = <<>>
  BY HeapGoesSafely DEF Finish
<1> QED BY <1>2, <1>5, <1>6, <1>7 DEF Abrupt

\* Calling a function with nothing else in progress.
LEMMA CallLife ==
    ASSUME NEW c \in Console, c.ctx \in Heaps, "CLOSING" \notin c.status,
           NEW kind, NEW h, NEW reason, Call(c, <<>>, NewFrame(kind, h, reason))
    PROVE  Calls(kind) /\ con'.exitHandler = c.exitHandler
<1> DEFINE d == BeforeCall(c)
           f == NewFrame(kind, h, reason)
<1>1. f.kind = kind /\ f.modal = "no"
  BY DEF NewFrame
<1>2. con' = d /\ stack' = Append(<<>>, f)
  BY DEF Call
<1> HIDE DEF f
<1>3. stack' = <<f>> /\ Len(<<f>>) = 1 /\ <<f>>[1] = f /\ <<f>> # <<>>
  BY <1>2
<1>4. d.ctx = c.ctx /\ d.status \subseteq c.status /\ d.exitHandler = c.exitHandler
  BY BeforeCallFields
<1>5. d.timed
  <2> DEFINE e == StartTimeout(c)
  <2>1. e \in Console /\ e.timed
    BY SimpleMethodTypes DEF StartTimeout, Console
  <2>2. d = [e EXCEPT !.waitingCached = FALSE]
    BY DEF BeforeCall
  <2> HIDE DEF d, e
  <2> QED BY <2>1, <2>2 DEF Console
<1> HIDE DEF d
<1> QED BY <1>1, <1>2, <1>3, <1>4, <1>5 DEF Calls

\* A script that ends in good order, and only that, runs its exit handler.
LEMMA WrapUpLife ==
    ASSUME Practices = {}, NEW c0, Settled(c0), NEW reason \in Completions,
           reason \notin {"TIMEOUT", "CLOSING", "HAD_ERROR"} => ~Abrupt(c0),
           WrapUp(c0, <<>>, reason)
    PROVE  \/ reason = "MORETODO" /\ Waits(c0.exitHandler)
           \/ reason \in {"TIMEOUT", "CLOSING", "HAD_ERROR"} /\ EndsBadly
           \/ reason \notin {"MORETODO", "TIMEOUT", "CLOSING", "HAD_ERROR"}
              /\ RunsOut(c0.exitHandler)
<1> DEFINE c == [c0 EXCEPT !.status = (@ \ {"MORETODO"}) \cup {reason}]
           inExit == [c EXCEPT !.status = (@ \ {"DONE"}) \cup {"INEXIT"}]
<1>1. c0 \in Console /\ c0.ctx \in Heaps /\ c0.status \in SUBSET Completions
      /\ "INEXIT" \in Completions
  BY FieldTypes DEF Settled, Completions
<1>2. /\ c \in Console /\ c.status = (c0.status \ {"MORETODO"}) \cup {reason}
      /\ c.ctx = c0.ctx /\ c.exitHandler = c0.exitHandler
  BY <1>1, StatusFields
<1> HIDE DEF c
<1>3. c.ctx # NoHeap
  BY <1>1, <1>2, NoHeapAssumption
<1>4. CASE reason = "MORETODO"
  <2>1. Becomes(c, <<>>)
    BY <1>4, Zenon DEF WrapUp, c
  <2>2. ~Abrupt(c)
    BY <1>2, <1>4 DEF Abrupt
  <2> QED BY <1>1, <1>2, <1>4, <2>1, <2>2 DEF Becomes, Waits
<1>5. CASE reason \in {"TIMEOUT", "CLOSING", "HAD_ERROR"}
  <2>1. ClearDown(c, <<>>)
    BY <1>3, <1>5, Zenon DEF WrapUp, c
  <2>2. Abrupt(c)
    BY <1>2, <1>5 DEF Abrupt
  <2> QED BY <1>2, <1>5, <2>1, <2>2, ClearDownLife DEF EndsBadly
<1>6. CASE reason \notin {"MORETODO", "TIMEOUT", "CLOSING", "HAD_ERROR"}
  <2>1. ~Abrupt(c) /\ "HAD_ERROR" \notin c.status /\ "CLOSING" \notin c.status
    BY <1>2, <1>6 DEF Abrupt
  <2>2. IF c.exitHandler = NoHeap THEN Finish(c, <<>>, reason)
                                  ELSE RunExitHandler(c, <<>>, reason)
    BY <1>6, Zenon DEF WrapUp, c
  <2>3. CASE c.exitHandler = NoHeap
    BY <1>2, <1>6, <2>1, <2>2, <2>3, FinishLife DEF EndsWell, RunsOut
  <2>4. CASE c.exitHandler # NoHeap
    <3>1. Call(inExit, <<>>, NewFrame("exit", c.exitHandler, reason))
      BY <2>1, <2>2, <2>4, Zenon DEF RunExitHandler, IsRefused, inExit
    <3>2. inExit \in Console /\ inExit.status = (c.status \ {"DONE"}) \cup {"INEXIT"}
          /\ inExit.ctx = c.ctx
      <4> DEFINE S == (c.status \ {"DONE"}) \cup {"INEXIT"}
      <4>1. S \in SUBSET Completions
        BY <1>1, <1>2
      <4>2. inExit = [c EXCEPT !.status = S]
        OBVIOUS
      <4> HIDE DEF S, inExit
      <4>3. inExit \in Console /\ inExit.status = S /\ inExit.ctx = c.ctx
        BY <1>2, <4>1, <4>2, StatusFields
      <4> QED BY <4>3 DEF S
    <3> HIDE DEF inExit
    <3>3. "CLOSING" \notin inExit.status /\ inExit.ctx \in Heaps
      BY <1>1, <1>2, <2>1, <3>2
    <3> QED BY <1>2, <1>6, <2>4, <3>1, <3>2, <3>3, CallLife DEF RunsOut
  <2> QED BY <2>3, <2>4
<1> QED BY <1>4, <1>5, <1>6

-----------------------------------------------------------------------------
(* The end of a call *)

\* A callback below which main is suspended leaves its script as it was.
LEMMA NestedEndLife ==
    ASSUME NEW c0, NEW s, NEW threw \in BOOLEAN, Ready(c0, s, threw), Len(s) = 2,
           FrameEnds(c0, s, threw), s[1].modal # "no" => s[1].modal \in Modals
    PROVE  /\ Len(stack') = 1 /\ stack' # <<>> /\ stack'[1] = s[1]
           /\ con'.ctx = c0.ctx /\ con'.exitHandler = c0.exitHandler
           /\ con'.status = c0.status /\ Kept
<1>1. c0 \in Console /\ s \in Seq(Frame) /\ s # <<>> /\ Good(c0, s)
      /\ (threw => Interrupted(c0))
  BY DEF Ready
<1>2. PICK c, outcome : CallOver(c0, s, threw, c, outcome)
  BY <1>1, EndOfCall
<1>3. s[2].kind = "callback" /\ s[1].modal # "no" /\ s[1].kind = "main"
  BY <1>1 DEF Good, Shape
<1>4. c0.runningMain
  BY <1>1, <1>3 DEF Good, MainIsRunning
<1>5. c.runningMain /\ c.ctx = c0.ctx /\ c.exitHandler = c0.exitHandler
      /\ c.status = c0.status /\ WrapUpUnlessBusy(c, Below(s), outcome)
  BY <1>1, <1>2, <1>3, <1>4 DEF CallOver
<1>6. con' = c /\ stack' = Below(s)
  BY <1>5 DEF WrapUpUnlessBusy, IsBusy, AskedBusy, Becomes
<1>7. Len(stack') = 1 /\ stack' # <<>> /\ stack'[1] = s[1]
  BY <1>1, <1>6, BelowFacts
<1>8. Kept
  BY <1>3, <1>7 DEF Kept, InModalMain
<1> QED BY <1>5, <1>6, <1>7, <1>8

\* The outermost call ends in good order, or in whatever ended it.
LEMMA OuterEndLife ==
    ASSUME Practices = {}, NEW c0, NEW s, NEW threw \in BOOLEAN,
           Ready(c0, s, threw), Len(s) = 1, FrameEnds(c0, s, threw)
    PROVE  Over(c0.exitHandler, s[1].kind)
<1> DEFINE f == s[1]
<1>1. c0 \in Console /\ s \in Seq(Frame) /\ s # <<>> /\ f \in Frame /\ f.modal = "no"
      /\ c0.ctx \in Heaps /\ HandlersOnHeap(c0) /\ c0.pending = 0 /\ c0.modalCount = 0
      /\ c0.dialog \in {0, 1} /\ "HAD_ERROR" \notin c0.status
      /\ (c0.runningMain => f.kind = "main")
  BY StackTypes DEF Ready, ModalsCounted, InCountedMain
<1>2. PICK c, outcome : CallOver(c0, s, threw, c, outcome)
  BY <1>1, EndOfCall
<1>3. Below(s) = <<>>
  BY <1>1, BelowFacts
<1>4. \/ f.kind \in {"main", "callback"} /\ WrapUpUnlessBusy(c, <<>>, outcome)
      \/ f.kind = "dialogue" /\ WrapUp(c, <<>>, outcome)
      \/ f.kind = "exit" /\ ExitEnds(c, <<>>, outcome, f.reason)
  BY <1>2, <1>3 DEF CallOver
<1>5. /\ c \in Console /\ c.waitingCached /\ outcome \in Completions
      /\ c.waiting <=> ~Interrupted(c0) /\ ~threw /\ SomethingAwaited(c0)
      /\ c.ctx = c0.ctx /\ c.callbacks = c0.callbacks /\ c.alert = c0.alert /\ c.dialog = c0.dialog
      /\ c.modalCount = 0 /\ c.pending = 0 /\ c.exitHandler = c0.exitHandler
      /\ c.runningMain = (c0.runningMain /\ f.kind # "main")
  BY <1>1, <1>2 DEF CallOver
<1>6. ~c.runningMain
  BY <1>1, <1>5
<1>7. Settled(c)
  BY <1>1, <1>5, <1>6 DEF Settled, HandlersOnHeap
<1>8. outcome \notin {"TIMEOUT", "CLOSING", "HAD_ERROR"} => ~Abrupt(c)
  <2> SUFFICES ASSUME outcome \notin {"TIMEOUT", "CLOSING", "HAD_ERROR"} PROVE ~Abrupt(c)
    OBVIOUS
  <2>1. "TIMEOUT" \notin c0.status /\ "CLOSING" \notin c0.status
    BY <1>2 DEF CallOver
  <2>2. ~(threw /\ ~Interrupted(c0))
    BY <1>2 DEF CallOver
  <2>3. c.status = c0.status
    BY <1>2, <2>2 DEF CallOver
  <2> QED BY <1>1, <2>1, <2>3 DEF Abrupt
<1>9. c.waiting => ~Abrupt(c)
  BY <1>1, <1>2 DEF CallOver, Abrupt, Interrupted, Interrupts
<1>10. outcome = "MORETODO" => c.waiting
  BY <1>2 DEF CallOver, Interrupts
<1>11. CASE f.kind = "exit"
  <2>1. ExitEnds(c, <<>>, outcome, f.reason)
    BY <1>4, <1>11
  <2> DEFINE left == [c EXCEPT !.status = @ \ {"INEXIT"}]
  <2>2. left \in Console
    BY <1>5, FieldTypes
  <2>3. ClearDown(left, <<>>) \/ Finish(left, <<>>, f.reason)
    BY <2>1 DEF ExitEnds
  <2> HIDE DEF left
  <2>4. stack' = <<>> /\ con'.ctx = NoHeap
    BY <2>2, <2>3, ClearDownLife, FinishLife
  <2> QED BY <1>11, <2>4 DEF Over, EndsWell, EndsBadly
<1>12. ASSUME NEW d, d \in {c, Asked(c)}, WrapUp(d, <<>>, outcome), f.kind # "exit"
       PROVE  Over(c0.exitHandler, f.kind)
  <2>1. /\ d \in Console /\ d.ctx = c.ctx /\ d.callbacks = c.callbacks
        /\ d.runningMain = c.runningMain /\ d.dialog = c.dialog /\ d.status = c.status
        /\ d.modalCount = c.modalCount /\ d.pending = c.pending
        /\ d.exitHandler = c.exitHandler
    BY <1>5, <1>12, AskedFields
  <2>2. Settled(d) /\ (Abrupt(d) <=> Abrupt(c))
    BY <1>7, <2>1 DEF Settled, HandlersOnHeap, Abrupt
  <2>3. \/ outcome = "MORETODO" /\ Waits(d.exitHandler)
        \/ outcome \in {"TIMEOUT", "CLOSING", "HAD_ERROR"} /\ EndsBadly
        \/ outcome \notin {"MORETODO", "TIMEOUT", "CLOSING", "HAD_ERROR"}
           /\ RunsOut(d.exitHandler)
    BY <1>5, <1>8, <1>12, <2>2, WrapUpLife
  <2> QED BY <1>5, <1>12, <2>1, <2>3 DEF Over
<1>13. CASE f.kind = "dialogue"
  BY <1>4, <1>12, <1>13
<1>14. CASE f.kind \in {"main", "callback"}
  <2> DEFINE d == Asked(c)
  <2>1. WrapUpUnlessBusy(c, <<>>, outcome) /\ AskedBusy(c) = d
    BY <1>4, <1>6, <1>14 DEF AskedBusy
  <2>2. CASE IsBusy(c)
    <3>1. Becomes(d, <<>>)
      BY <2>1, <2>2 DEF WrapUpUnlessBusy
    <3>2. d.ctx = c.ctx /\ d.exitHandler = c.exitHandler /\ d.status = c.status
      BY <1>5, AskedFields
    <3>3. ~Abrupt(c)
      BY <1>5, <1>6, <1>9, <2>2 DEF IsBusy, IsWaiting
    <3> HIDE DEF d
    <3> QED BY <1>1, <1>5, <1>14, <3>1, <3>2, <3>3 DEF Becomes, Abrupt, Over, Waits
  <2>3. CASE ~IsBusy(c)
    <3>1. WrapUp(d, <<>>, outcome)
      BY <2>1, <2>3 DEF WrapUpUnlessBusy
    <3> QED BY <1>12, <1>14, <3>1
  <2> QED BY <2>2, <2>3
<1> QED BY <1>1, <1>11, <1>13, <1>14 DEF Frame

\* The only call in progress fails.
LEMMA AloneThrowsLife ==
    ASSUME Practices = {}, NEW c, NEW s, Alone(c, s), FrameEnds(c, s, TRUE)
    PROVE  Over(c.exitHandler, s[1].kind)
<1>1. s # <<>> /\ Len(s) = 1
  <2>1. s \in Seq(Frame) /\ Len(s) = 1
    BY DEF Alone
  <2> QED BY <2>1, EmptySeq
<1>2. Ready(c, s, TRUE)
  BY <1>1 DEF Alone, Ready, Shape, ModalsCounted, InCountedMain
<1> QED BY <1>1, <1>2, OuterEndLife

-----------------------------------------------------------------------------
(* Steps of running JavaScript *)

ScriptGoesOn == GoesOn \/ (Len(stack) = 1 /\ Over(con.exitHandler, stack[1].kind))

\* What the script relies on while it runs.
LEMMA JSLifeFacts ==
    ASSUME TypeOK, IInv, LifeInv, JS
    PROVE  /\ "CLOSING" \notin con.status
           /\ con.timed \/ Modals \cap {"dialogue", "file"} # {}
           /\ stack[1].modal # "no" => stack[1].modal \in Modals
<1>1. open /\ con.ctx \in Heaps /\ JSRunning
  BY JSFacts DEF JS
<1>2. con.ctx # NoHeap
  BY <1>1, NoHeapAssumption
<1> QED BY <1>1, <1>2 DEF LifeInv, InModalMain, JSRunning

\* Setting what the end of a call does not depend on, and handlers of exit.
LEMMA SetsLife ==
    ASSUME TypeOK, IInv, LifeInv, JS, NEW d, Sets(d),
           d.ctx = con.ctx, d.exitHandler = con.exitHandler \/ d.exitHandler # NoHeap,
           "CLOSING" \notin d.status, d.timed = con.timed
    PROVE  ScriptGoesOn
<1>1. stack # <<>> /\ con.ctx \in Heaps
  BY JSFacts
<1>2. con' = d /\ stack' = stack
  BY DEF Sets, Becomes
<1>3. Kept
  BY <1>1, <1>2, JSLifeFacts DEF Kept, InModalMain
<1> QED BY <1>1, <1>2, <1>3 DEF ScriptGoesOn, GoesOn

\* The innermost call fails when it is the only one.
LEMMA FailLife ==
    ASSUME Practices = {}, Alone(con, stack),
           NEW d, Alone(d, stack), d.exitHandler = con.exitHandler, FrameEnds(d, stack, TRUE)
    PROVE  ScriptGoesOn
<1>1. Len(stack) = 1
  BY DEF Alone
<1> QED BY <1>1, AloneThrowsLife DEF ScriptGoesOn

\* What a call throws is not caught.
LEMMA ApiThrowLife ==
    ASSUME Practices = {}, Alone(con, stack),
           NEW d, Alone(d, stack), d.exitHandler = con.exitHandler, ApiThrow(d, stack)
    PROVE  ScriptGoesOn
<1> DEFINE e == PrepForThrow(d)
<1>1. FrameEnds(e, stack, TRUE)
  BY DEF ApiThrow, Thrown
<1>2. e.exitHandler = d.exitHandler
  BY DEF Alone, PrepForThrow, Console
<1>3. Alone(e, stack)
  BY AloneKept
<1> HIDE DEF e
<1> QED BY <1>1, <1>2, <1>3, FailLife

LEMMA TooManyLife ==
    ASSUME Practices = {}, TypeOK, IInv, JS, TooManyCallbacks
    PROVE  ScriptGoesOn
<1>1. ApiThrow(ClearCallbacks(con), Dismissed(stack, con.dialog))
  BY DEF TooManyCallbacks
<1>2. Alone(con, stack) /\ Dismissed(stack, con.dialog) = stack
  BY <1>1, FailuresAreAlone DEF ApiThrow
<1>3. ClearCallbacks(con).exitHandler = con.exitHandler
  BY <1>2, ClearCallbacksFields DEF Alone
<1> QED BY <1>1, <1>2, <1>3, AloneKept, ApiThrowLife

LEMMA ErrorsLife ==
    ASSUME Practices = {}, TypeOK, IInv, ApiError \/ ScriptError
    PROVE  ScriptGoesOn
<1>1. JS /\ MayFail
  BY DEF ApiError, ScriptError, ApiThrow
<1>2. Alone(con, stack)
  BY <1>1, FailuresAreAlone
<1> QED BY <1>2, ApiThrowLife, FailLife DEF ApiError, ScriptError

\* A nested call ends: main is where it was.
LEMMA NestedLife ==
    ASSUME TypeOK, IInv, LifeInv, JS, NEW d, NEW threw \in BOOLEAN, Len(stack) = 2,
           Ready(d, stack, threw), FrameEnds(d, stack, threw),
           d.ctx = con.ctx, d.exitHandler = con.exitHandler, "CLOSING" \notin d.status
    PROVE  ScriptGoesOn
<1>1. stack[1].modal # "no" => stack[1].modal \in Modals
  BY JSLifeFacts
<1>2. con.ctx \in Heaps
  BY JSFacts
<1> QED BY <1>1, <1>2, NestedEndLife DEF ScriptGoesOn, GoesOn

LEMMA InterruptLife ==
    ASSUME Practices = {}, TypeOK, IInv, LifeInv, JS, NEW why \in {"TIMEOUT", "TOCHAIN"},
           FrameEnds([con EXCEPT !.status = @ \cup {why}], stack, TRUE)
    PROVE  ScriptGoesOn
<1> DEFINE S == con.status \cup {why}
           c == [con EXCEPT !.status = S]
<1>1. con \in Console /\ S \in SUBSET Completions /\ "HAD_ERROR" \notin S
  BY JSFacts, FieldTypes DEF Completions
<1>2. FrameEnds(c, stack, TRUE)
  OBVIOUS
<1>3. c \in Console /\ c.status = S /\ c.ctx = con.ctx /\ c.exitHandler = con.exitHandler
  BY <1>1, StatusFields
<1>4. CASE Alone(con, stack)
  <2>1. Alone(c, stack)
    BY <1>1, <1>4, AloneKept
  <2> HIDE DEF c
  <2> QED BY <1>2, <1>3, <1>4, <2>1, FailLife
<1>5. CASE ~Alone(con, stack)
  <2>1. Len(stack) = 2 /\ Good(con, stack) /\ con.ctx \in Heaps /\ stack # <<>>
        /\ stack \in Seq(Frame) /\ Top.modal = "no"
    BY <1>5, JSFacts
  <2> HIDE DEF S
  <2>2. Good(c, stack)
    BY <1>1, <2>1, GoodStatus
  <2>3. Interrupted(c) /\ "HAD_ERROR" \notin c.status /\ "CLOSING" \notin c.status
    BY <1>1, <1>3, JSLifeFacts DEF Interrupted, Interrupts, S
  <2> HIDE DEF c
  <2>4. c.pending = 0 /\ c.dialog \in {0, 1}
    <3>1. c.pending \in Nat /\ c.ctx # NoHeap
      BY <1>3, <2>1, FieldTypes, NoHeapAssumption
    <3> QED BY <2>2, <3>1 DEF Good, RequestsWait, BoxIsRecorded
  <2>5. Ready(c, stack, TRUE)
    BY <1>3, <2>1, <2>2, <2>3, <2>4 DEF Ready, Good, Top
  <2> QED BY <1>2, <1>3, <2>1, <2>3, <2>5, NestedLife
<1> QED BY <1>4, <1>5

LEMMA ReturnLife ==
    ASSUME Practices = {}, TypeOK, IInv, LifeInv, Return
    PROVE  ScriptGoesOn
<1>1. JS /\ FrameEnds(con, stack, FALSE)
  BY DEF Return
<1>2. Ready(con, stack, FALSE)
  BY <1>1, ReadyToReturn
<1>3. CASE Len(stack) = 1
  BY <1>1, <1>2, <1>3, OuterEndLife DEF ScriptGoesOn
<1>4. CASE Len(stack) = 2
  BY <1>1, <1>2, <1>4, NestedLife, JSLifeFacts
<1> QED BY <1>1, <1>3, <1>4, JSFacts

LEMMA InterruptsLife ==
    ASSUME Practices = {}, TypeOK, IInv, LifeInv, Timeout \/ ChainScript
    PROVE  ScriptGoesOn
<1>1. JS /\ \E why \in {"TIMEOUT", "TOCHAIN"} :
                FrameEnds([con EXCEPT !.status = @ \cup {why}], stack, TRUE)
  BY DEF Timeout, ChainScript, Thrown
<1> QED BY <1>1, InterruptLife

LEMMA RegisterLife ==
    ASSUME Practices = {}, TypeOK, IInv, LifeInv,
           NEW type \in Types, NEW persistant \in BOOLEAN, Register(type, persistant)
    PROVE  ScriptGoesOn
<1>1. JS
  BY DEF Register
<1>2. con \in Console
  BY <1>1, JSFacts
<1>3. CASE ApiThrow(con, stack)
  <2>1. Alone(con, stack)
    BY <1>1, <1>3, FailuresAreAlone DEF ApiThrow
  <2> QED BY <1>3, <2>1, ApiThrowLife
<1>4. CASE TooManyCallbacks
  BY <1>1, <1>4, TooManyLife
<1>5. CASE \E id \in FreeIds :
             Sets(AddEntry(con, [id |-> id, type |-> type, persistant |-> persistant,
                                 heap |-> Top.heap]))
  <2>1. PICK e : Sets(AddEntry(con, e))
    BY <1>5
  <2> DEFINE d == AddEntry(con, e)
  <2>2. d.ctx = con.ctx /\ d.exitHandler = con.exitHandler /\ d.status = con.status
        /\ d.timed = con.timed
    BY <1>2 DEF AddEntry, Console
  <2>3. Sets(d)
    BY <2>1
  <2> HIDE DEF d
  <2> QED BY <1>1, <2>2, <2>3, SetsLife, JSLifeFacts
<1> QED BY <1>3, <1>4, <1>5 DEF Register

\* Cancelling callbacks, the alert, and showing one.
LEMMA CancelLife ==
    ASSUME TypeOK, IInv, LifeInv, NEW S, Cancel(S)
    PROVE  ScriptGoesOn
<1> DEFINE d == RemoveEntries(con, S)
<1>1. JS /\ Sets(d)
  BY DEF Cancel
<1>2. d.ctx = con.ctx /\ d.exitHandler = con.exitHandler /\ d.status = con.status
      /\ d.timed = con.timed
  BY <1>1, JSFacts DEF RemoveEntries, Console
<1> HIDE DEF d
<1> QED BY <1>1, <1>2, SetsLife, JSLifeFacts

LEMMA AlertLife ==
    ASSUME TypeOK, IInv, LifeInv, Alert \/ CancelAlert
    PROVE  ScriptGoesOn
<1>1. JS /\ \E d \in {ShowAlert(con), ClearAlert(con)} : Sets(d)
  BY DEF Alert, CancelAlert
<1>2. PICK d \in {ShowAlert(con), ClearAlert(con)} : Sets(d)
  BY <1>1
<1>3. d.ctx = con.ctx /\ d.exitHandler = con.exitHandler /\ d.status = con.status
      /\ d.timed = con.timed
  BY <1>1, <1>2, JSFacts DEF ShowAlert, ClearAlert, Console
<1> QED BY <1>1, <1>2, <1>3, SetsLife, JSLifeFacts

LEMMA OnExitLife ==
    ASSUME Practices = {}, TypeOK, IInv, LifeInv, OnExit
    PROVE  ScriptGoesOn
<1>1. JS
  BY DEF OnExit
<1>2. con \in Console /\ Top.heap = con.ctx /\ con.ctx # NoHeap
  BY <1>1, JSFacts, NoHeapAssumption
<1>3. CASE ApiThrow(con, stack)
  BY <1>1, <1>3, FailuresAreAlone, ApiThrowLife DEF ApiThrow
<1>4. CASE Sets([con EXCEPT !.exitHandler = Top.heap])
  <2> DEFINE d == [con EXCEPT !.exitHandler = Top.heap]
  <2>1. d.ctx = con.ctx /\ d.exitHandler = con.ctx /\ d.status = con.status
        /\ d.timed = con.timed
    BY <1>2 DEF Console
  <2>2. Sets(d)
    BY <1>4
  <2> HIDE DEF d
  <2> QED BY <1>1, <1>2, <2>1, <2>2, SetsLife, JSLifeFacts
<1> QED BY <1>3, <1>4 DEF OnExit

LEMMA StopScriptLife ==
    ASSUME Practices = {}, TypeOK, IInv, LifeInv, StopScript
    PROVE  ScriptGoesOn
<1> DEFINE S == con.status \cup {"STOPPED"}
           c == [con EXCEPT !.status = S]
<1>1. JS
  BY DEF StopScript
<1>2. con \in Console /\ "HAD_ERROR" \notin S /\ "CLOSING" \notin S /\ S \in SUBSET Completions
  BY <1>1, JSFacts, JSLifeFacts, FieldTypes DEF Completions
<1>3. c.timed = con.timed
  BY <1>2 DEF Console
<1> HIDE DEF S
<1>4. \/ Sets(c)
      \/ con.modalCount <= 0
         /\ \/ ApiThrow(c, stack)
            \/ Thrown(ClearCallbacks(c), Dismissed(stack, con.dialog))
  <2>1. con.modalCount > 0 \/ con.modalCount <= 0
    <3>1. con.modalCount \in Int
      BY <1>2, FieldTypes
    <3> QED BY <3>1
  <2> QED BY <2>1 DEF StopScript, S
<1>5. c \in Console /\ c.ctx = con.ctx /\ c.status = S /\ c.exitHandler = con.exitHandler
  BY <1>2, StatusFields
<1>6. CASE Sets(c)
  <2> HIDE DEF c
  <2> QED BY <1>1, <1>2, <1>3, <1>5, <1>6, SetsLife
<1>7. CASE /\ con.modalCount <= 0
           /\ \/ ApiThrow(c, stack)
              \/ Thrown(ClearCallbacks(c), Dismissed(stack, con.dialog))
  <2>1. Alone(con, stack) /\ Dismissed(stack, con.dialog) = stack
    <3>1. ~Prompting(stack)
      BY DEF StopScript
    <3> QED BY <1>1, <1>7, <3>1, JSFacts
  <2>2. Alone(c, stack)
    BY <1>2, <2>1, AloneKept
  <2> HIDE DEF c
  <2>3. Alone(ClearCallbacks(c), stack) /\ ClearCallbacks(c).exitHandler = c.exitHandler
    BY <1>5, <2>2, AloneKept, ClearCallbacksFields
  <2>4. ApiThrow(c, stack) \/ FrameEnds(ClearCallbacks(c), stack, TRUE)
    BY <1>7, <2>1 DEF Thrown
  <2> QED BY <1>5, <2>1, <2>2, <2>3, <2>4, ApiThrowLife, FailLife
<1> QED BY <1>4, <1>6, <1>7

\* Opening a modal dialogue suspends main.
LEMMA InModalLife ==
    ASSUME Practices = {}, TypeOK, IInv, LifeInv,
           NEW modal \in {"message", "dialogue", "file"}, MayGoModal(modal),
           NEW id \in Ids \cup {NoId}, NEW d, Becomes(d, InModal(modal, id)),
           d.ctx = con.ctx, d.status = con.status, d.exitHandler = con.exitHandler
    PROVE  ScriptGoesOn
<1> DEFINE t == InModal(modal, id)
<1>1. JS /\ Alone(con, stack)
  BY MayGoModalFacts
<1>2. stack \in Seq(Frame) /\ Len(stack) = 1 /\ con.ctx \in Heaps
  BY <1>1 DEF Alone
<1>3. Len(t) = 1 /\ t # <<>> /\ t[1].modal = modal /\ t[1].kind = stack[1].kind
  BY <1>2, InModalFacts
<1>4. con' = d /\ stack' = t /\ modal \in Modals
  BY DEF Becomes, MayGoModal
<1> HIDE DEF t
<1>5. Kept
  BY <1>3, <1>4 DEF Kept, InModalMain
<1>6. "CLOSING" \notin con.status
  BY <1>1, JSLifeFacts
<1> QED BY <1>2, <1>3, <1>4, <1>5, <1>6 DEF ScriptGoesOn, GoesOn

LEMMA ModalsLife ==
    ASSUME Practices = {}, TypeOK, IInv, LifeInv, MessageBox \/ ModalDialogue \/ FilePrompt
    PROVE  ScriptGoesOn
<1>1. JS /\ con \in Console /\ \E modal : MayGoModal(modal)
  BY JSFacts DEF MessageBox, ModalDialogue, FilePrompt, MayGoModal
<1>2. CASE MessageBox
  <2> DEFINE boxed == [con EXCEPT !.dialog = Len(stack)]
             d == [con EXCEPT !.dialog = Len(stack), !.modalCount = @ + 1]
  <2>1. MayGoModal("message") /\ Becomes(d, InModal("message", NoId))
    BY <1>2 DEF MessageBox
  <2>2. d.ctx = con.ctx /\ d.status = con.status /\ d.exitHandler = con.exitHandler
    BY <1>1 DEF Console
  <2> HIDE DEF d
  <2> QED BY <2>1, <2>2, InModalLife
<1>3. CASE ModalDialogue /\ ~TooManyCallbacks
  <2>1. PICK id \in FreeIds :
          LET e == [id |-> id, type |-> "CB_DIALOGUE", persistant |-> FALSE, heap |-> Top.heap]
          IN  Becomes([con EXCEPT !.callbacks = @ \cup {e}, !.modalCount = @ + 1],
                      InModal("dialogue", id))
    BY <1>3 DEF ModalDialogue
  <2> DEFINE e == [id |-> id, type |-> "CB_DIALOGUE", persistant |-> FALSE, heap |-> Top.heap]
             d == [con EXCEPT !.callbacks = @ \cup {e}, !.modalCount = @ + 1]
  <2>2. MayGoModal("dialogue") /\ Becomes(d, InModal("dialogue", id)) /\ id \in Ids
    BY <1>3, <2>1 DEF ModalDialogue, FreeIds
  <2>3. d.ctx = con.ctx /\ d.status = con.status /\ d.exitHandler = con.exitHandler
    BY <1>1 DEF Console
  <2> HIDE DEF d
  <2> QED BY <2>2, <2>3, InModalLife
<1>4. CASE TooManyCallbacks
  BY <1>1, <1>4, TooManyLife
<1>5. CASE FilePrompt
  BY <1>5, InModalLife DEF FilePrompt
<1> QED BY <1>2, <1>3, <1>4, <1>5

LEMMA ScriptStepsLife ==
    ASSUME Practices = {}, TypeOK, IInv, LifeInv,
           \/ ApiError \/ ScriptError \/ Timeout \/ Return \/ CancelOne
           \/ \E type \in Types, persistant \in BOOLEAN : Register(type, persistant)
           \/ \E type \in Types : CancelType(type)
           \/ Alert \/ CancelAlert \/ OnExit \/ StopScript \/ ChainScript
           \/ MessageBox \/ ModalDialogue \/ FilePrompt
    PROVE  ScriptGoesOn
<1>1. CASE CancelOne
  BY <1>1, CancelLife DEF CancelOne
<1>2. CASE \E type \in Types : CancelType(type)
  BY <1>2, CancelLife DEF CancelType
<1> QED BY <1>1, <1>2, ErrorsLife, InterruptsLife, ReturnLife, RegisterLife, AlertLife,
           OnExitLife, StopScriptLife, ModalsLife

-----------------------------------------------------------------------------
(* Steps of the event loop *)

\* What an event may make of a script that waits, and of no script.
WaiterGoesOn ==
    \/ Waits(con.exitHandler)
    \/ RunsOut(con.exitHandler)
    \/ \E kind \in {"callback", "dialogue"} : Calls(kind) /\ con'.exitHandler = con.exitHandler

Starts == Calls("main") /\ con'.exitHandler = NoHeap /\ con'.runningMain

StaysIdle ==
    stack' = <<>> /\ con'.ctx = NoHeap /\ con'.status = con.status /\ con'.pending >= con.pending

LoopGoesOn ==
    IF stack # <<>> THEN ScriptGoesOn
    ELSE IF con.ctx # NoHeap THEN WaiterGoesOn ELSE Starts \/ StaysIdle

\* Between events, and under a modal dialogue, nothing says CLOSING.
LEMMA LoopLifeFacts ==
    ASSUME TypeOK, IInv, LifeInv, open, InEventLoop
    PROVE  /\ con.ctx # NoHeap => "CLOSING" \notin con.status
           /\ con.ctx # NoHeap /\ stack = <<>> =>
                ~Abrupt(con) /\ Settled(con) /\ con.label = "Stop"
           /\ stack # <<>> => con.ctx \in Heaps /\ con.ctx # NoHeap
           /\ stack # <<>> => stack[1].modal \in Modals
<1>1. con \in Console /\ Good(con, stack) /\ (stack = <<>> \/ ModalMain)
  BY LoopFacts
<1>2. con.ctx # NoHeap /\ stack = <<>> => Settled(con) /\ con.label = "Stop"
                                        /\ "HAD_ERROR" \notin con.status
  BY <1>1, IdleFacts
<1>3. stack # <<>> => con.ctx \in Heaps /\ con.ctx # NoHeap
  BY <1>1, NoHeapAssumption DEF ModalMain
<1>4. stack # <<>> => stack[1].modal \in Modals
  BY <1>1 DEF LifeInv, InModalMain, ModalMain
<1> QED BY <1>2, <1>3, <1>4 DEF LifeInv, Abrupt

LEMMA RunScriptLife ==
    ASSUME NEW c \in Console, stack = <<>>, RunScript(c)
    PROVE  Starts
<1>1. PICK h \in Heaps : Becomes(BeforeMain(c, h), Append(stack, NewFrame("main", h, "DONE")))
  BY DEF RunScript
<1> DEFINE f == NewFrame("main", h, "DONE")
           d == BeforeMain(c, h)
<1>2. f.kind = "main" /\ f.modal = "no"
  BY DEF NewFrame
<1>3. con' = d /\ stack' = Append(<<>>, f)
  BY <1>1 DEF Becomes
<1> HIDE DEF f
<1>4. stack' = <<f>> /\ Len(<<f>>) = 1 /\ <<f>>[1] = f /\ <<f>> # <<>>
  BY <1>3
<1>5. d.ctx = h /\ d.runningMain /\ d.status = {} /\ d.exitHandler = NoHeap
  BY BeforeMainFields
<1>6. d.timed
  <2> DEFINE e == [ConsoleReset(c) EXCEPT !.ctx = h, !.label = "Stop", !.runningMain = TRUE]
  <2>1. e \in Console
    <3>1. ConsoleReset(c) \in Console
      BY NewConsoleType DEF ConsoleReset, Console
    <3> QED BY <3>1 DEF Console
  <2>2. d = StartTimeout(e)
    BY DEF BeforeMain
  <2> HIDE DEF d, e
  <2> QED BY <2>1, <2>2 DEF StartTimeout, Console
<1> HIDE DEF d
<1> QED BY <1>2, <1>3, <1>4, <1>5, <1>6 DEF Starts, Calls

\* The Stop button, and a request that finds the script running.
LEMMA StopRunLife ==
    ASSUME Practices = {}, stack = <<>>, Settled(con), StopRun(con)
    PROVE  RunsOut(con.exitHandler)
<1> DEFINE S == {}
           d == [con EXCEPT !.status = S]
<1>1. WrapUp(d, <<>>, "STOPPED")
  BY DEF StopRun
<1>2. S \in SUBSET Completions /\ "STOPPED" \in Completions
  BY DEF Completions
<1> HIDE DEF S
<1>3. con \in Console
  BY DEF Settled
<1>4. /\ d \in Console /\ d.status = S /\ d.ctx = con.ctx /\ d.callbacks = con.callbacks
      /\ d.exitHandler = con.exitHandler /\ d.pending = con.pending
      /\ d.modalCount = con.modalCount /\ d.runningMain = con.runningMain
      /\ d.dialog = con.dialog
  BY <1>2, <1>3, StatusFields
<1> HIDE DEF d
<1>5. Settled(d) /\ ~Abrupt(d)
  BY <1>4 DEF Settled, HandlersOnHeap, Abrupt, S
<1> QED BY <1>1, <1>2, <1>4, <1>5, WrapUpLife

LEMMA RunClickedLife ==
    ASSUME Practices = {}, TypeOK, IInv, LifeInv, RunClicked
    PROVE  LoopGoesOn
<1>1. stack = <<>> /\ open /\ InEventLoop /\ con \in Console /\ Good(con, <<>>)
  BY DEF RunClicked, UserEvent, Event, Running, TypeOK, IInv
<1>2. CASE con.label = "Run"
  <2>1. Starts
    BY <1>1, <1>2, RunScriptLife DEF RunClicked
  <2>2. con.ctx = NoHeap
    BY <1>1, <1>2, LoopLifeFacts
  <2> QED BY <1>1, <2>1, <2>2 DEF LoopGoesOn
<1>3. CASE con.label # "Run"
  <2>1. con.ctx # NoHeap
    BY <1>1, <1>3, IdleFacts
  <2>2. Settled(con) /\ StopRun(con)
    BY <1>1, <1>3, <2>1, LoopLifeFacts DEF RunClicked
  <2> QED BY <1>1, <2>1, <2>2, StopRunLife DEF LoopGoesOn, WaiterGoesOn
<1> QED BY <1>2, <1>3

LEMMA RunQueuedLife ==
    ASSUME Practices = {}, TypeOK, IInv, RunQueued
    PROVE  LoopGoesOn
<1> DEFINE c == [con EXCEPT !.pending = @ - 1]
<1>1. open /\ con \in Console /\ Good(con, stack) /\ con.pending > 0
  BY DEF RunQueued, Event, Running, TypeOK, IInv
<1>2. con.ctx = NoHeap /\ stack = <<>> /\ con.label = "Run"
  BY <1>1 DEF Good, RequestsWait, DeadIsClear
<1>3. con.pending = 1
  BY <1>1, <1>2, IdleFacts
<1>4. RunScript(c)
  BY <1>2 DEF RunQueued
<1>5. c \in Console
  <2>1. con.pending - 1 = 0 /\ 0 \in Nat
    BY <1>3
  <2>2. c = [con EXCEPT !.pending = 0]
    BY <2>1, Zenon
  <2> QED BY <1>1, <2>1, <2>2, PendingFields
<1> HIDE DEF c
<1> QED BY <1>2, <1>4, <1>5, RunScriptLife DEF LoopGoesOn

LEMMA RunRequestedLife ==
    ASSUME Practices = {}, TypeOK, IInv, RunRequested
    PROVE  LoopGoesOn
<1>1. open /\ InEventLoop
  BY DEF RunRequested, Event, Running
<1>2. con \in Console /\ Good(con, stack) /\ (stack = <<>> \/ ModalMain)
  BY <1>1, LoopFacts
<1>3. stack = <<>> /\ con.ctx = NoHeap
  <2>1. con.ctx = NoHeap \/ ~IsBusy(con)
    BY DEF RunRequested
  <2>2. ~ModalMain
    BY <2>1, NoHeapAssumption DEF ModalMain, IsBusy
  <2>3. ~IsBusy(con) => ~SomethingAwaited(con)
    BY <1>2, <2>2, IdleFacts DEF IsBusy
  <2> QED BY <1>2, <2>1, <2>2, <2>3, IdleFacts
<1>4. PICK c \in {con, AskedBusy(con)} : Sets([c EXCEPT !.pending = @ + 1])
  BY DEF RunRequested
<1>5. c \in Console /\ c.ctx = con.ctx /\ c.status = con.status /\ c.pending = con.pending
  <2>1. AskedBusy(con) = Asked(con)
    BY <1>2, <1>3, IdleFacts DEF AskedBusy
  <2> QED BY <1>2, <1>4, <2>1, AskedFields
<1> DEFINE d == [c EXCEPT !.pending = @ + 1]
<1>6. d.ctx = con.ctx /\ d.status = con.status /\ d.pending = con.pending + 1
  BY <1>5 DEF Console
<1>7. con' = d /\ stack' = stack
  BY <1>4 DEF Sets, Becomes
<1> HIDE DEF d
<1>8. con'.pending >= con.pending
  <2>1. con.pending \in Nat
    BY <1>2, FieldTypes
  <2> QED BY <1>6, <1>7, <2>1
<1> QED BY <1>3, <1>6, <1>7, <1>8 DEF LoopGoesOn, StaysIdle

\* A callback called under a modal dialogue leaves main where it is.
LEMMA CallUnderModalLife ==
    ASSUME NEW c \in Console, ModalMain, stack \in Seq(Frame),
           "CLOSING" \notin c.status, c.ctx = con.ctx, c.exitHandler = con.exitHandler,
           stack[1].modal \in Modals,
           Call(c, stack, NewFrame("callback", con.ctx, "DONE"))
    PROVE  GoesOn
<1> DEFINE f == NewFrame("callback", con.ctx, "DONE")
           d == BeforeCall(c)
           t == Append(stack, f)
<1>1. f \in Frame
  BY FrameTypes DEF NewFrame, ModalMain, Completions
<1>2. con' = d /\ stack' = t
  BY DEF Call
<1> HIDE DEF f
<1>3. d.ctx = c.ctx /\ d.exitHandler = c.exitHandler /\ d.status \subseteq c.status
  BY BeforeCallFields
<1>4. d.timed
  <2> DEFINE e == StartTimeout(c)
  <2>1. e \in Console /\ e.timed
    BY SimpleMethodTypes DEF StartTimeout, Console
  <2>2. d = [e EXCEPT !.waitingCached = FALSE]
    BY DEF BeforeCall
  <2> HIDE DEF d, e
  <2> QED BY <2>1, <2>2 DEF Console
<1> HIDE DEF d
<1>5. t # <<>> /\ t[1] = stack[1]
  <2>1. Len(stack) = 1
    BY DEF ModalMain
  <2>2. t \in Seq(Frame) /\ Len(t) = Len(stack) + 1
    BY <1>1, AppendProperties
  <2>3. \A i \in 1..Len(stack) : t[i] = stack[i]
    BY <1>1, AppendProperties
  <2> HIDE DEF t
  <2>4. Len(<<>>) = 0 /\ Len(t) # 0 /\ 1 \in 1..Len(stack)
    BY <2>1, <2>2
  <2> QED BY <2>3, <2>4, Zenon
<1> HIDE DEF t
<1>6. Kept
  BY <1>2, <1>4, <1>5 DEF Kept, InModalMain
<1>7. con.ctx \in Heaps
  BY DEF ModalMain
<1> QED BY <1>2, <1>3, <1>5, <1>6, <1>7 DEF GoesOn

\* The handler of an entry is called, between events or under main's dialogue.
LEMMA HandleLife ==
    ASSUME Practices = {}, TypeOK, IInv, LifeInv, open, InEventLoop,
           NEW c0 \in {con, Asked(con)},
           NEW e \in con.callbacks, NEW kind \in {"callback", "dialogue"},
           stack = <<>> \/ kind = "callback", Handle(c0, e, kind)
    PROVE  LoopGoesOn
<1> DEFINE c == TakeEntry(c0, e)
<1>1. con \in Console /\ stack \in Seq(Frame) /\ Good(con, stack) /\ (stack = <<>> \/ ModalMain)
  BY LoopFacts
<1>2. /\ c0 \in Console /\ c0.ctx = con.ctx /\ c0.callbacks = con.callbacks
      /\ c0.status = con.status /\ c0.exitHandler = con.exitHandler
  BY <1>1, AskedFields
<1>3. c \in Console /\ c.ctx = con.ctx /\ c.status = con.status
      /\ c.exitHandler = con.exitHandler
  BY <1>2, TakeEntryFields
<1>4. con.ctx # NoHeap /\ e.heap = con.ctx /\ "HAD_ERROR" \notin con.status
  BY <1>1 DEF Good, HandlersOnHeap, DeadIsClear, NoErrorYet
<1>5. Call(c, stack, NewFrame(kind, con.ctx, "DONE"))
  BY <1>3, <1>4 DEF Handle, IsRefused
<1>6. "CLOSING" \notin con.status /\ con.ctx \in Heaps
  BY <1>1, <1>4, LoopLifeFacts DEF Console
<1> HIDE DEF c
<1>7. CASE stack = <<>>
  <2>1. Calls(kind) /\ con'.exitHandler = c.exitHandler
    BY <1>3, <1>5, <1>6, <1>7, CallLife
  <2> QED BY <1>3, <1>4, <1>7, <2>1 DEF LoopGoesOn, WaiterGoesOn
<1>8. CASE stack # <<>>
  <2>1. ModalMain /\ kind = "callback" /\ stack[1].modal \in Modals
    BY <1>1, <1>8, LoopLifeFacts
  <2>2. GoesOn
    BY <1>1, <1>3, <1>5, <1>6, <2>1, CallUnderModalLife
  <2> QED BY <1>8, <2>2 DEF LoopGoesOn, ScriptGoesOn
<1> QED BY <1>7, <1>8

\* Asking whether the script waits changes nothing of its life.
LEMMA AskedLife ==
    ASSUME TypeOK, IInv, LifeInv, open, InEventLoop, con.ctx # NoHeap, Sets(Asked(con))
    PROVE  LoopGoesOn
<1>1. con \in Console /\ (stack = <<>> \/ ModalMain)
  BY LoopFacts
<1> DEFINE d == Asked(con)
<1>2. d.ctx = con.ctx /\ d.exitHandler = con.exitHandler /\ d.status = con.status
  BY <1>1, AskedFields
<1>3. con' = d /\ stack' = stack
  BY DEF Sets, Becomes
<1> HIDE DEF d
<1>4. CASE stack = <<>>
  BY <1>1, <1>2, <1>3, <1>4, LoopLifeFacts
     DEF LoopGoesOn, WaiterGoesOn, Waits, Abrupt, Settled
<1>5. CASE stack # <<>>
  <2>1. Kept
    <3>1. Len(stack) = 1 /\ stack[1].modal # "no"
      BY <1>1, <1>5 DEF ModalMain
    <3> QED BY <1>3, <1>5, <3>1, LoopLifeFacts DEF Kept, InModalMain
  <2> QED BY <1>2, <1>3, <1>5, <2>1, LoopLifeFacts DEF LoopGoesOn, ScriptGoesOn, GoesOn
<1> QED BY <1>4, <1>5

LEMMA CallbacksLife ==
    ASSUME Practices = {}, TypeOK, IInv, LifeInv, CallbackFires \/ DialogueButton
    PROVE  LoopGoesOn
<1>1. open /\ InEventLoop
  BY DEF CallbackFires, DialogueButton, UserEvent, Event, Running
<1>2. CASE CallbackFires
  <2>1. PICK e \in con.callbacks :
           \/ e.type \in {"CB_TIMER", "CB_MESSAGE"} /\ Handle(con, e, "callback")
           \/ /\ e.type = "CB_NMEA0183"
              /\ IF IsWaiting(con) THEN Handle(Asked(con), e, "callback")
                                   ELSE Sets(Asked(con))
    BY <1>2 DEF CallbackFires
  <2>2. con.ctx # NoHeap
    BY <1>1, LoopFacts DEF Good, DeadIsClear
  <2>3. CASE Sets(Asked(con))
    BY <1>1, <2>2, <2>3, AskedLife
  <2>4. CASE \E c \in {con, Asked(con)} : Handle(c, e, "callback")
    BY <1>1, <2>4, HandleLife
  <2> QED BY <2>1, <2>3, <2>4
<1>3. CASE DialogueButton
  BY <1>1, <1>3, HandleLife DEF DialogueButton, UserEvent
<1> QED BY <1>2, <1>3

LEMMA AlertDismissedLife ==
    ASSUME Practices = {}, TypeOK, IInv, LifeInv, AlertDismissed
    PROVE  LoopGoesOn
<1> DEFINE c == ClearAlert(con)
           d == Asked(c)
<1>1. stack = <<>> /\ open /\ InEventLoop /\ con \in Console /\ Good(con, <<>>) /\ con.alert
  BY DEF AlertDismissed, UserEvent, Event, Running, TypeOK, IInv
<1>2. con.ctx # NoHeap
  BY <1>1 DEF Good, DeadIsClear
<1>3. Settled(con) /\ ~Abrupt(con)
  BY <1>1, <1>2, LoopLifeFacts
<1>4. /\ c \in Console
      /\ c.ctx = con.ctx /\ c.callbacks = con.callbacks
      /\ c.runningMain = con.runningMain /\ c.dialog = con.dialog /\ c.status = con.status
      /\ c.modalCount = con.modalCount /\ c.pending = con.pending
      /\ c.exitHandler = con.exitHandler
  <2>1. c \in Console
    BY <1>1, SimpleMethodTypes
  <2>2. /\ c.ctx = con.ctx /\ c.callbacks = con.callbacks
        /\ c.runningMain = con.runningMain /\ c.dialog = con.dialog /\ c.status = con.status
        /\ c.modalCount = con.modalCount /\ c.pending = con.pending
        /\ c.exitHandler = con.exitHandler
    BY <1>1 DEF ClearAlert, Console
  <2> QED BY <2>1, <2>2
<1>5. IF IsWaiting(c) THEN Sets(d) ELSE WrapUp(d, <<>>, "DONE")
  BY <1>1 DEF AlertDismissed
<1> HIDE DEF c
<1>6. /\ d \in Console
      /\ d.ctx = con.ctx /\ d.callbacks = con.callbacks
      /\ d.runningMain = con.runningMain /\ d.dialog = con.dialog /\ d.status = con.status
      /\ d.modalCount = con.modalCount /\ d.pending = con.pending
      /\ d.exitHandler = con.exitHandler
  BY <1>4, AskedFields
<1> HIDE DEF d
<1>7. Settled(d) /\ ~Abrupt(d)
  BY <1>3, <1>6 DEF Settled, HandlersOnHeap, Abrupt
<1>8. CASE IsWaiting(c)
  BY <1>1, <1>2, <1>3, <1>5, <1>6, <1>7, <1>8
     DEF Sets, Becomes, LoopGoesOn, WaiterGoesOn, Waits, Settled
<1>9. CASE ~IsWaiting(c)
  <2>1. "DONE" \in Completions
    BY DEF Completions
  <2>2. RunsOut(con.exitHandler)
    BY <1>5, <1>6, <1>7, <1>9, <2>1, WrapUpLife
  <2> QED BY <1>1, <1>2, <2>2 DEF LoopGoesOn, WaiterGoesOn
<1> QED BY <1>8, <1>9

\* Answering leaves main suspended.
LEMMA AnswerLife ==
    ASSUME TypeOK, IInv, LifeInv, open, ModalMain, InEventLoop,
           NEW answer \in {"ok", "cancel", "closed"},
           stack' = Answered(stack, 1, answer),
           con'.ctx = con.ctx, con'.exitHandler = con.exitHandler, con'.status = con.status
    PROVE  LoopGoesOn
<1> DEFINE t == Answered(stack, 1, answer)
<1>1. t # <<>> /\ Len(t) = 1 /\ t[1].kind = stack[1].kind /\ t[1].modal = stack[1].modal
  BY AnsweredFacts DEF TypeOK
<1> HIDE DEF t
<1>2. stack' = t /\ stack # <<>> /\ stack[1].modal # "no"
  BY DEF t, ModalMain
<1>3. Kept
  BY <1>1, <1>2, LoopLifeFacts DEF Kept, InModalMain
<1> QED BY <1>1, <1>2, <1>3, LoopLifeFacts DEF LoopGoesOn, ScriptGoesOn, GoesOn

LEMMA ButtonsLife ==
    ASSUME TypeOK, IInv, LifeInv,
           \/ MessageButton("ok") \/ MessageButton("cancel") \/ ModalButton
           \/ PromptButton("ok") \/ PromptButton("cancel")
    PROVE  LoopGoesOn
<1>1. open /\ InEventLoop /\ stack # <<>>
  BY DEF MessageButton, ModalButton, PromptButton, Event, Running
<1>2. con \in Console /\ Good(con, stack) /\ ModalMain
  BY <1>1, LoopFacts
<1>3. ASSUME NEW answer \in {"ok", "cancel"}, MessageButton(answer) PROVE LoopGoesOn
  <2>1. con.dialog = 1
    BY <1>2, <1>3 DEF MessageButton, ModalMain
  <2>2. Becomes(con, Answered(stack, 1, answer))
    BY <1>3, <2>1 DEF MessageButton
  <2> QED BY <1>1, <1>2, <2>2, AnswerLife DEF Becomes
<1>4. CASE ModalButton
  <2> DEFINE d == RemoveEntries(con, {e \in con.callbacks : e.id = Top.entry})
  <2>1. \E e \in con.callbacks : e.id = Top.entry
    BY <1>1, <1>2, <1>4 DEF ModalButton, ModalMain, Good, ModalHasEntry
  <2>2. Becomes(d, Answered(stack, 1, "ok"))
    BY <1>2, <1>4, <2>1 DEF ModalButton, ModalMain
  <2>3. d.ctx = con.ctx /\ d.status = con.status /\ d.exitHandler = con.exitHandler
    BY <1>2 DEF RemoveEntries, Console
  <2> HIDE DEF d
  <2> QED BY <1>1, <1>2, <2>2, <2>3, AnswerLife DEF Becomes
<1>5. ASSUME NEW answer \in {"ok", "cancel"}, PromptButton(answer) PROVE LoopGoesOn
  <2>1. Becomes(con, Answered(stack, 1, answer))
    BY <1>2, <1>5 DEF PromptButton, ModalMain
  <2> QED BY <1>1, <1>2, <2>1, AnswerLife DEF Becomes
<1> QED BY <1>3, <1>4, <1>5

\* The modal call of main returns, or throws.
LEMMA ModalReturnsLife ==
    ASSUME Practices = {}, TypeOK, IInv, LifeInv, ModalReturns
    PROVE  LoopGoesOn
<1>1. open /\ InEventLoop /\ stack # <<>>
  BY DEF ModalReturns, ModalOver, Event, Running
<1>2. con \in Console /\ Good(con, stack) /\ ModalMain
  BY <1>1, LoopFacts
<1> PICK c, s : ModalIsOver(c, s)
  BY ModalReturnsCases
<1>3. /\ c \in Console /\ c.modalCount = 0 /\ c.ctx = con.ctx /\ c.callbacks = con.callbacks
      /\ c.runningMain = con.runningMain /\ c.dialog = con.dialog
      /\ c.label = con.label /\ c.status = con.status
      /\ c.pending = con.pending /\ c.exitHandler = con.exitHandler
  BY DEF ModalIsOver
<1>4. /\ s \in Seq(Frame) /\ Len(s) = 1 /\ s # <<>> /\ DOMAIN s = {1}
      /\ s[1] \in Frame /\ s[1].modal = "no" /\ s[1].kind = "main"
  BY DEF ModalIsOver
<1>5. Alone(c, s)
  BY <1>2, <1>3, <1>4 DEF ModalMain, Alone, Good, HandlersOnHeap
<1>6. Len(stack) = 1 /\ stack[1].kind = "main" /\ con.ctx \in Heaps /\ con.ctx # NoHeap
      /\ "CLOSING" \notin con.status
  BY <1>1, <1>2, NoHeapAssumption, LoopLifeFacts DEF ModalMain
<1>7. ASSUME NEW d, Alone(d, s), d.exitHandler = con.exitHandler, FrameEnds(d, s, TRUE)
      PROVE  LoopGoesOn
  <2>1. Over(con.exitHandler, stack[1].kind)
    BY <1>4, <1>6, <1>7, AloneThrowsLife
  <2> QED BY <1>1, <1>6, <2>1 DEF LoopGoesOn, ScriptGoesOn
<1>8. ASSUME NEW d, con' = d, stack' = s, d.ctx = con.ctx, d.exitHandler = con.exitHandler,
             d.status \subseteq con.status, d.timed \/ Modals \cap {"dialogue", "file"} # {}
      PROVE  LoopGoesOn
  <2>1. Kept
    BY <1>4, <1>8 DEF Kept, InModalMain
  <2> QED BY <1>1, <1>4, <1>6, <1>8, <2>1 DEF LoopGoesOn, ScriptGoesOn, GoesOn
<1>9. CASE stack[1].modal \in {"dialogue", "file"} /\ Becomes(c, s)
  <2>1. Modals \cap {"dialogue", "file"} # {}
    BY <1>1, <1>9, LoopLifeFacts
  <2>2. con' = c /\ stack' = s
    BY <1>9 DEF Becomes
  <2>3. c.status \subseteq con.status
    BY <1>3
  <2> QED BY <1>3, <1>8, <2>1, <2>2, <2>3
<1>10. CASE Thrown(PrepForThrow([c EXCEPT !.status = @ \cup {"CLOSING"}]), s)
  <2> DEFINE S == c.status \cup {"CLOSING"}
             d == [c EXCEPT !.status = S]
             e == PrepForThrow(d)
  <2>1. S \in SUBSET Completions /\ "HAD_ERROR" \notin S
    BY <1>3, <1>5, FieldTypes DEF Alone, Completions
  <2>2. Alone(d, s) /\ Alone(e, s)
    BY <1>5, <2>1, AloneKept
  <2>3. FrameEnds(e, s, TRUE)
    BY <1>10 DEF Thrown
  <2> HIDE DEF S
  <2>4. d \in Console /\ d.exitHandler = con.exitHandler
    BY <1>3, <2>1, StatusFields
  <2> HIDE DEF d
  <2>5. e.exitHandler = con.exitHandler
    BY <2>4 DEF PrepForThrow, Console
  <2> HIDE DEF e
  <2> QED BY <1>7, <2>2, <2>3, <2>5
<1>11. CASE Thrown(PrepForThrow(c), s)
  <2> DEFINE e == PrepForThrow(c)
  <2>1. FrameEnds(e, s, TRUE)
    BY <1>11 DEF Thrown
  <2>2. e.exitHandler = con.exitHandler
    BY <1>3 DEF PrepForThrow, Console
  <2>3. Alone(e, s)
    BY <1>5, AloneKept
  <2> HIDE DEF e
  <2> QED BY <1>7, <2>1, <2>2, <2>3
<1>12. CASE Becomes(StartTimeout([c EXCEPT !.dialog = 0]), Dismissed(s, con.dialog))
  <2> DEFINE u == [c EXCEPT !.dialog = 0]
             d == StartTimeout(u)
  <2>1. Dismissed(s, con.dialog) = s
    BY <1>4 DEF Dismissed, StillModal
  <2>2. u \in Console /\ u.ctx = c.ctx /\ u.status = c.status /\ u.exitHandler = c.exitHandler
    BY <1>3, FieldTypes DEF Console
  <2> HIDE DEF u
  <2>3. d.ctx = u.ctx /\ d.status \subseteq u.status /\ d.exitHandler = u.exitHandler /\ d.timed
    BY <2>2 DEF StartTimeout, Console
  <2>4. con' = d /\ stack' = s
    BY <1>12, <2>1 DEF Becomes, u
  <2> HIDE DEF d
  <2> QED BY <1>3, <1>8, <2>2, <2>3, <2>4
<1> QED BY <1>9, <1>10, <1>11, <1>12 DEF ModalIsOver

-----------------------------------------------------------------------------
(* Every step *)

LifeStep ==
    \/ open /\ open' /\ LoopGoesOn
    \/ open /\ ~open' /\ stack = <<>>
    \/ ~open /\ open' /\ con' = NewConsole /\ stack' = stack

LEMMA CloseStepsLife ==
    ASSUME Practices = {}, TypeOK, IInv, LifeInv, ConsoleClose \/ CloseBox \/ ConsoleAdd
    PROVE  LifeStep
<1>1. CASE ConsoleAdd
  BY <1>1 DEF ConsoleAdd, LifeStep
<1>2. CASE CloseBox
  <2>1. open /\ stack = <<>> /\ con \in Console /\ Good(con, <<>>) /\ DeleteMe(con, <<>>)
        /\ InEventLoop /\ fault = "none"
    BY <1>2 DEF CloseBox, Running, TypeOK, IInv, InEventLoop, JSRunning
  <2>2. con' = Asked(con) /\ stack' = stack /\ UNCHANGED fault /\ open' = IsBusy(con)
    BY <2>1, IdleFacts DEF DeleteMe, AskedBusy
  <2>3. CASE IsBusy(con)
    <3>1. con.ctx # NoHeap
      BY <2>1, <2>3, IdleFacts DEF IsBusy
    <3>2. Sets(Asked(con))
      BY <2>2 DEF Sets, Becomes
    <3> QED BY <2>1, <2>2, <2>3, <3>1, <3>2, AskedLife DEF LifeStep
  <2>4. CASE ~IsBusy(con)
    BY <2>1, <2>2, <2>4 DEF LifeStep
  <2> QED BY <2>3, <2>4
<1>3. CASE ConsoleClose
  <2>1. open /\ con \in Console /\ stack \in Seq(Frame) /\ Good(con, stack) /\ InEventLoop
        /\ (stack = <<>> \/ ModalMain)
    BY <1>3, LoopFacts DEF ConsoleClose, Running
  <2>2. CASE ModalMain
    <3>1. stack[1].modal = "message" /\ con.dialog = 1 /\ con.runningMain
      BY <1>3, <2>2 DEF ConsoleClose, ModalMain
    <3>2. DeleteMe(con, Answered(stack, 1, "closed"))
      BY <1>3, <2>2, <3>1 DEF ConsoleClose, ModalMain
    <3>3. con' = con /\ open' = TRUE /\ stack' = Answered(stack, 1, "closed")
      BY <3>1, <3>2 DEF DeleteMe, AskedBusy, IsBusy
    <3>4. LoopGoesOn
      BY <2>1, <2>2, <3>3, AnswerLife
    <3> QED BY <2>1, <3>3, <3>4 DEF LifeStep
  <2>3. CASE stack = <<>>
    <3> DEFINE c == ClearCallbacks(con)
    <3>1. DeleteMe(c, <<>>)
      BY <1>3, <2>1, <2>3, IdleFacts DEF ConsoleClose
    <3>2. c \in Console /\ c.callbacks = {} /\ ~c.alert /\ ~c.runningMain /\ c.dialog = 0
          /\ ~c.waitingCached
      BY <2>1, ClearCallbacksFields
    <3> HIDE DEF c
    <3>3. ~IsBusy(c)
      BY <3>2 DEF IsBusy, IsWaiting, SomethingAwaited
    <3>4. open' = FALSE
      BY <3>1, <3>3 DEF DeleteMe
    <3> QED BY <2>1, <2>3, <3>4 DEF LifeStep
  <2> QED BY <2>1, <2>2, <2>3
<1> QED BY <1>1, <1>2, <1>3

LEMMA NextLife ==
    ASSUME Practices = {}, TypeOK, IInv, LifeInv, Next
    PROVE  LifeStep
<1>1. ASSUME \/ ApiError \/ ScriptError \/ Timeout \/ Return \/ CancelOne
             \/ \E type \in Types, persistant \in BOOLEAN : Register(type, persistant)
             \/ \E type \in Types : CancelType(type)
             \/ Alert \/ CancelAlert \/ OnExit \/ StopScript \/ ChainScript
             \/ MessageBox \/ ModalDialogue \/ FilePrompt
      PROVE  LifeStep
  <2>1. JS
    BY <1>1 DEF ApiError, ScriptError, Timeout, Return, CancelOne, CancelType, Cancel, Register,
       Alert, CancelAlert, OnExit, StopScript, ChainScript, MessageBox, ModalDialogue, FilePrompt,
       MayGoModal
  <2>2. ScriptGoesOn /\ open /\ open' = open /\ stack # <<>>
    BY <1>1, <2>1, ScriptStepsLife, JSFacts
  <2> QED BY <2>2 DEF LoopGoesOn, LifeStep
<1>2. ASSUME \/ RunClicked \/ RunQueued \/ RunRequested
             \/ CallbackFires \/ DialogueButton \/ AlertDismissed
             \/ MessageButton("ok") \/ MessageButton("cancel") \/ ModalButton
             \/ PromptButton("ok") \/ PromptButton("cancel") \/ ModalReturns
      PROVE  LifeStep
  <2>1. open /\ open' = open
    BY <1>2 DEF RunClicked, RunQueued, RunRequested, CallbackFires, DialogueButton,
       AlertDismissed, MessageButton, ModalButton, PromptButton, ModalReturns, UserEvent, Event, Running
  <2>2. LoopGoesOn
    BY <1>2, RunClickedLife, RunQueuedLife, RunRequestedLife, CallbacksLife,
       AlertDismissedLife, ButtonsLife, ModalReturnsLife
  <2> QED BY <2>1, <2>2 DEF LifeStep
<1> QED BY <1>1, <1>2, CloseStepsLife, Zenon DEF Next

LEMMA LifeInvInit == Init => LifeInv
BY DEF Init, NewConsole, LifeInv, InModalMain, JSRunning

\* What LifeInv says of an open console, at the end of a step.
LivesOn ==
    /\ con'.ctx # NoHeap => "CLOSING" \notin con'.status
    /\ con'.ctx # NoHeap /\ stack' = <<>> => "TIMEOUT" \notin con'.status
    /\ Kept

LEMMA ComesToLife ==
    /\ \A h : Waits(h) => LivesOn
    /\ EndsWell \/ EndsBadly \/ StaysIdle => LivesOn
    /\ \A kind : Calls(kind) => LivesOn
    /\ GoesOn => LivesOn
<1>1. ASSUME NEW h, Waits(h) PROVE LivesOn
  BY <1>1 DEF Waits, Abrupt, LivesOn, Kept, InModalMain
<1>2. ASSUME EndsWell \/ EndsBadly \/ StaysIdle PROVE LivesOn
  BY <1>2 DEF EndsWell, EndsBadly, StaysIdle, LivesOn, Kept, InModalMain
<1>3. ASSUME NEW kind, Calls(kind) PROVE LivesOn
  BY <1>3 DEF Calls, LivesOn, Kept, InModalMain
<1>4. ASSUME GoesOn PROVE LivesOn
  BY <1>4 DEF GoesOn, LivesOn
<1> QED BY <1>1, <1>2, <1>3, <1>4

LEMMA LifeInvStep ==
    ASSUME Practices = {}, TypeOK, IInv, LifeInv, [Next]_vars
    PROVE  LifeInv'
<1>1. CASE UNCHANGED vars
  BY <1>1 DEF vars, LifeInv, InModalMain, JSRunning, Top
<1>2. CASE Next
  <2>1. LifeStep
    BY <1>2, NextLife
  <2>2. CASE open /\ open' /\ LoopGoesOn
    <3>1. LivesOn
      BY <2>2, ComesToLife
         DEF LoopGoesOn, ScriptGoesOn, WaiterGoesOn, Starts, Over, RunsOut
    <3> QED BY <3>1 DEF LivesOn, Kept, LifeInv, InModalMain, JSRunning, Top
  <2>3. CASE ~open'
    BY <2>3 DEF LifeInv
  <2>4. CASE ~open /\ con' = NewConsole /\ stack' = stack
    BY <2>4 DEF IInv, NewConsole, LifeInv, InModalMain, JSRunning
  <2> QED BY <2>1, <2>2, <2>3, <2>4 DEF LifeStep
<1> QED BY <1>1, <1>2

\* What the life of a script relies on besides the invariant of its console.
THEOREM LifeInvariance ==
    ASSUME Practices = {}
    PROVE  Spec => []LifeInv
<1>1. TypeOK /\ IInv /\ LifeInv /\ [Next]_vars => LifeInv'
  BY LifeInvStep
<1> QED BY <1>1, LifeInvInit, TypeCorrect, Invariance, PTL DEF Spec

-----------------------------------------------------------------------------
(* What follows *)

\* No JavaScript runs without a time at which it must end, if the only modal
\* call of the script is messageBox(): modalDialogue() and the prompt for a
\* file do not give back the time that a callback under them has taken.
THEOREM ScriptsRunTimed ==
    ASSUME Practices = {}, Modals \subseteq {"message"}
    PROVE  Spec => []ScriptsAreTimed
<1>1. IInv /\ LifeInv => ScriptsAreTimed
  BY DEF IInv, LifeInv, ScriptsAreTimed, JSRunning
<1> QED BY <1>1, Invariance, LifeInvariance, PTL

\* A request to run that is taken from the queue starts the script.
THEOREM QueuedRunsStart ==
    ASSUME Practices = {}
    PROVE  Spec => QueuedRunStarts
<1> DEFINE Started == open /\ open' /\ con'.pending < con.pending =>
                         con'.runningMain /\ Len(stack') > Len(stack)
<1>1. ASSUME TypeOK, TypeOK', IInv, LifeInv, [Next]_vars PROVE [Started]_vars
  <2> SUFFICES ASSUME Next, open, open', con'.pending < con.pending
               PROVE  con'.runningMain /\ Len(stack') > Len(stack)
    BY <1>1
  <2>1. con \in Console /\ con' \in Console /\ Good(con, stack)
    BY <1>1 DEF TypeOK, IInv
  <2>2. con.pending > 0
    <3>1. con.pending \in Nat /\ con'.pending \in Nat
      BY <2>1, FieldTypes
    <3> QED BY <3>1
  <2>3. con.ctx = NoHeap /\ stack = <<>>
    BY <2>1, <2>2 DEF Good, RequestsWait, DeadIsClear
  <2>4. Starts \/ StaysIdle
    BY <1>1, <2>3, NextLife DEF LifeStep, LoopGoesOn
  <2>5. ~StaysIdle
    <3>1. con.pending \in Nat /\ con'.pending \in Nat
      BY <2>1, FieldTypes
    <3> QED BY <3>1 DEF StaysIdle
  <2>6. con'.runningMain /\ Len(stack') = 1
    BY <2>4, <2>5 DEF Starts, Calls
  <2>7. Len(stack) = 0
    BY <2>3
  <2> QED BY <2>6, <2>7
<1>2. TypeOK /\ TypeOK' /\ IInv /\ LifeInv /\ [Next]_vars => [Started]_vars
  BY <1>1
<1>3. Spec => [][Started]_vars
  <2> HIDE DEF Started
  <2> QED BY <1>2, TypeCorrect, Invariance, LifeInvariance, PTL DEF Spec
<1> QED BY <1>3 DEF QueuedRunStarts

\* The exit handler is the last JavaScript of a run.
THEOREM ExitHandlersAreFinal ==
    ASSUME Practices = {}
    PROVE  Spec => ExitHandlerIsFinal
<1> DEFINE Final == HasExitCall(stack) /\ ~HasExitCall(stack') =>
                       /\ con'.ctx = NoHeap /\ ~SomethingAwaited(con') /\ con'.label = "Run"
                       /\ stack' = <<>>
<1>1. ASSUME TypeOK, TypeOK', IInv, IInv', LifeInv, [Next]_vars PROVE [Final]_vars
  <2> SUFFICES ASSUME Next, HasExitCall(stack), ~HasExitCall(stack')
               PROVE  /\ con'.ctx = NoHeap /\ ~SomethingAwaited(con') /\ con'.label = "Run"
                      /\ stack' = <<>>
    BY <1>1
  <2>1. stack \in Seq(Frame) /\ stack' \in Seq(Frame)
    BY <1>1 DEF TypeOK
  <2>2. stack # <<>>
    BY DEF HasExitCall
  <2>3. open /\ Good(con, stack)
    BY <1>1, <2>2 DEF IInv
  <2>4. stack[1].kind = "exit"
    <3>1. PICK i \in DOMAIN stack : stack[i].kind = "exit"
      BY DEF HasExitCall
    <3>2. i \in 1..Len(stack) /\ Len(stack) \in Nat /\ Len(stack) <= 2
      BY <2>1, <2>3, <3>1 DEF Good, Shape
    <3>3. i = 1 \/ (i = 2 /\ Len(stack) = 2)
      BY <3>2
    <3> QED BY <2>3, <3>1, <3>3 DEF Good, Shape
  <2>5. open' /\ ScriptGoesOn
    BY <1>1, <2>2, <2>3, NextLife DEF LifeStep, LoopGoesOn
  <2>6. ~GoesOn
    <3>1. stack' # <<>> => 1 \in DOMAIN stack'
      BY <2>1
    <3> QED BY <2>4, <3>1 DEF GoesOn, HasExitCall
  <2>7. stack' = <<>> /\ con'.ctx = NoHeap
    BY <2>4, <2>5, <2>6 DEF ScriptGoesOn, Over, EndsWell, EndsBadly
  <2>8. Good(con', stack')
    BY <1>1, <2>5 DEF IInv
  <2> QED BY <2>7, <2>8 DEF Good, DeadIsClear, SomethingAwaited
<1>2. TypeOK /\ TypeOK' /\ IInv /\ IInv' /\ LifeInv /\ [Next]_vars => [Final]_vars
  BY <1>1
<1>3. Spec => [][Final]_vars
  <2> HIDE DEF Final
  <2> QED BY <1>2, TypeCorrect, Invariance, LifeInvariance, PTL DEF Spec
<1> QED BY <1>3 DEF ExitHandlerIsFinal

-----------------------------------------------------------------------------
(* The console implements ScriptLifecycle *)

KindPhase(kind) ==
    IF kind = "main" THEN "main" ELSE IF kind = "exit" THEN "exiting" ELSE "handling"

\* The phase while the console exists, by what it holds.
PhaseTable ==
    /\ ~open => phase = "closed" /\ guarded = FALSE /\ ended = "no"
    /\ open /\ con.ctx = NoHeap =>
         /\ phase = "idle" /\ guarded = FALSE
         /\ ended = IF Abrupt(con) THEN "abruptly" ELSE "orderly"
    /\ open /\ con.ctx # NoHeap /\ stack = <<>> =>
         phase = "waiting" /\ guarded = (con.exitHandler # NoHeap) /\ ended = "no"
    /\ open /\ con.ctx # NoHeap /\ stack # <<>> =>
         /\ phase = KindPhase(stack[1].kind) /\ ended = "no"
         /\ guarded = (stack[1].kind # "exit" /\ con.exitHandler # NoHeap)

LEMMA PhaseIs == PhaseTable
<1>1. CASE ~open
  BY <1>1 DEF PhaseTable, phase, guarded, ended
<1>2. CASE open /\ con.ctx = NoHeap
  <2>1. phase = "idle"
    BY <1>2 DEF phase
  <2> QED BY <1>2, <2>1 DEF PhaseTable, guarded, ended, Abrupt
<1>3. CASE open /\ con.ctx # NoHeap /\ stack = <<>>
  <2>1. phase = "waiting"
    BY <1>3 DEF phase
  <2> QED BY <1>3, <2>1 DEF PhaseTable, guarded, ended
<1>4. CASE open /\ con.ctx # NoHeap /\ stack # <<>>
  <2>1. phase = KindPhase(stack[1].kind)
    BY <1>4 DEF phase, KindPhase
  <2>2. ended = "no"
    BY <2>1 DEF ended, KindPhase
  <2>3. guarded = (stack[1].kind # "exit" /\ con.exitHandler # NoHeap)
    BY <2>1 DEF guarded, KindPhase
  <2> QED BY <1>4, <2>1, <2>2, <2>3 DEF PhaseTable
<1> QED BY <1>1, <1>2, <1>3, <1>4

\* The same of what a step comes to.
LEMMA PhaseBecomes ==
    ASSUME open'
    PROVE  /\ \A h : Waits(h) =>
                phase' = "waiting" /\ guarded' = (h # NoHeap) /\ ended' = "no"
           /\ EndsWell => phase' = "idle" /\ guarded' = FALSE /\ ended' = "orderly"
           /\ EndsBadly => phase' = "idle" /\ guarded' = FALSE /\ ended' = "abruptly"
           /\ \A kind : Calls(kind) =>
                /\ phase' = KindPhase(kind) /\ ended' = "no"
                /\ guarded' = (kind # "exit" /\ con'.exitHandler # NoHeap)
           /\ GoesOn =>
                /\ phase' = KindPhase(stack[1].kind) /\ ended' = "no"
                /\ guarded' = (stack[1].kind # "exit" /\ con'.exitHandler # NoHeap)
           /\ StaysIdle =>
                /\ phase' = "idle" /\ guarded' = FALSE
                /\ ended' = IF Abrupt(con) THEN "abruptly" ELSE "orderly"
<1> USE NoHeapAssumption
<1>1. PhaseTable'
  BY PhaseIs, PTL
<1>2. ASSUME NEW h, Waits(h)
      PROVE  phase' = "waiting" /\ guarded' = (h # NoHeap) /\ ended' = "no"
  BY <1>1, <1>2 DEF PhaseTable, Waits
<1>3. EndsWell => phase' = "idle" /\ guarded' = FALSE /\ ended' = "orderly"
  BY <1>1 DEF PhaseTable, EndsWell
<1>4. EndsBadly => phase' = "idle" /\ guarded' = FALSE /\ ended' = "abruptly"
  BY <1>1 DEF PhaseTable, EndsBadly
<1>5. ASSUME NEW kind, Calls(kind)
      PROVE  /\ phase' = KindPhase(kind) /\ ended' = "no"
             /\ guarded' = (kind # "exit" /\ con'.exitHandler # NoHeap)
  BY <1>1, <1>5 DEF PhaseTable, Calls
<1>6. GoesOn => /\ phase' = KindPhase(stack[1].kind) /\ ended' = "no"
                /\ guarded' = (stack[1].kind # "exit" /\ con'.exitHandler # NoHeap)
  BY <1>1 DEF PhaseTable, GoesOn
<1>7. StaysIdle => /\ phase' = "idle" /\ guarded' = FALSE
                   /\ ended' = IF Abrupt(con) THEN "abruptly" ELSE "orderly"
  BY <1>1 DEF PhaseTable, StaysIdle, Abrupt
<1> QED BY <1>2, <1>3, <1>4, <1>5, <1>6, <1>7

\* Each way a script may go on is a step of its life, or none.
LEMMA GoesOnLives ==
    ASSUME PhaseTable, open, open', con.ctx # NoHeap, stack # <<>>, GoesOn
    PROVE  [Lifecycle!Next]_(Lifecycle!lifecycle)
<1> DEFINE kind == stack[1].kind
<1>1. /\ phase = KindPhase(kind) /\ ended = "no" /\ phase' = KindPhase(kind) /\ ended' = "no"
      /\ guarded = (kind # "exit" /\ con.exitHandler # NoHeap)
      /\ guarded' = (kind # "exit" /\ con'.exitHandler # NoHeap)
      /\ con'.exitHandler = con.exitHandler \/ con'.exitHandler # NoHeap
  BY PhaseBecomes DEF PhaseTable, GoesOn
<1>2. CASE guarded' = guarded
  BY <1>1, <1>2 DEF Lifecycle!lifecycle
<1>3. CASE guarded' # guarded
  <2>1. guarded' = TRUE /\ phase \in {"main", "handling"}
    BY <1>1, <1>3 DEF KindPhase
  <2> QED BY <1>1, <2>1 DEF Lifecycle!Next, Lifecycle!SetExitHandler
<1> QED BY <1>2, <1>3

\* The run ends, from main, from a callback or while it waits; h is its exit
\* handler.
LEMMA RunsOutLives ==
    ASSUME NEW h, open', RunsOut(h), phase \in {"main", "waiting", "handling"},
           guarded = (h # NoHeap), ended = "no"
    PROVE  Lifecycle!Next
<1>1. CASE h = NoHeap
  <2>1. phase' = "idle" /\ guarded' = FALSE /\ ended' = "orderly"
    BY <1>1, PhaseBecomes DEF RunsOut
  <2> QED BY <1>1, <2>1 DEF Lifecycle!Next, Lifecycle!EndOrderly, Lifecycle!Goes
<1>2. CASE h # NoHeap
  <2>1. phase' = "exiting" /\ guarded' = FALSE /\ ended' = "no"
    <3>1. Calls("exit")
      BY <1>2 DEF RunsOut
    <3>2. /\ phase' = KindPhase("exit") /\ ended' = "no"
          /\ guarded' = ("exit" # "exit" /\ con'.exitHandler # NoHeap)
      BY <3>1, PhaseBecomes
    <3> QED BY <3>2 DEF KindPhase
  <2> QED BY <1>2, <2>1 DEF Lifecycle!Next, Lifecycle!RunExitHandler, Lifecycle!Goes
<1> QED BY <1>1, <1>2

LEMMA OverLives ==
    ASSUME PhaseTable, open, open', con.ctx # NoHeap, stack # <<>>,
           Over(con.exitHandler, stack[1].kind)
    PROVE  Lifecycle!Next
<1> DEFINE kind == stack[1].kind
<1>1. /\ phase = KindPhase(kind) /\ ended = "no"
      /\ guarded = (kind # "exit" /\ con.exitHandler # NoHeap)
  BY DEF PhaseTable
<1>2. CASE kind = "exit"
  <2>1. phase = "exiting" /\ guarded = FALSE
    BY <1>1, <1>2 DEF KindPhase
  <2>2. phase' = "idle" /\ guarded' = FALSE /\ ended' \in {"orderly", "abruptly"}
    BY <1>2, PhaseBecomes DEF Over
  <2> QED BY <2>1, <2>2
          DEF Lifecycle!Next, Lifecycle!EndOrderly, Lifecycle!EndAbruptly, Lifecycle!Goes
<1>3. CASE kind # "exit"
  <2>1. phase \in {"main", "handling"} /\ guarded = (con.exitHandler # NoHeap)
    BY <1>1, <1>3 DEF KindPhase
  <2>2. CASE Waits(con.exitHandler)
    <3>1. phase' = "waiting" /\ guarded' = guarded /\ ended' = ended
      BY <1>1, <2>1, <2>2, PhaseBecomes
    <3> QED BY <2>1, <3>1 DEF Lifecycle!Next, Lifecycle!Wait, Lifecycle!Goes
  <2>3. CASE EndsBadly
    <3>1. phase' = "idle" /\ guarded' = FALSE /\ ended' = "abruptly"
      BY <2>3, PhaseBecomes
    <3> QED BY <2>1, <3>1 DEF Lifecycle!Next, Lifecycle!EndAbruptly, Lifecycle!Goes
  <2>4. CASE RunsOut(con.exitHandler)
    BY <1>1, <2>1, <2>4, RunsOutLives
  <2> QED BY <1>3, <2>2, <2>3, <2>4 DEF Over
<1> QED BY <1>2, <1>3

LEMMA WaiterLives ==
    ASSUME PhaseTable, open, open', con.ctx # NoHeap, stack = <<>>, WaiterGoesOn
    PROVE  [Lifecycle!Next]_(Lifecycle!lifecycle)
<1>1. phase = "waiting" /\ guarded = (con.exitHandler # NoHeap) /\ ended = "no"
  BY DEF PhaseTable
<1>2. CASE Waits(con.exitHandler)
  <2>1. phase' = phase /\ guarded' = guarded /\ ended' = ended
    BY <1>1, <1>2, PhaseBecomes
  <2> QED BY <2>1 DEF Lifecycle!lifecycle
<1>3. CASE RunsOut(con.exitHandler)
  BY <1>1, <1>3, RunsOutLives
<1>4. CASE \E kind \in {"callback", "dialogue"} :
              Calls(kind) /\ con'.exitHandler = con.exitHandler
  <2>1. phase' = "handling" /\ guarded' = guarded /\ ended' = ended
    BY <1>1, <1>4, PhaseBecomes DEF KindPhase
  <2> QED BY <1>1, <2>1 DEF Lifecycle!Next, Lifecycle!CallBack, Lifecycle!Goes
<1> QED BY <1>2, <1>3, <1>4 DEF WaiterGoesOn

LEMMA IdleLives ==
    ASSUME PhaseTable, open, open', con.ctx = NoHeap, Starts \/ StaysIdle
    PROVE  [Lifecycle!Next]_(Lifecycle!lifecycle)
<1>1. phase = "idle" /\ guarded = FALSE /\ ended = IF Abrupt(con) THEN "abruptly" ELSE "orderly"
  BY DEF PhaseTable
<1>2. CASE Starts
  <2>1. phase' = "main" /\ guarded' = FALSE /\ ended' = "no"
    BY <1>2, PhaseBecomes DEF Starts, KindPhase
  <2> QED BY <1>1, <2>1 DEF Lifecycle!Next, Lifecycle!Start, Lifecycle!Goes
<1>3. CASE StaysIdle
  <2>1. phase' = phase /\ guarded' = guarded /\ ended' = ended
    BY <1>1, <1>3, PhaseBecomes
  <2> QED BY <2>1 DEF Lifecycle!lifecycle
<1> QED BY <1>2, <1>3

\* Every step of the console is a step of the life of its script, or none.
LEMMA StepLives ==
    ASSUME Practices = {}, TypeOK, IInv, LifeInv, PhaseTable, PhaseTable', [Next]_vars
    PROVE  [Lifecycle!Next]_(Lifecycle!lifecycle)
<1>1. CASE UNCHANGED vars
  BY <1>1 DEF vars, Lifecycle!lifecycle, phase, guarded, ended
<1>2. CASE Next
  <2>1. LifeStep
    BY <1>2, NextLife
  <2>2. CASE open /\ open' /\ LoopGoesOn
    <3>1. stack # <<>> => con.ctx # NoHeap
      BY <2>2 DEF IInv, Good, DeadIsClear
    <3>2. CASE stack # <<>>
      <4>1. GoesOn \/ Over(con.exitHandler, stack[1].kind)
        BY <2>2, <3>2 DEF LoopGoesOn, ScriptGoesOn
      <4> QED BY <2>2, <3>1, <3>2, <4>1, GoesOnLives, OverLives
    <3>3. CASE stack = <<>> /\ con.ctx # NoHeap
      BY <2>2, <3>3, WaiterLives DEF LoopGoesOn
    <3>4. CASE stack = <<>> /\ con.ctx = NoHeap
      BY <2>2, <3>4, IdleLives DEF LoopGoesOn
    <3> QED BY <3>2, <3>3, <3>4
  <2>3. CASE open /\ ~open' /\ stack = <<>>
    <3>1. phase \in {"idle", "waiting"}
      BY <2>3 DEF PhaseTable
    <3>2. phase' = "closed" /\ guarded' = FALSE /\ ended' = "no"
      BY <2>3 DEF PhaseTable
    <3> QED BY <3>1, <3>2 DEF Lifecycle!Next, Lifecycle!Close, Lifecycle!Goes
  <2>4. CASE ~open /\ open' /\ con' = NewConsole /\ stack' = stack
    <3>1. phase = "closed"
      BY <2>4 DEF PhaseTable
    <3>2. con'.ctx = NoHeap /\ ~Abrupt(con')
      BY <2>4 DEF NewConsole, Abrupt
    <3>3. phase' = "idle" /\ guarded' = FALSE /\ ended' = "orderly"
      BY <2>4, <3>2 DEF PhaseTable
    <3> QED BY <3>1, <3>3 DEF Lifecycle!Next, Lifecycle!Reopen, Lifecycle!Goes
  <2> QED BY <2>1, <2>2, <2>3, <2>4 DEF LifeStep
<1> QED BY <1>1, <1>2

LEMMA InitLives == Init => Lifecycle!Init
<1> SUFFICES ASSUME Init PROVE Lifecycle!Init
  OBVIOUS
<1>1. open /\ con.ctx = NoHeap /\ ~Abrupt(con)
  BY DEF Init, NewConsole, Abrupt
<1> QED BY <1>1, PhaseIs DEF PhaseTable, Lifecycle!Init

\* A console implements the life that ScriptLifecycle promises of a script.
THEOREM LivesAsPromised ==
    ASSUME Practices = {}
    PROVE  Spec => ImplementsLifecycle
<1>1. TypeOK /\ IInv /\ LifeInv /\ PhaseTable /\ PhaseTable' /\ [Next]_vars
        => [Lifecycle!Next]_(Lifecycle!lifecycle)
  BY StepLives
<1>2. Spec => Lifecycle!Spec
  BY <1>1, InitLives, PhaseIs, TypeCorrect, Invariance, LifeInvariance, PTL
     DEF Spec, Lifecycle!Spec
<1> QED BY <1>2 DEF ImplementsLifecycle
=============================================================================
