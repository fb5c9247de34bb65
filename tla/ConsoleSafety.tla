---------------------------- MODULE ConsoleSafety ----------------------------
(***************************************************************************)
(* A console whose scripts follow none of the hazardous practices keeps    *)
(* IInv, for every number of heaps, ids, callbacks and calls: the safety   *)
(* properties of Console follow.                                           *)
(***************************************************************************)
EXTENDS ConsoleProofs, FiniteSetTheorems

-----------------------------------------------------------------------------
(* What the methods leave in the fields, one lemma for each method *)

\* Forgetting the callbacks clears all that the script could wait for.
LEMMA ClearCallbacksFields ==
    ASSUME NEW c \in Console, NEW d, d \in {ClearCallbacks(c), Cleanup(c)}
    PROVE  /\ d \in Console
           /\ d.callbacks = {} /\ ~d.alert /\ ~d.runningMain /\ d.dialog = 0
           /\ ~d.waitingCached /\ d.label = "Run"
           /\ d.status = c.status /\ d.modalCount = c.modalCount /\ d.pending = c.pending
           /\ d.exitHandler = c.exitHandler
           /\ d = ClearCallbacks(c) => d.ctx = c.ctx
           /\ d = Cleanup(c) => d.ctx = NoHeap
<1>1. d \in Console
  BY SimpleMethodTypes
<1> DEFINE e == ClearCallbacks(c)
<1>2. /\ e.callbacks = {} /\ ~e.alert /\ ~e.runningMain /\ e.dialog = 0
      /\ ~e.waitingCached /\ e.label = "Run"
      /\ e.status = c.status /\ e.modalCount = c.modalCount /\ e.pending = c.pending
      /\ e.exitHandler = c.exitHandler /\ e.ctx = c.ctx
  BY DEF ClearCallbacks, Console
<1> HIDE DEF e
<1>3. ASSUME d = [e EXCEPT !.ctx = NoHeap], e \in Console
      PROVE  /\ d.callbacks = e.callbacks /\ d.alert = e.alert
             /\ d.runningMain = e.runningMain /\ d.dialog = e.dialog
             /\ d.waitingCached = e.waitingCached /\ d.label = e.label
             /\ d.status = e.status /\ d.modalCount = e.modalCount
             /\ d.pending = e.pending /\ d.exitHandler = e.exitHandler
             /\ d.ctx = NoHeap
  BY <1>3 DEF Console
<1>4. e \in Console
  BY SimpleMethodTypes DEF e
<1>5. d = e \/ d = [e EXCEPT !.ctx = NoHeap]
  BY DEF e, Cleanup
<1>6. d = Cleanup(c) => d.ctx = NoHeap
  BY <1>3, <1>4 DEF e, Cleanup
<1> QED BY <1>1, <1>2, <1>3, <1>4, <1>5, <1>6 DEF e

\* Asking whether the script waits changes nothing but the cache.
LEMMA AskedFields ==
    ASSUME NEW c \in Console
    PROVE  LET d == Asked(c)
           IN  /\ d \in Console
               /\ d.waiting = IsWaiting(c) /\ d.waitingCached
               /\ d.ctx = c.ctx /\ d.callbacks = c.callbacks /\ d.alert = c.alert
               /\ d.runningMain = c.runningMain /\ d.dialog = c.dialog
               /\ d.label = c.label /\ d.status = c.status
               /\ d.modalCount = c.modalCount /\ d.pending = c.pending
               /\ d.exitHandler = c.exitHandler
BY SimpleMethodTypes, ZenonT(30) DEF Asked, Console

\* executeCallableNargs() drops the cached answer and the old timeout.
LEMMA BeforeCallFields ==
    ASSUME NEW c \in Console
    PROVE  LET d == BeforeCall(c)
           IN  /\ d \in Console
               /\ ~d.waitingCached /\ d.status = c.status \ {"TIMEOUT"}
               /\ d.ctx = c.ctx /\ d.callbacks = c.callbacks /\ d.alert = c.alert
               /\ d.runningMain = c.runningMain /\ d.dialog = c.dialog
               /\ d.label = c.label
               /\ d.modalCount = c.modalCount /\ d.pending = c.pending
               /\ d.exitHandler = c.exitHandler
<1> DEFINE e == StartTimeout(c)
           d == BeforeCall(c)
<1>1. e \in Console /\ d \in Console
  BY SimpleMethodTypes
<1>2. /\ e.status = c.status \ {"TIMEOUT"}
      /\ e.ctx = c.ctx /\ e.callbacks = c.callbacks /\ e.alert = c.alert
      /\ e.runningMain = c.runningMain /\ e.dialog = c.dialog
      /\ e.label = c.label
      /\ e.modalCount = c.modalCount /\ e.pending = c.pending
      /\ e.exitHandler = c.exitHandler
  BY DEF StartTimeout, Console
<1>3. /\ ~d.waitingCached /\ d.status = e.status
      /\ d.ctx = e.ctx /\ d.callbacks = e.callbacks /\ d.alert = e.alert
      /\ d.runningMain = e.runningMain /\ d.dialog = e.dialog
      /\ d.label = e.label
      /\ d.modalCount = e.modalCount /\ d.pending = e.pending
      /\ d.exitHandler = e.exitHandler
  BY <1>1 DEF BeforeCall, Console
<1> HIDE DEF d, e
<1> QED BY <1>1, <1>2, <1>3 DEF d

\* afterwards() leaves the answer of the full check, or that of its decree.
LEMMA AfterwardsFields ==
    ASSUME NEW c \in Console, NEW threw \in BOOLEAN
    PROVE  LET d == Afterwards(c, threw)
               interrupted == c.status \cap Interrupts # {}
           IN  /\ d \in Console
               /\ d.waitingCached
               /\ d.waiting <=> ~interrupted /\ ~threw /\ SomethingAwaited(c)
               /\ d.status = IF threw /\ ~interrupted THEN c.status \cup {"HAD_ERROR"}
                                                      ELSE c.status
               /\ d.ctx = c.ctx /\ d.callbacks = c.callbacks /\ d.alert = c.alert
               /\ d.runningMain = c.runningMain /\ d.dialog = c.dialog
               /\ d.label = c.label
               /\ d.modalCount = c.modalCount /\ d.pending = c.pending
               /\ d.exitHandler = c.exitHandler
<1> DEFINE d == Afterwards(c, threw)
           interrupted == c.status \cap Interrupts # {}
<1>1. d \in Console
  BY EntryMethodTypes
<1>2. d.waitingCached /\ (d.waiting <=> ~interrupted /\ ~threw /\ SomethingAwaited(c))
  BY DEF Afterwards, Console
<1>3. d.status = IF threw /\ ~interrupted THEN c.status \cup {"HAD_ERROR"} ELSE c.status
  BY DEF Afterwards, Console
<1>4. /\ d.ctx = c.ctx /\ d.callbacks = c.callbacks /\ d.alert = c.alert
      /\ d.runningMain = c.runningMain /\ d.dialog = c.dialog
      /\ d.label = c.label
      /\ d.modalCount = c.modalCount /\ d.pending = c.pending
      /\ d.exitHandler = c.exitHandler
  BY DEF Afterwards, Console
<1> QED BY <1>1, <1>2, <1>3, <1>4

\* A script starts from a reset console with the heap made for it.
LEMMA BeforeMainFields ==
    ASSUME NEW c \in Console, NEW h \in Heaps
    PROVE  LET d == BeforeMain(c, h)
           IN  /\ d \in Console
               /\ d.ctx = h /\ d.label = "Stop" /\ d.runningMain /\ d.status = {}
               /\ d.callbacks = c.callbacks /\ d.pending = c.pending
               /\ ~d.alert /\ d.dialog = 0 /\ d.exitHandler = NoHeap /\ d.modalCount = 0
               /\ ~d.waitingCached
<1> DEFINE e == ConsoleReset(c)
           f == [e EXCEPT !.ctx = h, !.label = "Stop", !.runningMain = TRUE]
           d == BeforeMain(c, h)
<1>1. e \in Console
  BY NewConsoleType DEF ConsoleReset, Console
<1>2. f \in Console /\ d \in Console
  BY <1>1, EntryMethodTypes DEF Console
<1>3. /\ e.status = {} /\ e.callbacks = c.callbacks /\ e.pending = c.pending
      /\ ~e.alert /\ e.dialog = 0 /\ e.exitHandler = NoHeap /\ e.modalCount = 0
      /\ ~e.waitingCached
  BY DEF ConsoleReset, NewConsole
<1>4. /\ f.ctx = h /\ f.label = "Stop" /\ f.runningMain /\ f.status = e.status
      /\ f.callbacks = e.callbacks /\ f.pending = e.pending
      /\ f.alert = e.alert /\ f.dialog = e.dialog /\ f.exitHandler = e.exitHandler
      /\ f.modalCount = e.modalCount /\ f.waitingCached = e.waitingCached
  BY <1>1 DEF Console
<1>5. /\ d.ctx = f.ctx /\ d.label = f.label /\ d.runningMain = f.runningMain
      /\ d.status = f.status \ {"TIMEOUT"}
      /\ d.callbacks = f.callbacks /\ d.pending = f.pending
      /\ d.alert = f.alert /\ d.dialog = f.dialog /\ d.exitHandler = f.exitHandler
      /\ d.modalCount = f.modalCount /\ d.waitingCached = f.waitingCached
  BY <1>2 DEF BeforeMain, StartTimeout, Console
<1> HIDE DEF d, e, f
<1> QED BY <1>2, <1>3, <1>4, <1>5 DEF d

\* Interrupts come before errors, errors before waiting.
LEMMA OutcomeCases ==
    ASSUME NEW c \in Console, NEW threw \in BOOLEAN
    PROVE  LET interrupted == c.status \cap Interrupts # {}
           IN  /\ interrupted => Outcome(c, threw) \in Interrupts
               /\ c.status \cap {"TIMEOUT", "CLOSING"} # {} =>
                    Outcome(c, threw) \in {"TIMEOUT", "CLOSING"}
               /\ ~interrupted /\ threw => Outcome(c, threw) = "HAD_ERROR"
               /\ ~interrupted /\ ~threw /\ SomethingAwaited(c) => Outcome(c, threw) = "MORETODO"
               /\ ~interrupted /\ ~threw /\ ~SomethingAwaited(c) => Outcome(c, threw) = "DONE"
<1>1. CASE "TIMEOUT" \in c.status
  BY <1>1 DEF Outcome, Interrupts
<1>2. CASE "TIMEOUT" \notin c.status /\ "CLOSING" \in c.status
  BY <1>2 DEF Outcome, Interrupts
<1>3. CASE "TIMEOUT" \notin c.status /\ "CLOSING" \notin c.status /\ "STOPPED" \in c.status
  BY <1>3 DEF Outcome, Interrupts
<1>4. CASE "TIMEOUT" \notin c.status /\ "CLOSING" \notin c.status /\ "STOPPED" \notin c.status
  BY <1>4 DEF Outcome, Interrupts
<1> QED BY <1>1, <1>2, <1>3, <1>4

-----------------------------------------------------------------------------
(* Ending a call *)

NextGood == fault' = "none" /\ Good(con', stack')

\* What wrapUp() relies on when no other JavaScript is in progress.
Settled(c) ==
    /\ c \in Console /\ c.ctx \in Heaps /\ HandlersOnHeap(c)
    /\ c.pending = 0 /\ c.modalCount = 0 /\ ~c.runningMain /\ c.dialog \in {0, 1}

\* The cleanup destroys a heap that nothing runs on.
LEMMA HeapGoesSafely ==
    ASSUME NEW c, HeapGoes(c, <<>>)
    PROVE  stack' = <<>> /\ fault' = "none"
BY DEF HeapGoes, InUse, Dismissed, StillModal

\* An idle console, its cache dropped or right, is sound.
LEMMA IdleGood ==
    ASSUME NEW d \in Console,
           d.callbacks = {}, ~d.alert, ~d.runningMain, d.dialog = 0, d.label = "Run",
           d.ctx = NoHeap, d.modalCount = 0, d.pending <= 1, d.waitingCached => ~d.waiting
    PROVE  Good(d, <<>>)
BY DEF Good, Shape, HeapsInUse, HandlersOnHeap, DeadIsClear, LiveShowsStop, MainIsRunning,
       BoxIsRecorded, ModalsCounted, InCountedMain, InExitCall, IdleWaits, NoErrorYet,
       RequestsWait, ModalHasEntry, SomethingAwaited, Console

LEMMA ClearDownGood ==
    ASSUME NEW c \in Console, c.pending <= 1, c.modalCount = 0, ClearDown(c, <<>>)
    PROVE  NextGood
<1>1. con' = Cleanup(c) /\ fault' = "none" /\ stack' = <<>>
  BY HeapGoesSafely DEF ClearDown
<1> DEFINE d == Cleanup(c)
<1>2. /\ d \in Console
      /\ d.callbacks = {} /\ ~d.alert /\ ~d.runningMain /\ d.dialog = 0
      /\ ~d.waitingCached /\ d.label = "Run" /\ d.ctx = NoHeap
      /\ d.modalCount = 0 /\ d.pending <= 1
  BY ClearCallbacksFields
<1> HIDE DEF d
<1>3. Good(d, <<>>)
  BY <1>2, IdleGood
<1> QED BY <1>1, <1>3 DEF NextGood, d

LEMMA FinishGood ==
    ASSUME NEW c, Settled(c), NEW reason, Finish(c, <<>>, reason)
    PROVE  NextGood
<1> DEFINE clean == Cleanup(c)
           idle  == AskedBusy(clean)
           unset == [idle EXCEPT !.status = @ \ {"TOCHAIN"}]
           d     == [idle EXCEPT !.status = @ \ {"TOCHAIN"}, !.pending = @ + 1]
<1>1. c \in Console /\ c.pending = 0 /\ c.modalCount = 0
  BY DEF Settled
<1>2. /\ clean \in Console
      /\ clean.callbacks = {} /\ ~clean.alert /\ ~clean.runningMain /\ clean.dialog = 0
      /\ ~clean.waitingCached /\ clean.label = "Run" /\ clean.ctx = NoHeap
      /\ clean.modalCount = 0 /\ clean.pending = 0
  BY <1>1, ClearCallbacksFields
<1> HIDE DEF clean
<1>3. idle = Asked(clean) /\ ~IsWaiting(clean)
  BY <1>2 DEF AskedBusy, IsWaiting, SomethingAwaited
<1>4. /\ idle \in Console
      /\ idle.callbacks = {} /\ ~idle.alert /\ ~idle.runningMain /\ idle.dialog = 0
      /\ ~idle.waiting /\ idle.label = "Run" /\ idle.ctx = NoHeap
      /\ idle.modalCount = 0 /\ idle.pending = 0
  BY <1>2, <1>3, AskedFields
<1> HIDE DEF idle
<1>5. /\ unset \in Console
      /\ unset.callbacks = {} /\ ~unset.alert /\ ~unset.runningMain /\ unset.dialog = 0
      /\ ~unset.waiting /\ unset.label = "Run" /\ unset.ctx = NoHeap
      /\ unset.modalCount = 0 /\ unset.pending = 0
  <2>1. unset \in Console
    BY <1>4, FieldTypes
  <2> QED BY <1>4, <2>1 DEF Console
<1>6. d = [unset EXCEPT !.pending = 1]
  BY <1>4 DEF Console
<1> HIDE DEF unset
<1>7. [unset EXCEPT !.pending = 1] \in Console
  BY <1>5, FieldTypes
<1> HIDE DEF d
<1>8. /\ d \in Console
      /\ d.callbacks = {} /\ ~d.alert /\ ~d.runningMain /\ d.dialog = 0
      /\ ~d.waiting /\ d.label = "Run" /\ d.ctx = NoHeap
      /\ d.modalCount = 0 /\ d.pending = 1
  BY <1>5, <1>6, <1>7 DEF Console
<1>9. con' = IF reason = "TOCHAIN" THEN d ELSE idle
  BY Zenon DEF Finish, d, idle, clean
<1>10. Good(d, <<>>) /\ Good(idle, <<>>)
  BY <1>4, <1>8, IdleGood
<1>11. fault' = "none" /\ stack' = <<>>
  BY HeapGoesSafely DEF Finish
<1> QED BY <1>9, <1>10, <1>11 DEF NextGood

LEMMA ExitEndsGood ==
    ASSUME NEW c, Settled(c), NEW outcome, NEW reason, ExitEnds(c, <<>>, outcome, reason)
    PROVE  NextGood
<1> DEFINE left == [c EXCEPT !.status = @ \ {"INEXIT"}]
<1>1. Settled(left)
  <2>1. c \in Console /\ left \in Console
    BY FieldTypes DEF Settled
  <2>2. /\ left.ctx = c.ctx /\ left.callbacks = c.callbacks /\ left.exitHandler = c.exitHandler
        /\ left.pending = c.pending /\ left.modalCount = c.modalCount
        /\ left.runningMain = c.runningMain /\ left.dialog = c.dialog
    BY <2>1 DEF Console
  <2> HIDE DEF left
  <2> QED BY <2>1, <2>2 DEF Settled, HandlersOnHeap
<1>2. ClearDown(left, <<>>) \/ Finish(left, <<>>, reason)
  BY DEF ExitEnds
<1>3. left \in Console /\ left.pending <= 1 /\ left.modalCount = 0
  BY <1>1 DEF Settled
<1> QED BY <1>1, <1>2, <1>3, ClearDownGood, FinishGood

\* Calling a handler of the heap that the console holds, with nothing else in
\* progress.
LEMMA CallGood ==
    ASSUME NEW c, Settled(c), "HAD_ERROR" \notin c.status,
           NEW kind \in {"callback", "dialogue", "exit"}, NEW reason \in Completions,
           kind # "exit" => c.label = "Stop" /\ c.dialog = 0,
           Call(c, <<>>, NewFrame(kind, c.ctx, reason))
    PROVE  NextGood
<1> DEFINE f == NewFrame(kind, c.ctx, reason)
           d == BeforeCall(c)
<1>1. f \in Frame /\ f.kind = kind /\ f.heap = c.ctx /\ f.modal = "no" /\ f.answer = "none"
  BY FrameTypes DEF NewFrame, Settled
<1> HIDE DEF f
<1>2. con' = d /\ fault' = "none" /\ stack' = Append(<<>>, f)
  BY <1>1, NoHeapAssumption DEF Call, Settled, f
<1>3. stack' = <<f>>
  BY <1>2
<1>4. /\ d.ctx = c.ctx /\ d.callbacks = c.callbacks /\ d.runningMain = c.runningMain
      /\ d.dialog = c.dialog /\ d.label = c.label /\ d.modalCount = c.modalCount
      /\ d.pending = c.pending /\ d.exitHandler = c.exitHandler
      /\ d.status \subseteq c.status
  BY BeforeCallFields DEF Settled
<1> HIDE DEF d
<1>5. Len(<<f>>) = 1 /\ <<f>>[1] = f /\ <<f>> # <<>> /\ DOMAIN <<f>> = {1}
  OBVIOUS
<1>6. Good(d, <<f>>)
  <2>1. Shape(<<f>>) /\ HeapsInUse(d, <<f>>)
    BY <1>1, <1>4, <1>5 DEF Shape, HeapsInUse
  <2>2. HandlersOnHeap(d) /\ DeadIsClear(d, <<f>>)
    BY <1>4, NoHeapAssumption DEF Settled, HandlersOnHeap, DeadIsClear
  <2>3. LiveShowsStop(d, <<f>>) /\ MainIsRunning(d, <<f>>) /\ BoxIsRecorded(d, <<f>>)
    BY <1>1, <1>4, <1>5 DEF Settled, LiveShowsStop, MainIsRunning, BoxIsRecorded, InExitCall
  <2>4. ModalsCounted(d, <<f>>) /\ IdleWaits(d, <<f>>) /\ ModalHasEntry(d, <<f>>)
    BY <1>1, <1>4, <1>5 DEF Settled, ModalsCounted, InCountedMain, IdleWaits, ModalHasEntry
  <2>5. NoErrorYet(d) /\ RequestsWait(d)
    BY <1>4 DEF Settled, NoErrorYet, RequestsWait
  <2> QED BY <2>1, <2>2, <2>3, <2>4, <2>5 DEF Good
<1> QED BY <1>2, <1>3, <1>6 DEF NextGood

\* A new status changes no other field.
LEMMA StatusFields ==
    ASSUME NEW c \in Console, NEW S \in SUBSET Completions
    PROVE  LET d == [c EXCEPT !.status = S]
           IN  /\ d \in Console /\ d.status = S
               /\ d.ctx = c.ctx /\ d.callbacks = c.callbacks /\ d.alert = c.alert
               /\ d.runningMain = c.runningMain /\ d.dialog = c.dialog
               /\ d.label = c.label /\ d.modalCount = c.modalCount
               /\ d.pending = c.pending /\ d.exitHandler = c.exitHandler
               /\ d.waiting = c.waiting /\ d.waitingCached = c.waitingCached
<1>1. [c EXCEPT !.status = S] \in Console
  BY FieldTypes
<1> QED BY <1>1 DEF Console

\* wrapUp() with no other JavaScript in progress.
LEMMA WrapUpGood ==
    ASSUME NEW c0, Settled(c0), NEW reason \in Completions, fault = "none",
           reason # "HAD_ERROR" => "HAD_ERROR" \notin c0.status,
           reason = "MORETODO" => /\ c0.label = "Stop" /\ c0.dialog = 0
                                  /\ SomethingAwaited(c0)
                                  /\ c0.waitingCached => c0.waiting,
           WrapUp(c0, <<>>, reason)
    PROVE  NextGood
<1> DEFINE c == [c0 EXCEPT !.status = (@ \ {"MORETODO"}) \cup {reason}]
           inExit == [c EXCEPT !.status = (@ \ {"DONE"}) \cup {"INEXIT"}]
<1>1. c0 \in Console /\ c0.status \in SUBSET Completions /\ "INEXIT" \in Completions
  BY FieldTypes DEF Settled, Completions
<1>2. /\ c \in Console /\ c.status = (c0.status \ {"MORETODO"}) \cup {reason}
      /\ c.ctx = c0.ctx /\ c.callbacks = c0.callbacks /\ c.alert = c0.alert
      /\ c.runningMain = c0.runningMain /\ c.dialog = c0.dialog
      /\ c.label = c0.label /\ c.modalCount = c0.modalCount
      /\ c.pending = c0.pending /\ c.exitHandler = c0.exitHandler
      /\ c.waiting = c0.waiting /\ c.waitingCached = c0.waitingCached
  BY <1>1, StatusFields
<1> HIDE DEF c
<1>3. Settled(c)
  BY <1>2 DEF Settled, HandlersOnHeap
<1>4. /\ inExit \in Console /\ inExit.status = (c.status \ {"DONE"}) \cup {"INEXIT"}
      /\ inExit.ctx = c.ctx /\ inExit.callbacks = c.callbacks
      /\ inExit.runningMain = c.runningMain /\ inExit.dialog = c.dialog
      /\ inExit.modalCount = c.modalCount
      /\ inExit.pending = c.pending /\ inExit.exitHandler = c.exitHandler
  <2> DEFINE S == (c.status \ {"DONE"}) \cup {"INEXIT"}
  <2>1. S \in SUBSET Completions
    BY <1>1, <1>2
  <2>2. inExit = [c EXCEPT !.status = S]
    OBVIOUS
  <2> HIDE DEF S
  <2>3. inExit.status = S
    BY <1>2, <2>2 DEF Console
  <2> QED BY <1>2, <2>1, <2>2, <2>3, StatusFields DEF S
<1> HIDE DEF inExit
<1>5. Settled(inExit)
  BY <1>3, <1>4 DEF Settled, HandlersOnHeap
<1>6. c.ctx # NoHeap
  BY <1>3, NoHeapAssumption DEF Settled
<1>7. \/ reason = "MORETODO" /\ Becomes(c, <<>>)
      \/ ClearDown(c, <<>>)
      \/ Finish(c, <<>>, reason)
      \/ /\ reason \notin {"MORETODO", "TIMEOUT", "CLOSING", "HAD_ERROR"}
         /\ c.exitHandler # NoHeap /\ RunExitHandler(c, <<>>, reason)
  BY <1>6, Zenon DEF WrapUp, c
<1>8. CASE reason = "MORETODO" /\ Becomes(c, <<>>)
  <2>1. SomethingAwaited(c) /\ (c.waitingCached => c.waiting) /\ c.label = "Stop" /\ c.dialog = 0
        /\ "HAD_ERROR" \notin c.status
    BY <1>2, <1>8 DEF SomethingAwaited
  <2>2. Good(c, <<>>)
    BY <1>3, <1>6, <2>1 DEF Settled, Good, Shape, HeapsInUse, DeadIsClear, LiveShowsStop,
       MainIsRunning, BoxIsRecorded, ModalsCounted, InCountedMain, IdleWaits, NoErrorYet,
       RequestsWait, ModalHasEntry
  <2> QED BY <1>8, <2>2 DEF Becomes, NextGood
<1>9. CASE ClearDown(c, <<>>)
  BY <1>3, <1>9, ClearDownGood DEF Settled
<1>10. CASE Finish(c, <<>>, reason)
  BY <1>3, <1>10, FinishGood
<1>11. CASE /\ reason \notin {"MORETODO", "TIMEOUT", "CLOSING", "HAD_ERROR"}
            /\ c.exitHandler # NoHeap /\ RunExitHandler(c, <<>>, reason)
  <2>1. c.exitHandler = inExit.ctx
    BY <1>3, <1>4, <1>6, <1>11 DEF Settled, HandlersOnHeap
  <2>2. "HAD_ERROR" \notin c.status /\ "HAD_ERROR" \notin inExit.status
    BY <1>2, <1>4, <1>11
  <2>3. \/ ExitEnds(inExit, <<>>, "HAD_ERROR", reason)
        \/ Call(inExit, <<>>, NewFrame("exit", inExit.ctx, reason))
    BY <1>11, <2>1, Zenon DEF RunExitHandler, inExit
  <2> QED BY <1>5, <2>2, <2>3, CallGood, ExitEndsGood
<1> QED BY <1>7, <1>8, <1>9, <1>10, <1>11

-----------------------------------------------------------------------------
(* The end of a call under way *)

LEMMA BelowFacts ==
    ASSUME NEW s \in Seq(Frame)
    PROVE  /\ Len(s) = 1 => Below(s) = <<>>
           /\ Len(s) = 2 => Below(s) # <<>> /\ Len(Below(s)) = 1 /\ Below(s)[1] = s[1]
<1>1. CASE Len(s) = 1
  <2>1. s # <<>>
    BY <1>1, EmptySeq
  <2>2. Len(Below(s)) = 1 - 1 /\ Below(s) \in Seq(Frame)
    BY <1>1, <2>1, StackTypes
  <2> QED BY <1>1, <2>2, EmptySeq
<1>2. CASE Len(s) = 2
  <2>1. s[1] \in Frame
    BY <1>2
  <2>2. Below(s) = SubSeq(s, 1, 1)
    BY <1>2 DEF Below
  <2>3. 1 \in 1..Len(s) + 1 /\ 1 \in 1 - 1..Len(s) /\ Len(s) - 1 = 1
    BY <1>2
  <2>4. Below(s) \in Seq(Frame) /\ Len(Below(s)) = 1 /\ s # <<>>
    <3>1. s # <<>>
      BY <1>2, EmptySeq
    <3>2. Below(s) \in Seq(Frame) /\ Len(Below(s)) = Len(s) - 1
      BY <3>1, StackTypes
    <3> QED BY <2>3, <3>1, <3>2
  <2>5. SubSeq(s, 1, 1)[1] = s[1]
    BY <1>2, SubSeqProperties
  <2> QED BY <1>2, <2>2, <2>4, <2>5, EmptySeq
<1>3. CASE Len(s) \notin {1, 2}
  BY <1>3
<1> QED BY <1>1, <1>2, <1>3

Interrupted(c) == c.status \cap Interrupts # {}

\* What the end of the innermost call relies on: it may leave the label and
\* the box as they are only where it is not the end of the script, and only
\* the outermost call may fail.
Ready(c, s, threw) ==
    /\ c \in Console /\ s \in Seq(Frame) /\ s # <<>> /\ s[Len(s)].modal = "no"
    /\ Shape(s) /\ HandlersOnHeap(c) /\ ModalsCounted(c, s)
    /\ c.ctx \in Heaps /\ c.pending = 0 /\ "HAD_ERROR" \notin c.status /\ c.dialog \in {0, 1}
    /\ Len(s) = 1 => /\ c.runningMain => s[1].kind = "main"
                     /\ ~threw /\ ~Interrupted(c) /\ s[1].kind # "exit"
                          => c.label = "Stop" /\ c.dialog = 0
    /\ Len(s) = 2 => Good(c, s) /\ (threw => Interrupted(c))

\* What the end of the innermost call makes of the console c0, before it is
\* wrapped up or not: c, with the outcome of the call.
CallOver(c0, s, threw, c, outcome) ==
    LET f == s[Len(s)]
    IN  /\ c \in Console /\ c.waitingCached
        /\ c.waiting <=> ~Interrupted(c0) /\ ~threw /\ SomethingAwaited(c0)
        /\ c.status = IF threw /\ ~Interrupted(c0) THEN c0.status \cup {"HAD_ERROR"}
                                                  ELSE c0.status
        /\ c.ctx = c0.ctx /\ c.callbacks = c0.callbacks /\ c.alert = c0.alert
        /\ c.runningMain = (c0.runningMain /\ f.kind # "main") /\ c.dialog = c0.dialog
        /\ c.label = c0.label
        /\ c.modalCount = c0.modalCount /\ c.pending = c0.pending
        /\ c.exitHandler = c0.exitHandler
        /\ outcome \in Completions
        /\ Interrupted(c0) => outcome \in Interrupts
        /\ c0.status \cap {"TIMEOUT", "CLOSING"} # {} => outcome \in {"TIMEOUT", "CLOSING"}
        /\ ~Interrupted(c0) /\ threw => outcome = "HAD_ERROR"
        /\ ~Interrupted(c0) /\ ~threw /\ SomethingAwaited(c0) => outcome = "MORETODO"
        /\ ~Interrupted(c0) /\ ~threw /\ ~SomethingAwaited(c0) => outcome = "DONE"
        /\ \/ f.kind \in {"main", "callback"} /\ WrapUpUnlessBusy(c, Below(s), outcome)
           \/ f.kind = "dialogue" /\ WrapUp(c, Below(s), outcome)
           \/ f.kind = "exit" /\ ExitEnds(c, Below(s), outcome, f.reason)

LEMMA EndOfCall ==
    ASSUME NEW c0 \in Console, NEW s \in Seq(Frame), s # <<>>, NEW threw \in BOOLEAN,
           FrameEnds(c0, s, threw)
    PROVE  \E c, outcome : CallOver(c0, s, threw, c, outcome)
<1> DEFINE f       == s[Len(s)]
           c1      == [ClearTimeout(c0) EXCEPT !.runningMain = @ /\ f.kind # "main"]
           outcome == Outcome(c1, threw)
           c       == Afterwards(c1, threw)
<1>1. f \in Frame
  BY StackTypes
<1>2. /\ c1 \in Console /\ c1.runningMain = (c0.runningMain /\ f.kind # "main")
      /\ c1.ctx = c0.ctx /\ c1.callbacks = c0.callbacks /\ c1.alert = c0.alert
      /\ c1.dialog = c0.dialog /\ c1.label = c0.label /\ c1.status = c0.status
      /\ c1.modalCount = c0.modalCount /\ c1.pending = c0.pending
      /\ c1.exitHandler = c0.exitHandler
  <2> DEFINE e == ClearTimeout(c0)
  <2>1. e \in Console
    BY <1>1, SimpleMethodTypes
  <2>2. /\ e.runningMain = c0.runningMain
        /\ e.ctx = c0.ctx /\ e.callbacks = c0.callbacks /\ e.alert = c0.alert
        /\ e.dialog = c0.dialog /\ e.label = c0.label /\ e.status = c0.status
        /\ e.modalCount = c0.modalCount /\ e.pending = c0.pending
        /\ e.exitHandler = c0.exitHandler
    BY <1>1 DEF ClearTimeout, Console
  <2> HIDE DEF e
  <2>3. ASSUME NEW b \in BOOLEAN
        PROVE  LET d == [e EXCEPT !.runningMain = b]
               IN  /\ d \in Console /\ d.runningMain = b
                   /\ d.ctx = e.ctx /\ d.callbacks = e.callbacks /\ d.alert = e.alert
                   /\ d.dialog = e.dialog /\ d.label = e.label /\ d.status = e.status
                   /\ d.modalCount = e.modalCount /\ d.pending = e.pending
                   /\ d.exitHandler = e.exitHandler
    BY <2>1 DEF Console
  <2>4. (e.runningMain /\ f.kind # "main") \in BOOLEAN
    OBVIOUS
  <2>5. c1 = [e EXCEPT !.runningMain = (e.runningMain /\ f.kind # "main")]
    BY Zenon DEF e
  <2> QED BY <2>2, <2>3, <2>4, <2>5, ZenonT(30)
<1>3. /\ c \in Console /\ c.waitingCached
      /\ c.waiting <=> ~Interrupted(c0) /\ ~threw /\ SomethingAwaited(c0)
      /\ c.status = IF threw /\ ~Interrupted(c0) THEN c0.status \cup {"HAD_ERROR"} ELSE c0.status
      /\ c.ctx = c0.ctx /\ c.callbacks = c0.callbacks /\ c.alert = c0.alert
      /\ c.runningMain = (c0.runningMain /\ f.kind # "main") /\ c.dialog = c0.dialog
      /\ c.label = c0.label
      /\ c.modalCount = c0.modalCount /\ c.pending = c0.pending
      /\ c.exitHandler = c0.exitHandler
  <2> HIDE DEF c1
  <2>1. Interrupted(c1) = Interrupted(c0) /\ (SomethingAwaited(c1) <=> SomethingAwaited(c0))
    BY <1>2 DEF Interrupted, SomethingAwaited
  <2>2. /\ c \in Console /\ c.waitingCached
        /\ c.waiting <=> ~Interrupted(c1) /\ ~threw /\ SomethingAwaited(c1)
        /\ c.status = IF threw /\ ~Interrupted(c1) THEN c1.status \cup {"HAD_ERROR"} ELSE c1.status
        /\ c.ctx = c1.ctx /\ c.callbacks = c1.callbacks /\ c.alert = c1.alert
        /\ c.runningMain = c1.runningMain /\ c.dialog = c1.dialog /\ c.label = c1.label
        /\ c.modalCount = c1.modalCount /\ c.pending = c1.pending
        /\ c.exitHandler = c1.exitHandler
    BY <1>2, AfterwardsFields, Zenon DEF Interrupted
  <2> HIDE DEF c
  <2> QED BY <1>2, <2>1, <2>2
<1>4. /\ outcome \in Completions
      /\ Interrupted(c0) => outcome \in Interrupts
      /\ c0.status \cap {"TIMEOUT", "CLOSING"} # {} => outcome \in {"TIMEOUT", "CLOSING"}
      /\ ~Interrupted(c0) /\ threw => outcome = "HAD_ERROR"
      /\ ~Interrupted(c0) /\ ~threw /\ SomethingAwaited(c0) => outcome = "MORETODO"
      /\ ~Interrupted(c0) /\ ~threw /\ ~SomethingAwaited(c0) => outcome = "DONE"
  <2> HIDE DEF c1
  <2> QED BY <1>2, OutcomeCases, OutcomeType DEF Interrupted, SomethingAwaited
<1>5. \/ f.kind \in {"main", "callback"} /\ WrapUpUnlessBusy(c, Below(s), outcome)
      \/ f.kind = "dialogue" /\ WrapUp(c, Below(s), outcome)
      \/ f.kind = "exit" /\ ExitEnds(c, Below(s), outcome, f.reason)
  <2>1. f.kind \in {"main", "callback", "dialogue", "exit"}
    BY <1>1 DEF Frame
  <2> QED BY <2>1 DEF FrameEnds
<1> HIDE DEF c, outcome, c1
<1>6. CallOver(c0, s, threw, c, outcome)
  BY <1>3, <1>4, <1>5 DEF CallOver
<1> QED BY <1>6

LEMMA FrameEndsGood ==
    ASSUME NEW c0, NEW s, NEW threw \in BOOLEAN, Ready(c0, s, threw), fault = "none",
           FrameEnds(c0, s, threw)
    PROVE  NextGood
<1> DEFINE f == s[Len(s)]
<1>1. c0 \in Console /\ s \in Seq(Frame) /\ s # <<>> /\ f \in Frame
  BY StackTypes DEF Ready
<1>2. PICK c, outcome : CallOver(c0, s, threw, c, outcome)
  BY <1>1, EndOfCall
<1>3. /\ c \in Console /\ c.waitingCached
      /\ c.waiting <=> ~Interrupted(c0) /\ ~threw /\ SomethingAwaited(c0)
      /\ c.status = IF threw /\ ~Interrupted(c0) THEN c0.status \cup {"HAD_ERROR"} ELSE c0.status
      /\ c.ctx = c0.ctx /\ c.callbacks = c0.callbacks /\ c.alert = c0.alert
      /\ c.runningMain = (c0.runningMain /\ f.kind # "main") /\ c.dialog = c0.dialog
      /\ c.label = c0.label
      /\ c.modalCount = c0.modalCount /\ c.pending = c0.pending
      /\ c.exitHandler = c0.exitHandler
  BY <1>2 DEF CallOver
<1>4. /\ outcome \in Completions
      /\ Interrupted(c0) => outcome \in Interrupts
      /\ ~Interrupted(c0) /\ threw => outcome = "HAD_ERROR"
      /\ ~Interrupted(c0) /\ ~threw /\ SomethingAwaited(c0) => outcome = "MORETODO"
      /\ ~Interrupted(c0) /\ ~threw /\ ~SomethingAwaited(c0) => outcome = "DONE"
  BY <1>2 DEF CallOver
<1>5. \/ f.kind \in {"main", "callback"} /\ WrapUpUnlessBusy(c, Below(s), outcome)
      \/ f.kind = "dialogue" /\ WrapUp(c, Below(s), outcome)
      \/ f.kind = "exit" /\ ExitEnds(c, Below(s), outcome, f.reason)
  BY <1>2 DEF CallOver
<1>6. CASE Len(s) = 1
  <2>1. Below(s) = <<>> /\ f = s[1]
    BY <1>1, <1>6, BelowFacts
  <2>2. s[1].modal = "no" /\ (c0.runningMain => f.kind = "main")
        /\ (~threw /\ ~Interrupted(c0) /\ f.kind # "exit" => c0.label = "Stop" /\ c0.dialog = 0)
    BY <1>6, <2>1 DEF Ready
  <2>3. ~c.runningMain /\ c.modalCount = 0
    BY <1>1, <1>3, <2>1, <2>2 DEF Ready, ModalsCounted, InCountedMain
  <2>4. Settled(c)
    BY <1>3, <2>3 DEF Ready, Settled, HandlersOnHeap
  <2>5. SomethingAwaited(c) <=> SomethingAwaited(c0)
    BY <1>3 DEF SomethingAwaited
  <2>6. outcome # "HAD_ERROR" => "HAD_ERROR" \notin c.status
    BY <1>3, <1>4 DEF Ready
  <2>7. outcome = "MORETODO" => ~threw /\ ~Interrupted(c0) /\ SomethingAwaited(c)
    BY <1>4, <2>5 DEF Interrupts
  <2>8. CASE f.kind = "exit"
    BY <1>5, <2>1, <2>4, <2>8, ExitEndsGood
  <2>9. CASE f.kind = "dialogue"
    BY <1>3, <1>4, <1>5, <2>1, <2>2, <2>4, <2>6, <2>7, <2>9, WrapUpGood
  <2>10. CASE f.kind \in {"main", "callback"}
    <3> DEFINE d == Asked(c)
    <3>1. IsBusy(c) <=> c.waiting
      BY <1>3, <2>3 DEF IsBusy, IsWaiting
    <3>2. AskedBusy(c) = d
      BY <2>3 DEF AskedBusy
    <3>3. /\ d \in Console /\ d.waiting = c.waiting /\ d.waitingCached
          /\ d.ctx = c.ctx /\ d.callbacks = c.callbacks /\ d.alert = c.alert
          /\ d.runningMain = c.runningMain /\ d.dialog = c.dialog
          /\ d.label = c.label /\ d.status = c.status
          /\ d.modalCount = c.modalCount /\ d.pending = c.pending
          /\ d.exitHandler = c.exitHandler
      BY <1>3, AskedFields DEF IsWaiting
    <3> HIDE DEF d
    <3>4. Settled(d) /\ (SomethingAwaited(d) <=> SomethingAwaited(c))
      BY <2>4, <3>3 DEF Settled, HandlersOnHeap, SomethingAwaited
    <3>5. CASE c.waiting
      <4>1. ~threw /\ ~Interrupted(c0) /\ SomethingAwaited(c)
        BY <1>3, <2>5, <3>5
      <4>2. d.label = "Stop" /\ d.dialog = 0 /\ "HAD_ERROR" \notin d.status
        BY <1>3, <2>2, <2>10, <3>3, <4>1 DEF Ready
      <4>3. Good(d, <<>>)
        BY <3>3, <3>4, <3>5, <4>1, <4>2, NoHeapAssumption
           DEF Settled, Good, Shape, HeapsInUse, DeadIsClear, LiveShowsStop,
               MainIsRunning, BoxIsRecorded, ModalsCounted, InCountedMain, IdleWaits, NoErrorYet,
               RequestsWait, ModalHasEntry
      <4>4. Becomes(d, <<>>)
        BY <1>5, <2>1, <2>10, <3>1, <3>2, <3>5 DEF WrapUpUnlessBusy
      <4> QED BY <4>3, <4>4 DEF Becomes, NextGood
    <3>6. CASE ~c.waiting
      <4>1. WrapUp(d, <<>>, outcome)
        BY <1>5, <2>1, <2>10, <3>1, <3>2, <3>6 DEF WrapUpUnlessBusy
      <4>2. outcome # "MORETODO"
        BY <1>3, <2>5, <2>7, <3>6
      <4> QED BY <1>4, <2>6, <3>3, <3>4, <4>1, <4>2, WrapUpGood
    <3> QED BY <3>5, <3>6
  <2> QED BY <1>5, <2>8, <2>9, <2>10
<1>7. CASE Len(s) = 2
  <2>1. Good(c0, s) /\ (threw => Interrupted(c0))
    BY <1>7 DEF Ready
  <2>2. f = s[2] /\ f.kind = "callback" /\ s[1].modal # "no" /\ s[1].kind = "main"
    BY <1>7, <2>1 DEF Good, Shape
  <2>3. c0.runningMain /\ c.runningMain
    BY <1>1, <1>3, <2>1, <2>2 DEF Good, MainIsRunning
  <2>4. Becomes(c, Below(s))
    BY <1>5, <2>2, <2>3 DEF WrapUpUnlessBusy, IsBusy, AskedBusy
  <2> DEFINE t == Below(s)
  <2>5. t # <<>> /\ Len(t) = 1 /\ t[1] = s[1] /\ t \in Seq(Frame)
    BY <1>1, <1>7, BelowFacts, StackTypes
  <2>6. DOMAIN t = {1} /\ 1 \in DOMAIN s
    BY <1>1, <1>7, <2>5
  <2> HIDE DEF t
  <2>7. c.status = c0.status
    BY <1>3, <2>1
  <2>8. Good(c, t)
    <3>1. Shape(t)
      BY <2>2, <2>5 DEF Shape
    <3>2. HeapsInUse(c, t)
      BY <1>3, <2>1, <2>5, <2>6 DEF Good, HeapsInUse
    <3>3. HandlersOnHeap(c)
      BY <1>3 DEF Ready, HandlersOnHeap
    <3>4. DeadIsClear(c, t) /\ LiveShowsStop(c, t) /\ MainIsRunning(c, t) /\ BoxIsRecorded(c, t)
      BY <1>1, <1>3, <2>1, <2>2, <2>3, <2>5, NoHeapAssumption
         DEF Ready, Good, DeadIsClear, LiveShowsStop, MainIsRunning, BoxIsRecorded, InExitCall
    <3>5. ModalsCounted(c, t) /\ IdleWaits(c, t) /\ ModalHasEntry(c, t)
      BY <1>1, <1>3, <2>1, <2>5
         DEF Good, ModalsCounted, InCountedMain, IdleWaits, ModalHasEntry
    <3>6. NoErrorYet(c) /\ RequestsWait(c)
      BY <1>3, <2>7 DEF Ready, NoErrorYet, RequestsWait
    <3> QED BY <3>1, <3>2, <3>3, <3>4, <3>5, <3>6 DEF Good
  <2> QED BY <2>4, <2>8 DEF Becomes, NextGood, t
<1>8. Len(s) = 1 \/ Len(s) = 2
  <2>1. Len(s) \in Nat /\ Len(s) # 0
    BY <1>1, EmptySeq
  <2>2. Len(s) <= 2
    BY DEF Ready, Shape
  <2>3. \A n \in Nat : n # 0 /\ n <= 2 => n = 1 \/ n = 2
    OBVIOUS
  <2> QED BY <2>1, <2>2, <2>3, Zenon
<1> QED BY <1>6, <1>7, <1>8

-----------------------------------------------------------------------------
(* Steps of running JavaScript *)

\* The only call in progress, not in a modal dialogue, may fail.
Alone(c, s) ==
    /\ c \in Console /\ s \in Seq(Frame) /\ Len(s) = 1 /\ s[1].modal = "no"
    /\ c.ctx \in Heaps /\ HandlersOnHeap(c)
    /\ c.pending = 0 /\ c.modalCount = 0 /\ "HAD_ERROR" \notin c.status /\ c.dialog \in {0, 1}
    /\ c.runningMain => s[1].kind = "main"

LEMMA AloneThrows ==
    ASSUME NEW c, NEW s, Alone(c, s), fault = "none", FrameEnds(c, s, TRUE)
    PROVE  NextGood
<1>1. s # <<>>
  <2>1. s \in Seq(Frame) /\ Len(s) = 1
    BY DEF Alone
  <2> QED BY <2>1, EmptySeq
<1>2. Ready(c, s, TRUE)
  BY <1>1 DEF Alone, Ready, Shape, ModalsCounted, InCountedMain
<1> QED BY <1>2, FrameEndsGood

\* The methods that are called on the way to a failure keep the call alone.
LEMMA AloneKept ==
    ASSUME NEW c, NEW s, Alone(c, s)
    PROVE  /\ Alone(PrepForThrow(c), s)
           /\ Alone(ClearCallbacks(c), s)
           /\ \A S \in SUBSET Completions : "HAD_ERROR" \notin S =>
                 Alone([c EXCEPT !.status = S], s)
<1>1. c \in Console
  BY DEF Alone
<1>2. Alone(PrepForThrow(c), s)
  <2> DEFINE d == PrepForThrow(c)
  <2>1. d \in Console /\ ~d.runningMain /\ d.status = c.status
        /\ d.ctx = c.ctx /\ d.callbacks = c.callbacks /\ d.exitHandler = c.exitHandler
        /\ d.dialog = c.dialog /\ d.modalCount = c.modalCount /\ d.pending = c.pending
    BY <1>1, SimpleMethodTypes, SMTT(20) DEF PrepForThrow, Console
  <2> HIDE DEF d
  <2>2. Alone(d, s)
    BY <2>1 DEF Alone, HandlersOnHeap
  <2> QED BY <2>2 DEF d
<1>3. Alone(ClearCallbacks(c), s)
  <2> DEFINE d == ClearCallbacks(c)
  <2>1. d \in Console /\ ~d.runningMain /\ d.status = c.status
        /\ d.ctx = c.ctx /\ d.callbacks = {} /\ d.exitHandler = c.exitHandler
        /\ d.dialog = 0 /\ d.modalCount = c.modalCount /\ d.pending = c.pending
    BY <1>1, ClearCallbacksFields
  <2> HIDE DEF d
  <2>2. Alone(d, s)
    BY <2>1 DEF Alone, HandlersOnHeap
  <2> QED BY <2>2 DEF d
<1>4. ASSUME NEW S \in SUBSET Completions, "HAD_ERROR" \notin S
      PROVE  Alone([c EXCEPT !.status = S], s)
  <2> DEFINE d == [c EXCEPT !.status = S]
  <2>1. d \in Console /\ d.runningMain = c.runningMain /\ d.status = S
        /\ d.ctx = c.ctx /\ d.callbacks = c.callbacks /\ d.exitHandler = c.exitHandler
        /\ d.dialog = c.dialog /\ d.modalCount = c.modalCount /\ d.pending = c.pending
    BY <1>1, StatusFields
  <2> HIDE DEF d
  <2>2. Alone(d, s)
    BY <1>4, <2>1 DEF Alone, HandlersOnHeap
  <2> QED BY <2>2 DEF d
<1> QED BY <1>2, <1>3, <1>4

\* While JavaScript is in progress, much may change and leave the console good.
LEMMA GoodKept ==
    ASSUME NEW c, NEW s, NEW d, Good(c, s), s # <<>>, c.ctx \in Heaps,
           d.ctx = c.ctx, d.label = c.label, d.runningMain = c.runningMain,
           d.dialog = c.dialog, d.modalCount = c.modalCount, d.pending = c.pending,
           HandlersOnHeap(d), "HAD_ERROR" \notin d.status, ModalHasEntry(d, s)
    PROVE  Good(d, s)
BY NoHeapAssumption DEF Good, HeapsInUse, DeadIsClear, LiveShowsStop, MainIsRunning,
   BoxIsRecorded, ModalsCounted, InCountedMain, IdleWaits, NoErrorYet, RequestsWait

LEMMA JSFacts ==
    ASSUME TypeOK, IInv, JS
    PROVE  /\ con \in Console /\ stack \in Seq(Frame) /\ stack # <<>> /\ fault = "none"
           /\ open /\ open' = open
           /\ Good(con, stack) /\ con.ctx \in Heaps /\ "HAD_ERROR" \notin con.status
           /\ Top.modal = "no" /\ Top.heap = con.ctx
           /\ \/ /\ Len(stack) = 1 /\ Top = stack[1] /\ ModalFrames(stack) = {}
                 /\ Alone(con, stack) /\ Dismissed(stack, con.dialog) = stack
              \/ /\ Len(stack) = 2 /\ ModalFrames(stack) # {}
                 /\ ~Prompting(stack) => con.modalCount = 1
                 /\ Top.kind = "callback"
<1>1. con \in Console /\ stack \in Seq(Frame) /\ stack # <<>> /\ fault = "none"
      /\ open /\ open' = open /\ Good(con, stack) /\ Top.modal = "no"
  BY DEF TypeOK, IInv, JS, JSRunning, Running
<1>2. Len(stack) \in Nat /\ Len(stack) >= 1 /\ DOMAIN stack = 1..Len(stack)
  BY <1>1
<1>3. Len(stack) = 1 \/ Len(stack) = 2
  <2>1. Len(stack) <= 2
    BY <1>1 DEF Good, Shape
  <2> QED BY <1>2, <2>1
<1>4. Top.heap = con.ctx /\ con.ctx \in Heaps /\ 1 \in DOMAIN stack /\ Len(stack) \in DOMAIN stack
  <2>1. 1 \in DOMAIN stack /\ Len(stack) \in DOMAIN stack
    BY <1>2
  <2>2. Top \in Frame
    BY <1>1, StackTypes DEF Top
  <2>3. Top.heap = con.ctx
    BY <1>1, <2>1 DEF Good, HeapsInUse, Top
  <2> QED BY <2>1, <2>2, <2>3 DEF Frame
<1>5. "HAD_ERROR" \notin con.status /\ con.pending = 0
  <2>1. con.pending \in Nat
    BY <1>1, FieldTypes
  <2>2. con.ctx # NoHeap
    BY <1>4, NoHeapAssumption
  <2> QED BY <1>1, <2>1, <2>2 DEF Good, NoErrorYet, RequestsWait
<1>6. CASE Len(stack) = 1
  <2>1. Top = stack[1] /\ stack[1].modal = "no" /\ con.modalCount = 0
    BY <1>1, <1>6 DEF Top, Good, ModalsCounted, InCountedMain
  <2>2. ModalFrames(stack) = {}
    BY <1>2, <1>6, <2>1 DEF ModalFrames
  <2>3. Dismissed(stack, con.dialog) = stack
    BY <1>2, <1>6, <2>1 DEF Dismissed, StillModal
  <2>4. Alone(con, stack)
    BY <1>1, <1>4, <1>5, <1>6, <2>1 DEF Good, Alone, MainIsRunning, BoxIsRecorded
  <2> QED BY <1>1, <1>4, <1>5, <1>6, <2>1, <2>2, <2>3, <2>4
<1>7. CASE Len(stack) = 2
  <2>1. stack[1].modal # "no" /\ Top.kind = "callback"
    BY <1>1, <1>7 DEF Good, Shape, Top
  <2>2. ModalFrames(stack) # {}
    BY <1>4, <2>1 DEF ModalFrames
  <2>3. ASSUME ~Prompting(stack) PROVE con.modalCount = 1
    <3>1. stack[1] \in Frame
      BY <1>1, <1>4
    <3>2. stack[1].modal \in {"message", "dialogue"}
      BY <1>4, <2>1, <2>3, <3>1 DEF Prompting, Frame
    <3> QED BY <1>1, <3>2 DEF Good, ModalsCounted, InCountedMain
  <2> QED BY <1>1, <1>4, <1>5, <1>7, <2>1, <2>2, <2>3
<1> QED BY <1>3, <1>6, <1>7

\* A good console stays one when only its status changes, and not to an error.
LEMMA GoodStatus ==
    ASSUME NEW c \in Console, NEW s, Good(c, s), s # <<>>, c.ctx \in Heaps,
           NEW S \in SUBSET Completions, "HAD_ERROR" \notin S
    PROVE  Good([c EXCEPT !.status = S], s)
<1> DEFINE d == [c EXCEPT !.status = S]
<1>1. d \in Console /\ d.runningMain = c.runningMain /\ d.status = S
      /\ d.ctx = c.ctx /\ d.callbacks = c.callbacks /\ d.exitHandler = c.exitHandler
      /\ d.dialog = c.dialog /\ d.modalCount = c.modalCount /\ d.pending = c.pending
      /\ d.label = c.label
  BY StatusFields
<1> HIDE DEF d
<1>2. HandlersOnHeap(d) /\ ModalHasEntry(d, s)
  BY <1>1 DEF Good, HandlersOnHeap, ModalHasEntry
<1>3. Good(d, s)
  BY <1>1, <1>2, GoodKept
<1> QED BY <1>3 DEF d

\* What a call throws is not caught, and is not thrown under a modal dialogue.
LEMMA ApiThrowGood ==
    ASSUME Practices = {}, NEW c, NEW s, Alone(c, s), fault = "none", ApiThrow(c, s)
    PROVE  NextGood
<1>1. FrameEnds(PrepForThrow(c), s, TRUE)
  BY DEF ApiThrow, Thrown
<1> QED BY <1>1, AloneKept, AloneThrows

LEMMA FailuresAreAlone ==
    ASSUME Practices = {}, TypeOK, IInv, JS, MayFail
    PROVE  Alone(con, stack) /\ Dismissed(stack, con.dialog) = stack
BY JSFacts DEF MayFail

LEMMA TooManyGood ==
    ASSUME Practices = {}, TypeOK, IInv, JS, TooManyCallbacks
    PROVE  NextGood
<1>1. ApiThrow(ClearCallbacks(con), Dismissed(stack, con.dialog))
  BY DEF TooManyCallbacks
<1>2. Alone(con, stack) /\ Dismissed(stack, con.dialog) = stack
  BY <1>1, FailuresAreAlone DEF ApiThrow
<1> QED BY <1>1, <1>2, AloneKept, ApiThrowGood, JSFacts

\* An interrupt ends the innermost call, in whatever it is nested.
LEMMA InterruptGood ==
    ASSUME TypeOK, IInv, JS, NEW why \in {"TIMEOUT", "TOCHAIN"},
           FrameEnds([con EXCEPT !.status = @ \cup {why}], stack, TRUE)
    PROVE  NextGood
<1> DEFINE S == con.status \cup {why}
           c == [con EXCEPT !.status = S]
<1>1. con \in Console /\ S \in SUBSET Completions /\ "HAD_ERROR" \notin S
  BY JSFacts, FieldTypes DEF Completions
<1>2. FrameEnds(c, stack, TRUE)
  OBVIOUS
<1>3. fault = "none"
  BY JSFacts
<1>4. CASE Alone(con, stack)
  <2>1. Alone(c, stack)
    BY <1>1, <1>4, AloneKept
  <2> QED BY <1>2, <1>3, <2>1, AloneThrows
<1>5. CASE ~Alone(con, stack)
  <2> HIDE DEF S
  <2>1. Len(stack) = 2 /\ Good(con, stack) /\ con.ctx \in Heaps /\ stack # <<>>
        /\ stack \in Seq(Frame) /\ Top.modal = "no"
    BY <1>5, JSFacts
  <2>2. Good(c, stack)
    BY <1>1, <2>1, GoodStatus
  <2>3. c \in Console /\ c.status = S /\ c.ctx = con.ctx
    BY <1>1, StatusFields
  <2>4. Interrupted(c) /\ "HAD_ERROR" \notin c.status
    BY <1>1, <2>3 DEF Interrupted, Interrupts, S
  <2>5. c.pending = 0 /\ c.dialog \in {0, 1}
    <3>1. c.pending \in Nat /\ c.ctx # NoHeap
      BY <2>1, <2>3, FieldTypes, NoHeapAssumption
    <3> QED BY <2>2, <3>1 DEF Good, RequestsWait, BoxIsRecorded
  <2> HIDE DEF c
  <2>6. Ready(c, stack, TRUE)
    BY <2>1, <2>2, <2>3, <2>4, <2>5 DEF Ready, Good, Top
  <2> QED BY <1>2, <1>3, <2>6, FrameEndsGood
<1> QED BY <1>4, <1>5

\* JavaScript that returns leaves its script as the end of a call relies on.
LEMMA ReadyToReturn ==
    ASSUME TypeOK, IInv, JS
    PROVE  Ready(con, stack, FALSE)
<1>1. /\ con \in Console /\ stack \in Seq(Frame) /\ stack # <<>>
      /\ Good(con, stack) /\ con.ctx \in Heaps /\ "HAD_ERROR" \notin con.status
      /\ stack[Len(stack)].modal = "no" /\ Len(stack) \in {1, 2}
  BY JSFacts DEF Top
<1>2. con.pending = 0 /\ con.ctx # NoHeap
  <2>1. con.pending \in Nat /\ con.ctx # NoHeap
    BY <1>1, FieldTypes, NoHeapAssumption
  <2> QED BY <1>1, <2>1 DEF Good, RequestsWait
<1>3. Len(stack) = 1 => /\ con.runningMain => stack[1].kind = "main"
                        /\ stack[1].kind # "exit" => con.label = "Stop" /\ con.dialog = 0
  BY <1>1, <1>2 DEF Good, MainIsRunning, LiveShowsStop, BoxIsRecorded, InExitCall
<1> QED BY <1>1, <1>2, <1>3 DEF Ready, Good, BoxIsRecorded

LEMMA ReturnGood ==
    ASSUME TypeOK, IInv, Return
    PROVE  NextGood
BY ReadyToReturn, FrameEndsGood, JSFacts DEF Return

\* Setting what the end of a call does not depend on.
LEMMA SetsGood ==
    ASSUME TypeOK, IInv, JS, NEW d, Sets(d),
           d.ctx = con.ctx, d.label = con.label, d.runningMain = con.runningMain,
           d.dialog = con.dialog, d.modalCount = con.modalCount, d.pending = con.pending,
           HandlersOnHeap(d), "HAD_ERROR" \notin d.status, ModalHasEntry(d, stack)
    PROVE  NextGood
<1>1. Good(con, stack) /\ stack # <<>> /\ con.ctx \in Heaps /\ fault = "none"
  BY JSFacts
<1>2. Good(d, stack)
  BY <1>1, GoodKept
<1> QED BY <1>1, <1>2 DEF Sets, Becomes, NextGood

LEMMA RegisterGood ==
    ASSUME Practices = {}, TypeOK, IInv,
           NEW type \in Types, NEW persistant \in BOOLEAN, Register(type, persistant)
    PROVE  NextGood
<1>1. JS
  BY DEF Register
<1>2. con \in Console /\ Good(con, stack) /\ Top.heap = con.ctx /\ fault = "none"
      /\ "HAD_ERROR" \notin con.status
  BY <1>1, JSFacts
<1>3. CASE ApiThrow(con, stack)
  <2>1. Alone(con, stack)
    BY <1>1, <1>3, FailuresAreAlone DEF ApiThrow
  <2> QED BY <1>2, <1>3, <2>1, ApiThrowGood
<1>4. CASE TooManyCallbacks
  BY <1>1, <1>4, TooManyGood
<1>5. CASE \E id \in FreeIds :
             Sets(AddEntry(con, [id |-> id, type |-> type, persistant |-> persistant,
                                 heap |-> Top.heap]))
  <2>1. PICK id \in FreeIds :
             Sets(AddEntry(con, [id |-> id, type |-> type, persistant |-> persistant,
                                 heap |-> Top.heap]))
    BY <1>5
  <2> DEFINE e == [id |-> id, type |-> type, persistant |-> persistant, heap |-> Top.heap]
             d == AddEntry(con, e)
  <2>2. e.heap = con.ctx
    BY <1>2
  <2> HIDE DEF e
  <2>3. /\ d.ctx = con.ctx /\ d.label = con.label /\ d.runningMain = con.runningMain
        /\ d.dialog = con.dialog /\ d.modalCount = con.modalCount /\ d.pending = con.pending
        /\ d.status = con.status /\ d.exitHandler = con.exitHandler
        /\ d.callbacks = con.callbacks \cup {e}
    BY <1>2 DEF AddEntry, Console
  <2> HIDE DEF d
  <2>4. HandlersOnHeap(d) /\ ModalHasEntry(d, stack)
    BY <1>2, <2>2, <2>3 DEF Good, HandlersOnHeap, ModalHasEntry
  <2>5. Sets(d)
    BY <2>1 DEF d, e
  <2> QED BY <1>1, <1>2, <2>3, <2>4, <2>5, SetsGood
<1> QED BY <1>3, <1>4, <1>5 DEF Register

\* Cancelling callbacks leaves the entry that an open modal dialogue needs.
LEMMA CancelGood ==
    ASSUME Practices = {}, TypeOK, IInv, NEW S, S \subseteq con.callbacks, Cancel(S)
    PROVE  NextGood
<1>1. JS
  BY DEF Cancel
<1>2. con \in Console /\ stack \in Seq(Frame) /\ Good(con, stack) /\ stack # <<>>
      /\ "HAD_ERROR" \notin con.status
  BY <1>1, JSFacts
<1> DEFINE d == RemoveEntries(con, S)
<1>3. /\ d.ctx = con.ctx /\ d.label = con.label /\ d.runningMain = con.runningMain
      /\ d.dialog = con.dialog /\ d.modalCount = con.modalCount /\ d.pending = con.pending
      /\ d.status = con.status /\ d.exitHandler = con.exitHandler
      /\ d.callbacks = con.callbacks \ S
  BY <1>2 DEF RemoveEntries, Console
<1>4. Sets(d)
  BY DEF Cancel
<1> HIDE DEF d
<1>5. HandlersOnHeap(d)
  BY <1>2, <1>3 DEF Good, HandlersOnHeap
<1>6. ModalHasEntry(d, stack)
  <2>1. CASE ModalFrames(stack) = {}
    <3>1. 1 \in DOMAIN stack
      BY <1>2
    <3> QED BY <2>1, <3>1 DEF ModalFrames, ModalHasEntry
  <2>2. CASE ~ \E e \in S : e.type = "CB_DIALOGUE"
    BY <1>2, <1>3, <2>2 DEF Good, ModalHasEntry
  <2> QED BY <2>1, <2>2 DEF Cancel
<1> QED BY <1>1, <1>2, <1>3, <1>4, <1>5, <1>6, SetsGood

LEMMA AlertGood ==
    ASSUME TypeOK, IInv, Alert \/ CancelAlert
    PROVE  NextGood
<1>1. JS /\ \E d \in {ShowAlert(con), ClearAlert(con)} : Sets(d)
  BY DEF Alert, CancelAlert
<1>2. PICK d \in {ShowAlert(con), ClearAlert(con)} : Sets(d)
  BY <1>1
<1>3. con \in Console /\ Good(con, stack) /\ "HAD_ERROR" \notin con.status
  BY <1>1, JSFacts
<1>4. /\ d.ctx = con.ctx /\ d.label = con.label /\ d.runningMain = con.runningMain
      /\ d.dialog = con.dialog /\ d.modalCount = con.modalCount /\ d.pending = con.pending
      /\ d.status = con.status /\ d.exitHandler = con.exitHandler
      /\ d.callbacks = con.callbacks
  BY <1>2, <1>3, ZenonT(30) DEF ShowAlert, ClearAlert, Console
<1>5. HandlersOnHeap(d) /\ ModalHasEntry(d, stack)
  BY <1>3, <1>4 DEF Good, HandlersOnHeap, ModalHasEntry
<1> QED BY <1>1, <1>2, <1>3, <1>4, <1>5, SetsGood

LEMMA OnExitGood ==
    ASSUME Practices = {}, TypeOK, IInv, OnExit
    PROVE  NextGood
<1>1. JS
  BY DEF OnExit
<1>2. con \in Console /\ Good(con, stack) /\ Top.heap = con.ctx /\ fault = "none"
      /\ "HAD_ERROR" \notin con.status
  BY <1>1, JSFacts
<1>3. CASE ApiThrow(con, stack)
  BY <1>1, <1>2, <1>3, FailuresAreAlone, ApiThrowGood DEF ApiThrow
<1>4. CASE Sets([con EXCEPT !.exitHandler = Top.heap])
  <2> DEFINE d == [con EXCEPT !.exitHandler = Top.heap]
  <2>1. /\ d.ctx = con.ctx /\ d.label = con.label /\ d.runningMain = con.runningMain
        /\ d.dialog = con.dialog /\ d.modalCount = con.modalCount /\ d.pending = con.pending
        /\ d.status = con.status /\ d.exitHandler = con.ctx
        /\ d.callbacks = con.callbacks
    BY <1>2 DEF Console
  <2>2. Sets(d)
    BY <1>4
  <2> HIDE DEF d
  <2>3. HandlersOnHeap(d) /\ ModalHasEntry(d, stack)
    BY <1>2, <2>1 DEF Good, HandlersOnHeap, ModalHasEntry
  <2> QED BY <1>1, <1>2, <2>1, <2>2, <2>3, SetsGood
<1> QED BY <1>3, <1>4 DEF OnExit

LEMMA StopScriptGood ==
    ASSUME Practices = {}, TypeOK, IInv, StopScript
    PROVE  NextGood
<1> DEFINE S == con.status \cup {"STOPPED"}
           c == [con EXCEPT !.status = S]
<1>1. JS
  BY DEF StopScript
<1>2. con \in Console /\ Good(con, stack) /\ fault = "none" /\ "HAD_ERROR" \notin S
      /\ S \in SUBSET Completions
  BY <1>1, JSFacts, FieldTypes DEF Completions
<1> HIDE DEF S
<1>3. \/ Sets(c)
      \/ con.modalCount <= 0
         /\ \/ ApiThrow(c, stack)
            \/ Thrown(ClearCallbacks(c), Dismissed(stack, con.dialog))
  <2>1. con.modalCount > 0 \/ con.modalCount <= 0
    <3>1. con.modalCount \in Int
      BY <1>2, FieldTypes
    <3> QED BY <3>1
  <2> QED BY <2>1 DEF StopScript, S
<1>4. CASE Sets(c)
  <2>1. /\ c.ctx = con.ctx /\ c.label = con.label /\ c.runningMain = con.runningMain
        /\ c.dialog = con.dialog /\ c.modalCount = con.modalCount /\ c.pending = con.pending
        /\ c.status = S /\ c.exitHandler = con.exitHandler /\ c.callbacks = con.callbacks
    BY <1>2, StatusFields
  <2> HIDE DEF c
  <2>2. HandlersOnHeap(c) /\ ModalHasEntry(c, stack)
    BY <1>2, <2>1 DEF Good, HandlersOnHeap, ModalHasEntry
  <2> QED BY <1>1, <1>2, <1>4, <2>1, <2>2, SetsGood
<1>5. CASE /\ con.modalCount <= 0
           /\ \/ ApiThrow(c, stack)
              \/ Thrown(ClearCallbacks(c), Dismissed(stack, con.dialog))
  <2>1. Alone(con, stack) /\ Dismissed(stack, con.dialog) = stack
    <3>1. ~Prompting(stack)
      BY DEF StopScript
    <3> QED BY <1>1, <1>5, <3>1, JSFacts
  <2>2. Alone(c, stack)
    BY <1>2, <2>1, AloneKept
  <2>3. Alone(ClearCallbacks(c), stack)
    BY <2>2, AloneKept
  <2>4. ApiThrow(c, stack) \/ FrameEnds(ClearCallbacks(c), stack, TRUE)
    BY <1>5, <2>1 DEF Thrown
  <2> QED BY <1>2, <2>2, <2>3, <2>4, ApiThrowGood, AloneThrows
<1> QED BY <1>3, <1>4, <1>5

LEMMA InterruptsGood ==
    ASSUME Practices = {}, TypeOK, IInv, Timeout \/ ChainScript
    PROVE  NextGood
<1>1. JS /\ \E why \in {"TIMEOUT", "TOCHAIN"} :
                FrameEnds([con EXCEPT !.status = @ \cup {why}], stack, TRUE)
  BY DEF Timeout, ChainScript, Thrown
<1> QED BY <1>1, InterruptGood

LEMMA ErrorsGood ==
    ASSUME Practices = {}, TypeOK, IInv, ApiError \/ ScriptError
    PROVE  NextGood
<1>1. JS /\ MayFail
  BY DEF ApiError, ScriptError, ApiThrow
<1>2. Alone(con, stack) /\ fault = "none"
  BY <1>1, FailuresAreAlone, JSFacts
<1> QED BY <1>2, ApiThrowGood, AloneThrows DEF ApiError, ScriptError

\* Only main opens a modal dialogue, when it is the only call in progress.
LEMMA MayGoModalFacts ==
    ASSUME Practices = {}, TypeOK, IInv, NEW modal, MayGoModal(modal)
    PROVE  /\ JS /\ Alone(con, stack) /\ con.runningMain /\ con.label = "Stop" /\ con.dialog = 0
           /\ stack[1].kind = "main" /\ stack[1].heap = con.ctx /\ stack[1] \in Frame
           /\ Good(con, stack)
<1>1. JS /\ Top.kind = "main"
  BY DEF MayGoModal
<1>2. Alone(con, stack) /\ Top = stack[1] /\ Good(con, stack) /\ Top.heap = con.ctx
      /\ Top.modal = "no" /\ stack # <<>> /\ stack \in Seq(Frame) /\ con.ctx \in Heaps
  <2>1. Top.kind # "callback"
    BY <1>1
  <2> QED BY <1>1, <2>1, JSFacts
<1>3. stack[1] \in Frame
  BY <1>2, StackTypes DEF Top
<1>4. con.ctx # NoHeap
  BY <1>2, NoHeapAssumption
<1>5. con.runningMain /\ con.label = "Stop" /\ con.dialog = 0
  BY <1>1, <1>2, <1>4 DEF Good, MainIsRunning, LiveShowsStop, BoxIsRecorded, InExitCall
<1> QED BY <1>1, <1>2, <1>3, <1>5

\* The frame of main, now in a modal call.
LEMMA InModalFacts ==
    ASSUME stack \in Seq(Frame), Len(stack) = 1, NEW modal \in {"message", "dialogue", "file"},
           NEW id \in Ids \cup {NoId}
    PROVE  LET t == InModal(modal, id)
           IN  /\ t \in Seq(Frame) /\ Len(t) = 1 /\ t # <<>> /\ DOMAIN t = {1}
               /\ t[1].modal = modal /\ t[1].answer = "none" /\ t[1].entry = id
               /\ t[1].kind = stack[1].kind /\ t[1].heap = stack[1].heap
<1> DEFINE t == InModal(modal, id)
           g == [stack[1] EXCEPT !.modal = modal, !.answer = "none", !.entry = id]
<1>1. stack # <<>> /\ stack[1] \in Frame
  <2>1. stack # <<>>
    BY EmptySeq
  <2> QED BY <2>1
<1>2. t \in Seq(Frame) /\ Len(t) = 1 /\ t # <<>>
  <2>1. g \in Frame
    BY <1>1 DEF Frame
  <2>2. t = [stack EXCEPT ![1] = g]
    BY DEF InModal
  <2> HIDE DEF g, t
  <2>3. 1 \in 1..Len(stack)
    OBVIOUS
  <2>4. t \in Seq(Frame) /\ Len(t) = 1
    BY <2>1, <2>2, <2>3, ExceptSeq
  <2>5. t # <<>>
    <3>1. Len(<<>>) = 0 /\ Len(t) # 0
      BY <2>4, EmptySeq
    <3> QED BY <3>1, Zenon
  <2> QED BY <2>4, <2>5
<1>3. DOMAIN t = {1}
  BY <1>2
<1>4. t[1] = g
  BY <1>1 DEF InModal
<1>5. g.modal = modal /\ g.answer = "none" /\ g.entry = id
      /\ g.kind = stack[1].kind /\ g.heap = stack[1].heap
  BY <1>1 DEF Frame
<1> HIDE DEF t, g
<1>6. t[1].modal = modal /\ t[1].answer = "none" /\ t[1].entry = id
      /\ t[1].kind = stack[1].kind /\ t[1].heap = stack[1].heap
  BY <1>4, <1>5
<1> QED BY <1>2, <1>3, <1>6 DEF t

\* Entering a modal call keeps the console good.
LEMMA InModalGood ==
    ASSUME Practices = {}, TypeOK, IInv, NEW modal \in {"message", "dialogue", "file"},
           MayGoModal(modal),
           NEW id \in Ids \cup {NoId}, NEW d, Becomes(d, InModal(modal, id)),
           d.ctx = con.ctx, d.label = con.label, d.runningMain = con.runningMain,
           d.pending = con.pending, d.status = con.status, d.exitHandler = con.exitHandler,
           d.modalCount = IF modal = "file" THEN 0 ELSE 1, d.dialog = IF modal = "message" THEN 1 ELSE con.dialog,
           HandlersOnHeap(d),
           modal = "dialogue" => \E e \in d.callbacks : e.id = id /\ e.type = "CB_DIALOGUE"
    PROVE  NextGood
<1> DEFINE t == InModal(modal, id)
<1>1. /\ JS /\ Alone(con, stack) /\ con.runningMain /\ con.label = "Stop" /\ con.dialog = 0
      /\ stack[1].kind = "main" /\ stack[1].heap = con.ctx
  BY MayGoModalFacts
<1>2. stack \in Seq(Frame) /\ Len(stack) = 1
  BY <1>1 DEF Alone
<1>3. /\ t \in Seq(Frame) /\ Len(t) = 1 /\ t # <<>> /\ DOMAIN t = {1}
      /\ t[1].modal = modal /\ t[1].answer = "none" /\ t[1].entry = id
      /\ t[1].kind = "main" /\ t[1].heap = con.ctx
  BY <1>1, <1>2, InModalFacts
<1>4. fault = "none" /\ con' = d /\ stack' = t /\ fault' = fault
  BY <1>1, JSFacts DEF Becomes
<1> HIDE DEF t
<1>5. Good(d, t)
  <2>1. Shape(t) /\ HeapsInUse(d, t) /\ HandlersOnHeap(d)
    BY <1>3 DEF Shape, HeapsInUse
  <2>2. DeadIsClear(d, t) /\ LiveShowsStop(d, t) /\ MainIsRunning(d, t)
    BY <1>1, <1>3, NoHeapAssumption DEF Alone, DeadIsClear, LiveShowsStop, MainIsRunning
  <2>3. BoxIsRecorded(d, t) /\ ModalsCounted(d, t) /\ IdleWaits(d, t) /\ ModalHasEntry(d, t)
    BY <1>1, <1>3 DEF BoxIsRecorded, ModalsCounted, InCountedMain, IdleWaits, ModalHasEntry
  <2>4. NoErrorYet(d) /\ RequestsWait(d)
    BY <1>1 DEF Alone, NoErrorYet, RequestsWait
  <2> QED BY <2>1, <2>2, <2>3, <2>4 DEF Good
<1> QED BY <1>4, <1>5 DEF NextGood

LEMMA MessageBoxGood ==
    ASSUME Practices = {}, TypeOK, IInv, MessageBox
    PROVE  NextGood
<1> DEFINE boxed == [con EXCEPT !.dialog = Len(stack)]
           d == [con EXCEPT !.dialog = Len(stack), !.modalCount = @ + 1]
<1>1. MayGoModal("message") /\ Becomes(d, InModal("message", NoId))
  BY DEF MessageBox
<1>2. con \in Console /\ Len(stack) = 1 /\ con.modalCount = 0 /\ HandlersOnHeap(con)
  BY <1>1, MayGoModalFacts DEF Alone
<1>3. /\ boxed \in Console /\ boxed.modalCount = 0 /\ boxed.dialog = 1
      /\ boxed.ctx = con.ctx /\ boxed.label = con.label /\ boxed.runningMain = con.runningMain
      /\ boxed.pending = con.pending /\ boxed.status = con.status
      /\ boxed.exitHandler = con.exitHandler /\ boxed.callbacks = con.callbacks
  BY <1>2, FieldTypes DEF Console
<1> HIDE DEF boxed
<1>4. boxed.modalCount + 1 = 1
  BY <1>3
<1>5. d = [boxed EXCEPT !.modalCount = 1]
  BY <1>4, Zenon DEF boxed
<1> HIDE DEF d
<1>6. /\ d.modalCount = 1 /\ d.dialog = boxed.dialog
      /\ d.ctx = boxed.ctx /\ d.label = boxed.label /\ d.runningMain = boxed.runningMain
      /\ d.pending = boxed.pending /\ d.status = boxed.status
      /\ d.exitHandler = boxed.exitHandler /\ d.callbacks = boxed.callbacks
  BY <1>3, <1>5 DEF Console
<1>7. HandlersOnHeap(d)
  BY <1>2, <1>3, <1>6 DEF HandlersOnHeap
<1> QED BY <1>1, <1>3, <1>6, <1>7, InModalGood

LEMMA ModalDialogueGood ==
    ASSUME Practices = {}, TypeOK, IInv, ModalDialogue
    PROVE  NextGood
<1>1. MayGoModal("dialogue")
  BY DEF ModalDialogue
<1>2. con \in Console /\ con.modalCount = 0 /\ HandlersOnHeap(con) /\ JS
      /\ Top = stack[1] /\ stack[1].heap = con.ctx
  BY <1>1, MayGoModalFacts DEF Alone, Top
<1>3. CASE TooManyCallbacks
  BY <1>2, <1>3, TooManyGood
<1>4. CASE ~TooManyCallbacks
  <2>1. PICK id \in FreeIds :
          LET e == [id |-> id, type |-> "CB_DIALOGUE", persistant |-> FALSE, heap |-> Top.heap]
          IN  Becomes([con EXCEPT !.callbacks = @ \cup {e}, !.modalCount = @ + 1],
                      InModal("dialogue", id))
    BY <1>4 DEF ModalDialogue
  <2> DEFINE e == [id |-> id, type |-> "CB_DIALOGUE", persistant |-> FALSE, heap |-> Top.heap]
             listed == [con EXCEPT !.callbacks = @ \cup {e}]
             d == [con EXCEPT !.callbacks = @ \cup {e}, !.modalCount = @ + 1]
  <2>2. e.heap = con.ctx /\ e.id = id /\ e.type = "CB_DIALOGUE" /\ id \in Ids
    BY <1>2, <2>1 DEF FreeIds
  <2>3. e \in Entry
    <3>1. Top \in Frame
      BY <1>1, <1>2, MayGoModalFacts
    <3> QED BY <2>2, <3>1 DEF Entry, Frame, CallbackTypes
  <2>4. Becomes(d, InModal("dialogue", id))
    BY <2>1
  <2> HIDE DEF e
  <2>5. /\ listed \in Console /\ listed.modalCount = 0 /\ listed.dialog = con.dialog
        /\ listed.ctx = con.ctx /\ listed.label = con.label
        /\ listed.runningMain = con.runningMain
        /\ listed.pending = con.pending /\ listed.status = con.status
        /\ listed.exitHandler = con.exitHandler /\ listed.callbacks = con.callbacks \cup {e}
    <3>1. listed \in Console
      BY <1>2, <2>3, FieldTypes
    <3> QED BY <1>2, <3>1 DEF Console
  <2> HIDE DEF listed
  <2>6. listed.modalCount + 1 = 1
    BY <2>5
  <2>7. d = [listed EXCEPT !.modalCount = 1]
    BY <2>6, Zenon DEF listed
  <2> HIDE DEF d
  <2>8. /\ d.modalCount = 1 /\ d.dialog = listed.dialog
        /\ d.ctx = listed.ctx /\ d.label = listed.label /\ d.runningMain = listed.runningMain
        /\ d.pending = listed.pending /\ d.status = listed.status
        /\ d.exitHandler = listed.exitHandler /\ d.callbacks = listed.callbacks
    BY <2>5, <2>7 DEF Console
  <2>9. HandlersOnHeap(d)
    BY <1>2, <2>2, <2>5, <2>8 DEF HandlersOnHeap
  <2>10. \E x \in d.callbacks : x.id = id /\ x.type = "CB_DIALOGUE"
    BY <2>2, <2>5, <2>8
  <2> QED BY <1>1, <2>2, <2>4, <2>5, <2>8, <2>9, <2>10, InModalGood
<1> QED BY <1>3, <1>4

LEMMA FilePromptGood ==
    ASSUME Practices = {}, TypeOK, IInv, FilePrompt
    PROVE  NextGood
<1>1. MayGoModal("file") /\ Becomes(con, InModal("file", NoId))
  BY DEF FilePrompt
<1>2. con.modalCount = 0 /\ HandlersOnHeap(con)
  BY <1>1, MayGoModalFacts DEF Alone
<1> QED BY <1>1, <1>2, InModalGood

LEMMA ScriptStepsGood ==
    ASSUME Practices = {}, TypeOK, IInv,
           \/ ApiError \/ ScriptError \/ Timeout \/ Return \/ CancelOne
           \/ \E type \in Types, persistant \in BOOLEAN : Register(type, persistant)
           \/ \E type \in Types : CancelType(type)
           \/ Alert \/ CancelAlert \/ OnExit \/ StopScript \/ ChainScript
           \/ MessageBox \/ ModalDialogue \/ FilePrompt
    PROVE  NextGood
<1>1. CASE CancelOne
  BY <1>1, CancelGood DEF CancelOne
<1>2. CASE \E type \in Types : CancelType(type)
  BY <1>2, CancelGood DEF CancelType
<1> QED BY <1>1, <1>2, ErrorsGood, InterruptsGood, ReturnGood, RegisterGood, AlertGood,
           OnExitGood, StopScriptGood, MessageBoxGood, ModalDialogueGood, FilePromptGood

-----------------------------------------------------------------------------
(* Steps of the event loop *)

\* An event meets no JavaScript, or main suspended in a modal dialogue.
ModalMain ==
    /\ Len(stack) = 1 /\ stack # <<>> /\ Top = stack[1] /\ DOMAIN stack = {1}
    /\ stack[1] \in Frame /\ stack[1].modal \in {"message", "dialogue", "file"}
    /\ stack[1].kind = "main" /\ stack[1].heap = con.ctx
    /\ con.ctx \in Heaps /\ con.runningMain /\ con.label = "Stop" /\ con.pending = 0
    /\ "HAD_ERROR" \notin con.status
    /\ con.modalCount = IF stack[1].modal = "file" THEN 0 ELSE 1
    /\ con.dialog = IF stack[1].modal = "message" THEN 1 ELSE 0

LEMMA LoopFacts ==
    ASSUME TypeOK, IInv, open, InEventLoop
    PROVE  /\ con \in Console /\ stack \in Seq(Frame) /\ fault = "none" /\ Good(con, stack)
           /\ stack = <<>> \/ ModalMain
<1>1. con \in Console /\ stack \in Seq(Frame) /\ fault = "none" /\ Good(con, stack)
  BY DEF TypeOK, IInv
<1>2. ASSUME stack # <<>> PROVE ModalMain
  <2>1. Len(stack) \in Nat /\ Len(stack) >= 1 /\ Top \in Frame /\ Top.modal # "no"
    BY <1>1, <1>2, StackTypes DEF InEventLoop, JSRunning, Top
  <2>2. Len(stack) = 1
    <3>1. Len(stack) = 2 => Top.modal = "no"
      BY <1>1 DEF Good, Shape, Top
    <3>2. Len(stack) <= 2 /\ Len(stack) # 2
      BY <1>1, <2>1, <3>1 DEF Good, Shape
    <3>3. \A n \in Nat : n >= 1 /\ n <= 2 /\ n # 2 => n = 1
      OBVIOUS
    <3> QED BY <2>1, <3>2, <3>3, Zenon
  <2>3. Top = stack[1] /\ DOMAIN stack = {1}
    BY <1>1, <2>2 DEF Top
  <2>4. stack[1].modal \in {"message", "dialogue", "file"} /\ stack[1].heap \in Heaps
    BY <2>1, <2>3 DEF Frame
  <2>5. stack[1].kind = "main" /\ stack[1].heap = con.ctx /\ con.ctx \in Heaps
    BY <1>1, <2>2, <2>3, <2>4 DEF Good, Shape, HeapsInUse
  <2>6. con.ctx # NoHeap /\ con.pending \in Nat
    BY <1>1, <2>5, FieldTypes, NoHeapAssumption
  <2>7. con.runningMain /\ con.label = "Stop" /\ con.pending = 0 /\ "HAD_ERROR" \notin con.status
    BY <1>1, <1>2, <2>5, <2>6
       DEF Good, MainIsRunning, LiveShowsStop, InExitCall, RequestsWait, NoErrorYet
  <2>8. /\ con.modalCount = IF stack[1].modal = "file" THEN 0 ELSE 1
        /\ con.dialog = IF stack[1].modal = "message" THEN 1 ELSE 0
    BY <1>1, <1>2, <2>4, <2>5 DEF Good, ModalsCounted, InCountedMain, BoxIsRecorded, InExitCall
  <2> QED BY <1>2, <2>1, <2>2, <2>3, <2>4, <2>5, <2>7, <2>8 DEF ModalMain
<1> QED BY <1>1, <1>2

\* Between events a live script is settled, and waits.
LEMMA IdleFacts ==
    ASSUME con \in Console, Good(con, <<>>)
    PROVE  /\ ~con.runningMain /\ con.modalCount = 0 /\ con.dialog = 0 /\ con.pending \in {0, 1}
           /\ HandlersOnHeap(con)
           /\ con.ctx = NoHeap => /\ con.callbacks = {} /\ ~con.alert /\ con.label = "Run"
                                  /\ ~SomethingAwaited(con)
           /\ con.ctx # NoHeap => /\ Settled(con) /\ con.label = "Stop"
                                  /\ "HAD_ERROR" \notin con.status /\ SomethingAwaited(con)
           /\ IsWaiting(con) <=> SomethingAwaited(con)
<1>1. con.pending \in Nat /\ con.pending <= 1
  BY FieldTypes DEF Good, RequestsWait
<1>2. con.pending \in {0, 1}
  BY <1>1
<1>3. ~con.runningMain /\ con.modalCount = 0 /\ con.dialog = 0 /\ HandlersOnHeap(con)
  BY DEF Good, MainIsRunning, ModalsCounted, InCountedMain, BoxIsRecorded, InExitCall
<1>4. con.ctx = NoHeap => con.callbacks = {} /\ ~con.alert /\ con.label = "Run"
                          /\ ~SomethingAwaited(con)
  BY <1>3 DEF Good, DeadIsClear, SomethingAwaited
<1>5. con.ctx # NoHeap => /\ Settled(con) /\ con.label = "Stop"
                          /\ "HAD_ERROR" \notin con.status /\ SomethingAwaited(con)
  <2>1. con.ctx # NoHeap => con.ctx \in Heaps /\ con.pending = 0
    BY <1>2 DEF Console, Good, RequestsWait
  <2> QED BY <1>3, <2>1 DEF Good, Settled, LiveShowsStop, InExitCall, NoErrorYet, IdleWaits
<1>6. IsWaiting(con) <=> SomethingAwaited(con)
  BY DEF Good, IdleWaits, IsWaiting
<1> QED BY <1>2, <1>3, <1>4, <1>5, <1>6

\* A new status, or one request fewer or more, changes no other field.
LEMMA PendingFields ==
    ASSUME NEW c \in Console, NEW n \in Nat
    PROVE  LET d == [c EXCEPT !.pending = n]
           IN  /\ d \in Console /\ d.pending = n
               /\ d.ctx = c.ctx /\ d.callbacks = c.callbacks /\ d.alert = c.alert
               /\ d.runningMain = c.runningMain /\ d.dialog = c.dialog
               /\ d.label = c.label /\ d.modalCount = c.modalCount
               /\ d.status = c.status /\ d.exitHandler = c.exitHandler
               /\ d.waiting = c.waiting /\ d.waitingCached = c.waitingCached
<1>1. [c EXCEPT !.pending = n] \in Console
  BY FieldTypes
<1> QED BY <1>1 DEF Console

\* A script is started on a console that runs none.
LEMMA RunScriptGood ==
    ASSUME NEW c \in Console, c.callbacks = {}, c.pending = 0, fault = "none",
           stack = <<>>, RunScript(c)
    PROVE  NextGood
<1>1. PICK h \in Heaps : Becomes(BeforeMain(c, h), Append(stack, NewFrame("main", h, "DONE")))
  BY DEF RunScript
<1> DEFINE f == NewFrame("main", h, "DONE")
           d == BeforeMain(c, h)
<1>2. f.kind = "main" /\ f.heap = h /\ f.modal = "no"
  BY DEF NewFrame
<1>3. con' = d /\ stack' = Append(<<>>, f) /\ fault' = "none"
  BY <1>1 DEF Becomes
<1> HIDE DEF f
<1>4. stack' = <<f>>
  BY <1>3
<1>5. Len(<<f>>) = 1 /\ <<f>>[1] = f /\ <<f>> # <<>> /\ DOMAIN <<f>> = {1}
  OBVIOUS
<1>6. /\ d \in Console /\ d.ctx = h /\ d.label = "Stop" /\ d.runningMain /\ d.status = {}
      /\ d.callbacks = {} /\ d.pending = 0
      /\ ~d.alert /\ d.dialog = 0 /\ d.exitHandler = NoHeap /\ d.modalCount = 0
  BY BeforeMainFields
<1> HIDE DEF d
<1>7. Good(d, <<f>>)
  BY <1>2, <1>5, <1>6, NoHeapAssumption
     DEF Good, Shape, HeapsInUse, HandlersOnHeap, DeadIsClear, LiveShowsStop, MainIsRunning,
         BoxIsRecorded, ModalsCounted, InCountedMain, InExitCall, IdleWaits, NoErrorYet,
         RequestsWait, ModalHasEntry
<1> QED BY <1>3, <1>4, <1>7 DEF NextGood

LEMMA RunClickedGood ==
    ASSUME Practices = {}, TypeOK, IInv, RunClicked
    PROVE  NextGood
<1>1. stack = <<>> /\ open /\ fault = "none" /\ con \in Console /\ Good(con, <<>>)
  BY DEF RunClicked, UserEvent, Event, Running, TypeOK, IInv
<1>2. CASE con.label = "Run"
  <2>1. RunScript(con) /\ ~(con.pending > 0)
    BY <1>2 DEF RunClicked
  <2>2. con.callbacks = {} /\ con.pending = 0
    BY <1>1, <1>2, <2>1, IdleFacts
  <2> QED BY <1>1, <2>1, <2>2, RunScriptGood
<1>3. CASE con.label # "Run"
  <2> DEFINE S == {}
             d == [con EXCEPT !.status = S]
  <2>1. WrapUp(d, <<>>, "STOPPED")
    BY <1>1, <1>3 DEF RunClicked, StopRun
  <2>2. Settled(con)
    BY <1>1, <1>3, IdleFacts
  <2>3. S \in SUBSET Completions /\ "STOPPED" \in Completions /\ "HAD_ERROR" \notin S
    BY DEF Completions
  <2> HIDE DEF S
  <2>4. /\ d \in Console /\ d.status = S /\ d.ctx = con.ctx /\ d.callbacks = con.callbacks
        /\ d.exitHandler = con.exitHandler /\ d.pending = con.pending
        /\ d.modalCount = con.modalCount /\ d.runningMain = con.runningMain
        /\ d.dialog = con.dialog
    BY <1>1, <2>3, StatusFields
  <2> HIDE DEF d
  <2>5. Settled(d)
    BY <2>2, <2>4 DEF Settled, HandlersOnHeap
  <2> QED BY <1>1, <2>1, <2>3, <2>4, <2>5, WrapUpGood
<1> QED BY <1>2, <1>3

LEMMA RunQueuedGood ==
    ASSUME Practices = {}, TypeOK, IInv, RunQueued
    PROVE  NextGood
<1> DEFINE c == [con EXCEPT !.pending = @ - 1]
<1>1. open /\ fault = "none" /\ con \in Console /\ Good(con, stack) /\ con.pending > 0
  BY DEF RunQueued, Event, Running, TypeOK, IInv
<1>2. con.ctx = NoHeap /\ stack = <<>> /\ con.label = "Run" /\ con.callbacks = {}
  BY <1>1 DEF Good, RequestsWait, DeadIsClear
<1>3. con.pending = 1
  BY <1>1, <1>2, IdleFacts
<1>4. RunScript(c)
  BY <1>2 DEF RunQueued
<1>5. con.pending - 1 = 0 /\ 0 \in Nat
  BY <1>3
<1>6. c = [con EXCEPT !.pending = 0]
  BY <1>5, Zenon
<1> HIDE DEF c
<1>7. c \in Console /\ c.pending = 0 /\ c.callbacks = con.callbacks
  BY <1>1, <1>5, <1>6, PendingFields
<1> QED BY <1>1, <1>2, <1>4, <1>7, RunScriptGood

LEMMA RunRequestedGood ==
    ASSUME Practices = {}, TypeOK, IInv, RunRequested
    PROVE  NextGood
<1>1. open /\ InEventLoop /\ ~(con.pending > 0)
  BY DEF RunRequested, Event, Running
<1>2. con \in Console /\ stack \in Seq(Frame) /\ fault = "none" /\ Good(con, stack)
      /\ (stack = <<>> \/ ModalMain)
  BY <1>1, LoopFacts
<1>3. stack = <<>> /\ con.ctx = NoHeap
  <2>1. con.ctx = NoHeap \/ ~IsBusy(con)
    BY DEF RunRequested
  <2>2. ~ModalMain
    BY <2>1, NoHeapAssumption DEF ModalMain, IsBusy
  <2>3. ~IsBusy(con) => ~SomethingAwaited(con)
    BY <1>2, <2>2, IdleFacts DEF IsBusy
  <2> QED BY <1>2, <2>1, <2>2, <2>3, IdleFacts
<1>4. con.pending = 0
  BY <1>1, <1>2, <1>3, IdleFacts
<1>5. PICK c \in {con, AskedBusy(con)} : Sets([c EXCEPT !.pending = @ + 1])
  BY DEF RunRequested
<1>6. AskedBusy(con) = Asked(con)
  BY <1>2, <1>3, IdleFacts DEF AskedBusy
<1>7. /\ c \in Console /\ c.ctx = con.ctx /\ c.callbacks = con.callbacks /\ c.alert = con.alert
      /\ c.runningMain = con.runningMain /\ c.dialog = con.dialog
      /\ c.label = con.label /\ c.status = con.status
      /\ c.modalCount = con.modalCount /\ c.pending = con.pending
      /\ c.exitHandler = con.exitHandler
      /\ c.waitingCached => c.waiting = IsWaiting(con)
  BY <1>2, <1>5, <1>6, AskedFields DEF IsWaiting
<1> DEFINE d == [c EXCEPT !.pending = @ + 1]
<1>8. c.pending + 1 = 1 /\ 1 \in Nat
  BY <1>4, <1>7
<1>9. d = [c EXCEPT !.pending = 1]
  BY <1>8, Zenon
<1>10. Sets(d)
  BY <1>5
<1> HIDE DEF d
<1>11. /\ d.pending = 1 /\ d.ctx = c.ctx /\ d.callbacks = c.callbacks /\ d.alert = c.alert
       /\ d.runningMain = c.runningMain /\ d.dialog = c.dialog
       /\ d.label = c.label /\ d.status = c.status /\ d.modalCount = c.modalCount
       /\ d.exitHandler = c.exitHandler
       /\ d.waiting = c.waiting /\ d.waitingCached = c.waitingCached
  BY <1>7, <1>8, <1>9, PendingFields
<1>12. d.waitingCached => ~d.waiting
  BY <1>2, <1>3, <1>7, <1>11, IdleFacts
<1>13. ~SomethingAwaited(d) /\ d.callbacks = {} /\ ~d.alert /\ d.dialog = 0 /\ d.label = "Run"
       /\ ~d.runningMain /\ d.modalCount = 0 /\ d.ctx = NoHeap
  BY <1>2, <1>3, <1>7, <1>11, IdleFacts DEF SomethingAwaited
<1>14. Good(d, <<>>)
  BY <1>11, <1>12, <1>13
     DEF Good, Shape, HeapsInUse, HandlersOnHeap, DeadIsClear, LiveShowsStop, MainIsRunning,
         BoxIsRecorded, ModalsCounted, InCountedMain, InExitCall, IdleWaits, NoErrorYet,
         RequestsWait, ModalHasEntry
<1> QED BY <1>2, <1>3, <1>10, <1>14 DEF Sets, Becomes, NextGood

\* Taking an entry that is no dialogue leaves the one a modal dialogue needs.
LEMMA TakeEntryFields ==
    ASSUME NEW c \in Console, NEW e
    PROVE  LET d == TakeEntry(c, e)
           IN  /\ d \in Console /\ d.callbacks \subseteq c.callbacks
               /\ \A x \in c.callbacks : x # e => x \in d.callbacks
               /\ d.ctx = c.ctx /\ d.alert = c.alert
               /\ d.runningMain = c.runningMain /\ d.dialog = c.dialog
               /\ d.label = c.label /\ d.modalCount = c.modalCount
               /\ d.status = c.status /\ d.exitHandler = c.exitHandler
               /\ d.pending = c.pending
BY EntryMethodTypes DEF TakeEntry, RemoveEntries, Console

\* A callback is called while main is suspended in a modal dialogue.
LEMMA CallUnderModalGood ==
    ASSUME NEW c \in Console, ModalMain, stack \in Seq(Frame),
           c.ctx = con.ctx, c.label = con.label, c.runningMain = con.runningMain,
           c.dialog = con.dialog, c.modalCount = con.modalCount, c.pending = con.pending,
           c.status = con.status,
           HandlersOnHeap(c), ModalHasEntry(c, stack),
           Call(c, stack, NewFrame("callback", con.ctx, "DONE"))
    PROVE  NextGood
<1> DEFINE f == NewFrame("callback", con.ctx, "DONE")
           d == BeforeCall(c)
           t == Append(stack, f)
<1>1. f \in Frame /\ f.kind = "callback" /\ f.heap = con.ctx /\ f.modal = "no"
  BY FrameTypes DEF NewFrame, ModalMain, Completions
<1> HIDE DEF f
<1>2. con' = d /\ fault' = "none" /\ stack' = t
  BY <1>1, NoHeapAssumption DEF Call, ModalMain, f
<1>3. /\ d.ctx = c.ctx /\ d.callbacks = c.callbacks /\ d.runningMain = c.runningMain
      /\ d.dialog = c.dialog /\ d.label = c.label /\ d.modalCount = c.modalCount
      /\ d.pending = c.pending /\ d.exitHandler = c.exitHandler
      /\ d.status \subseteq c.status
  BY BeforeCallFields
<1> HIDE DEF d
<1>4. Len(t) = 2 /\ t # <<>> /\ t[1] = stack[1] /\ t[2] = f /\ DOMAIN t = {1, 2}
  <2>1. Len(stack) = 1
    BY DEF ModalMain
  <2>2. t \in Seq(Frame) /\ Len(t) = 1 + 1 /\ t[1] = stack[1] /\ t[1 + 1] = f
    <3>1. t \in Seq(Frame) /\ Len(t) = Len(stack) + 1
      BY <1>1, AppendProperties
    <3>2. \A i \in 1..Len(stack) : t[i] = stack[i]
      BY <1>1, AppendProperties
    <3>3. t[Len(stack) + 1] = f
      BY <1>1, AppendProperties
    <3> HIDE DEF t
    <3> QED BY <2>1, <3>1, <3>2, <3>3
  <2> HIDE DEF t
  <2>3. Len(t) = 2 /\ t[2] = f
    BY <2>2
  <2>4. DOMAIN t = 1..2
    BY <2>2, <2>3
  <2>5. t # <<>>
    <3>1. Len(<<>>) = 0
      BY EmptySeq
    <3> QED BY <2>3, <3>1
  <2> QED BY <2>2, <2>3, <2>4, <2>5
<1> HIDE DEF t
<1>5. Good(d, t)
  <2>1. Shape(t) /\ HeapsInUse(d, t) /\ HandlersOnHeap(d)
    BY <1>1, <1>3, <1>4 DEF ModalMain, Shape, HeapsInUse, HandlersOnHeap
  <2>2. DeadIsClear(d, t) /\ LiveShowsStop(d, t) /\ MainIsRunning(d, t)
    BY <1>3, <1>4, NoHeapAssumption DEF ModalMain, DeadIsClear, LiveShowsStop, MainIsRunning
  <2>3. BoxIsRecorded(d, t) /\ ModalsCounted(d, t) /\ IdleWaits(d, t) /\ ModalHasEntry(d, t)
    BY <1>3, <1>4
       DEF ModalMain, BoxIsRecorded, ModalsCounted, InCountedMain, IdleWaits, ModalHasEntry
  <2>4. NoErrorYet(d) /\ RequestsWait(d)
    BY <1>3 DEF ModalMain, NoErrorYet, RequestsWait
  <2> QED BY <2>1, <2>2, <2>3, <2>4 DEF Good
<1> QED BY <1>2, <1>5 DEF NextGood

\* The handler of an entry is called, between events or under main's dialogue.
LEMMA HandleGood ==
    ASSUME Practices = {}, TypeOK, IInv, open, InEventLoop, NEW c0 \in {con, Asked(con)},
           NEW e \in con.callbacks, NEW kind \in {"callback", "dialogue"},
           stack = <<>> \/ (kind = "callback" /\ e.type # "CB_DIALOGUE"),
           Handle(c0, e, kind)
    PROVE  NextGood
<1> DEFINE c == TakeEntry(c0, e)
<1>1. con \in Console /\ stack \in Seq(Frame) /\ fault = "none" /\ Good(con, stack)
      /\ (stack = <<>> \/ ModalMain)
  BY LoopFacts
<1>2. /\ c0 \in Console /\ c0.ctx = con.ctx /\ c0.callbacks = con.callbacks
      /\ c0.runningMain = con.runningMain /\ c0.dialog = con.dialog
      /\ c0.label = con.label /\ c0.status = con.status
      /\ c0.modalCount = con.modalCount /\ c0.pending = con.pending
      /\ c0.exitHandler = con.exitHandler
  BY <1>1, AskedFields
<1>3. /\ c \in Console /\ c.callbacks \subseteq con.callbacks
      /\ \A x \in con.callbacks : x # e => x \in c.callbacks
      /\ c.ctx = con.ctx /\ c.runningMain = con.runningMain /\ c.dialog = con.dialog
      /\ c.label = con.label /\ c.modalCount = con.modalCount
      /\ c.status = con.status /\ c.exitHandler = con.exitHandler
      /\ c.pending = con.pending
  BY <1>2, TakeEntryFields
<1>4. con.ctx # NoHeap /\ e.heap = con.ctx /\ "HAD_ERROR" \notin con.status
  BY <1>1 DEF Good, HandlersOnHeap, DeadIsClear, NoErrorYet
<1>5. Call(c, stack, NewFrame(kind, con.ctx, "DONE"))
  BY <1>3, <1>4 DEF Handle, IsRefused
<1> HIDE DEF c
<1>6. HandlersOnHeap(c)
  BY <1>1, <1>3 DEF Good, HandlersOnHeap
<1>7. CASE stack = <<>>
  <2>1. Settled(con) /\ con.label = "Stop" /\ con.dialog = 0
    BY <1>1, <1>4, <1>7, IdleFacts
  <2>2. Settled(c) /\ "DONE" \in Completions
    BY <1>3, <1>6, <2>1 DEF Settled, Completions
  <2> QED BY <1>3, <1>4, <1>5, <1>7, <2>1, <2>2, CallGood
<1>8. CASE ModalMain
  <2>1. e.type # "CB_DIALOGUE" /\ kind = "callback"
    BY <1>8 DEF ModalMain
  <2>2. ModalHasEntry(c, stack)
    BY <1>1, <1>3, <2>1 DEF Good, ModalHasEntry
  <2> QED BY <1>1, <1>3, <1>5, <1>6, <1>8, <2>1, <2>2, CallUnderModalGood
<1> QED BY <1>1, <1>7, <1>8

\* Asking whether the script waits keeps a console good.
LEMMA AskedGood ==
    ASSUME NEW c \in Console, NEW s, Good(c, s)
    PROVE  Good(Asked(c), s)
<1> DEFINE d == Asked(c)
<1>1. /\ d.waiting = IsWaiting(c) /\ d.ctx = c.ctx /\ d.callbacks = c.callbacks
      /\ d.alert = c.alert /\ d.runningMain = c.runningMain /\ d.dialog = c.dialog
      /\ d.label = c.label /\ d.status = c.status
      /\ d.modalCount = c.modalCount /\ d.pending = c.pending
      /\ d.exitHandler = c.exitHandler
  BY AskedFields
<1> HIDE DEF d
<1>2. IdleWaits(d, s)
  BY <1>1 DEF Good, IdleWaits, IsWaiting, SomethingAwaited
<1>3. Good(d, s)
  BY <1>1, <1>2 DEF Good, HeapsInUse, HandlersOnHeap, DeadIsClear, LiveShowsStop, MainIsRunning,
     BoxIsRecorded, ModalsCounted, NoErrorYet, RequestsWait, ModalHasEntry
<1> QED BY <1>3 DEF d

LEMMA CallbacksGood ==
    ASSUME Practices = {}, TypeOK, IInv, CallbackFires \/ DialogueButton
    PROVE  NextGood
<1>1. open /\ InEventLoop
  BY DEF CallbackFires, DialogueButton, UserEvent, Event, Running
<1>2. CASE CallbackFires
  <2>1. PICK e \in con.callbacks :
           \/ e.type \in {"CB_TIMER", "CB_MESSAGE"} /\ Handle(con, e, "callback")
           \/ /\ e.type = "CB_NMEA0183"
              /\ IF IsWaiting(con) THEN Handle(Asked(con), e, "callback")
                                   ELSE Sets(Asked(con))
    BY <1>2 DEF CallbackFires
  <2>2. CASE Sets(Asked(con))
    BY <1>1, <2>2, LoopFacts, AskedGood DEF Sets, Becomes, NextGood
  <2>3. CASE e.type # "CB_DIALOGUE" /\ \E c \in {con, Asked(con)} : Handle(c, e, "callback")
    BY <1>1, <2>3, HandleGood
  <2> QED BY <2>1, <2>2, <2>3
<1>3. CASE DialogueButton
  BY <1>1, <1>3, HandleGood DEF DialogueButton, UserEvent
<1> QED BY <1>2, <1>3

LEMMA AlertDismissedGood ==
    ASSUME TypeOK, IInv, AlertDismissed
    PROVE  NextGood
<1> DEFINE c == ClearAlert(con)
           d == Asked(c)
<1>1. stack = <<>> /\ fault = "none" /\ con \in Console /\ Good(con, <<>>) /\ con.alert
  BY DEF AlertDismissed, UserEvent, Event, Running, TypeOK, IInv
<1>2. /\ c \in Console /\ ~c.alert /\ ~c.waitingCached
      /\ c.ctx = con.ctx /\ c.callbacks = con.callbacks
      /\ c.runningMain = con.runningMain /\ c.dialog = con.dialog
      /\ c.label = con.label /\ c.status = con.status
      /\ c.modalCount = con.modalCount /\ c.pending = con.pending
      /\ c.exitHandler = con.exitHandler
  <2>1. c \in Console
    BY <1>1, SimpleMethodTypes
  <2>2. ~c.alert /\ ~c.waitingCached
    BY <1>1 DEF ClearAlert, Console
  <2>3. /\ c.ctx = con.ctx /\ c.callbacks = con.callbacks
        /\ c.runningMain = con.runningMain /\ c.dialog = con.dialog
        /\ c.label = con.label /\ c.status = con.status
        /\ c.modalCount = con.modalCount /\ c.pending = con.pending
        /\ c.exitHandler = con.exitHandler
    BY <1>1 DEF ClearAlert, Console
  <2> QED BY <2>1, <2>2, <2>3
<1>3. IF IsWaiting(c) THEN Sets(d) ELSE WrapUp(d, <<>>, "DONE")
  BY <1>1 DEF AlertDismissed
<1> HIDE DEF c
<1>4. /\ d \in Console /\ d.waiting = IsWaiting(c) /\ d.waitingCached
      /\ d.ctx = con.ctx /\ d.callbacks = con.callbacks /\ ~d.alert
      /\ d.runningMain = con.runningMain /\ d.dialog = con.dialog
      /\ d.label = con.label /\ d.status = con.status
      /\ d.modalCount = con.modalCount /\ d.pending = con.pending
      /\ d.exitHandler = con.exitHandler
  BY <1>2, AskedFields
<1> HIDE DEF d
<1>5. Settled(con) /\ con.label = "Stop" /\ "HAD_ERROR" \notin con.status /\ con.dialog = 0
  BY <1>1, IdleFacts DEF Good, DeadIsClear
<1>6. Settled(d)
  BY <1>4, <1>5 DEF Settled, HandlersOnHeap
<1>7. d.waiting <=> SomethingAwaited(d)
  BY <1>2, <1>4 DEF IsWaiting, SomethingAwaited
<1>8. CASE IsWaiting(c)
  <2>1. Good(d, <<>>)
    BY <1>4, <1>5, <1>6, <1>7, <1>8, NoHeapAssumption
       DEF Settled, Good, Shape, HeapsInUse, DeadIsClear, LiveShowsStop, MainIsRunning,
           BoxIsRecorded, ModalsCounted, InCountedMain, InExitCall, IdleWaits, NoErrorYet,
           RequestsWait, ModalHasEntry
  <2> QED BY <1>1, <1>3, <1>8, <2>1 DEF Sets, Becomes, NextGood
<1>9. CASE ~IsWaiting(c)
  <2>1. "DONE" \in Completions
    BY DEF Completions
  <2> QED BY <1>1, <1>3, <1>4, <1>5, <1>6, <1>9, <2>1, WrapUpGood
<1> QED BY <1>8, <1>9

\* What an answer leaves of the stack: the frame of main in its modal call.
LEMMA AnsweredFacts ==
    ASSUME ModalMain, stack \in Seq(Frame), NEW answer \in {"none", "ok", "cancel", "closed"}
    PROVE  LET t == Answered(stack, 1, answer)
           IN  /\ t \in Seq(Frame) /\ Len(t) = 1 /\ t # <<>> /\ DOMAIN t = {1}
               /\ t[1].modal = stack[1].modal /\ t[1].answer = answer
               /\ t[1].entry = stack[1].entry
               /\ t[1].kind = stack[1].kind /\ t[1].heap = stack[1].heap
<1> DEFINE t == Answered(stack, 1, answer)
           g == [stack[1] EXCEPT !.answer = answer]
<1>1. t \in Seq(Frame) /\ Len(t) = 1
  <2>1. Len(stack) = 1
    BY DEF ModalMain
  <2> QED BY <2>1, StackTypes
<1>2. t[1] = g
  BY DEF Answered, ModalMain
<1>3. g.modal = stack[1].modal /\ g.answer = answer /\ g.entry = stack[1].entry
      /\ g.kind = stack[1].kind /\ g.heap = stack[1].heap
  BY DEF ModalMain, Frame
<1> HIDE DEF t, g
<1>4. t # <<>> /\ DOMAIN t = {1}
  <2>1. Len(<<>>) = 0
    BY EmptySeq
  <2>2. DOMAIN t = 1..1
    BY <1>1
  <2>3. t # <<>>
    <3>1. t = <<>> => Len(t) = 0
      BY <2>1, Zenon
    <3>2. Len(t) # 0
      BY <1>1
    <3> QED BY <3>1, <3>2, Zenon
  <2>4. 1..1 = {1}
    OBVIOUS
  <2> QED BY <2>2, <2>3, <2>4
<1>5. t[1].modal = stack[1].modal /\ t[1].answer = answer /\ t[1].entry = stack[1].entry
      /\ t[1].kind = stack[1].kind /\ t[1].heap = stack[1].heap
  BY <1>2, <1>3
<1> QED BY <1>1, <1>4, <1>5 DEF t

\* An answer to the modal dialogue keeps the console good.
LEMMA AnswerGood ==
    ASSUME ModalMain, stack \in Seq(Frame), Good(con, stack), NEW answer \in {"ok", "cancel", "closed"},
           NEW d, d.ctx = con.ctx, d.label = con.label, d.runningMain = con.runningMain,
           d.dialog = con.dialog, d.modalCount = con.modalCount, d.pending = con.pending,
           d.status = con.status, HandlersOnHeap(d)
    PROVE  Good(d, Answered(stack, 1, answer))
<1> DEFINE t == Answered(stack, 1, answer)
<1>1. /\ t \in Seq(Frame) /\ Len(t) = 1 /\ t # <<>> /\ DOMAIN t = {1}
      /\ t[1].modal = stack[1].modal /\ t[1].answer = answer
      /\ t[1].kind = "main" /\ t[1].heap = con.ctx
  BY AnsweredFacts DEF ModalMain
<1> HIDE DEF t
<1>2. Good(d, t)
  BY <1>1, NoHeapAssumption
     DEF ModalMain, Good, Shape, HeapsInUse, DeadIsClear, LiveShowsStop, MainIsRunning,
         BoxIsRecorded, ModalsCounted, InCountedMain, InExitCall, IdleWaits, NoErrorYet,
         RequestsWait, ModalHasEntry
<1> QED BY <1>2 DEF t

LEMMA ButtonsGood ==
    ASSUME TypeOK, IInv,
           \/ MessageButton("ok") \/ MessageButton("cancel") \/ ModalButton
           \/ PromptButton("ok") \/ PromptButton("cancel")
    PROVE  NextGood
<1>1. open /\ InEventLoop /\ stack # <<>>
  BY DEF MessageButton, ModalButton, PromptButton, Event, Running
<1>2. con \in Console /\ stack \in Seq(Frame) /\ fault = "none" /\ Good(con, stack) /\ ModalMain
  BY <1>1, LoopFacts
<1>3. ASSUME NEW answer \in {"ok", "cancel"}, MessageButton(answer) PROVE NextGood
  <2>1. con.dialog = 1
    BY <1>2, <1>3 DEF MessageButton, ModalMain
  <2>2. Becomes(con, Answered(stack, 1, answer))
    BY <1>3, <2>1 DEF MessageButton
  <2>3. Good(con, Answered(stack, 1, answer))
    BY <1>2, AnswerGood DEF Good
  <2> QED BY <1>2, <2>2, <2>3 DEF Becomes, NextGood
<1>4. CASE ModalButton
  <2> DEFINE d == RemoveEntries(con, {e \in con.callbacks : e.id = Top.entry})
  <2>1. \E e \in con.callbacks : e.id = Top.entry
    BY <1>1, <1>2, <1>4 DEF ModalButton, ModalMain, Good, ModalHasEntry
  <2>2. Becomes(d, Answered(stack, 1, "ok"))
    BY <1>2, <1>4, <2>1 DEF ModalButton, ModalMain
  <2>3. /\ d.ctx = con.ctx /\ d.label = con.label /\ d.runningMain = con.runningMain
        /\ d.dialog = con.dialog /\ d.modalCount = con.modalCount /\ d.pending = con.pending
        /\ d.status = con.status /\ d.exitHandler = con.exitHandler
        /\ d.callbacks \subseteq con.callbacks
    BY <1>2 DEF RemoveEntries, Console
  <2> HIDE DEF d
  <2>4. HandlersOnHeap(d)
    BY <1>2, <2>3 DEF Good, HandlersOnHeap
  <2>5. Good(d, Answered(stack, 1, "ok"))
    BY <1>2, <2>3, <2>4, AnswerGood
  <2> QED BY <1>2, <2>2, <2>5 DEF Becomes, NextGood
<1>5. ASSUME NEW answer \in {"ok", "cancel"}, PromptButton(answer) PROVE NextGood
  <2>1. Becomes(con, Answered(stack, 1, answer))
    BY <1>2, <1>5 DEF PromptButton, ModalMain
  <2>2. Good(con, Answered(stack, 1, answer))
    BY <1>2, AnswerGood DEF Good
  <2> QED BY <1>2, <2>1, <2>2 DEF Becomes, NextGood
<1> QED BY <1>3, <1>4, <1>5

\* When the modal call of main is over, the console and the stack are c and s.
ModalIsOver(c, s) ==
    /\ c \in Console /\ c.modalCount = 0 /\ c.ctx = con.ctx /\ c.callbacks = con.callbacks
    /\ c.runningMain = con.runningMain /\ c.dialog = con.dialog
    /\ c.label = con.label /\ c.status = con.status
    /\ c.pending = con.pending /\ c.exitHandler = con.exitHandler
    /\ s \in Seq(Frame) /\ Len(s) = 1 /\ s # <<>> /\ DOMAIN s = {1}
    /\ s[1] \in Frame /\ s[1].modal = "no" /\ s[1].kind = "main" /\ s[1].heap = con.ctx
    /\ \/ stack[1].modal \in {"dialogue", "file"} /\ Becomes(c, s)
       \/ Thrown(PrepForThrow([c EXCEPT !.status = @ \cup {"CLOSING"}]), s)
       \/ Thrown(PrepForThrow(c), s)
       \/ Becomes(StartTimeout([c EXCEPT !.dialog = 0]), Dismissed(s, con.dialog))

LEMMA ModalReturnsCases ==
    ASSUME TypeOK, IInv, ModalReturns
    PROVE  \E c, s : ModalIsOver(c, s)
<1> DEFINE fewer == [con EXCEPT !.modalCount = @ - 1]
           c == IF stack[1].modal = "file" THEN con ELSE fewer
           g == [stack[1] EXCEPT !.modal = "no"]
           s == [stack EXCEPT ![Len(stack)] = [@ EXCEPT !.modal = "no"]]
<1>1. open /\ InEventLoop /\ stack # <<>> /\ Top.answer # "none"
  BY DEF ModalReturns, ModalOver, Event, Running
<1>2. con \in Console /\ stack \in Seq(Frame) /\ fault = "none" /\ Good(con, stack) /\ ModalMain
  BY <1>1, LoopFacts
<1>3. /\ c \in Console /\ c.modalCount = 0 /\ c.ctx = con.ctx /\ c.callbacks = con.callbacks
      /\ c.runningMain = con.runningMain /\ c.dialog = con.dialog
      /\ c.label = con.label /\ c.status = con.status
      /\ c.pending = con.pending /\ c.exitHandler = con.exitHandler
  <2>1. CASE stack[1].modal = "file"
    BY <1>2, <2>1 DEF ModalMain
  <2>2. CASE stack[1].modal # "file"
    <3>1. con.modalCount - 1 = 0 /\ 0 \in Int
      BY <1>2, <2>2 DEF ModalMain
    <3>2. c = [con EXCEPT !.modalCount = 0]
      BY <2>2, <3>1, Zenon
    <3>3. [con EXCEPT !.modalCount = 0] \in Console
      BY <1>2, FieldTypes
    <3> HIDE DEF c
    <3> QED BY <1>2, <3>2, <3>3 DEF Console
  <2> QED BY <2>1, <2>2
<1>4. g \in Frame /\ g.modal = "no" /\ g.kind = "main" /\ g.heap = con.ctx
  BY <1>2 DEF ModalMain, Frame
<1>5. s \in Seq(Frame) /\ Len(s) = 1 /\ s # <<>> /\ s[1] = g /\ DOMAIN s = {1}
  <2>1. s = [stack EXCEPT ![1] = g] /\ 1 \in 1..Len(stack) /\ Len(stack) = 1
    BY <1>2 DEF ModalMain
  <2> HIDE DEF g, s
  <2>2. s \in Seq(Frame) /\ Len(s) = 1 /\ s[1] = g
    <3>1. s \in Seq(Frame) /\ Len(s) = Len(stack)
      <4>1. \A f \in Frame : /\ [stack EXCEPT ![1] = f] \in Seq(Frame)
                             /\ Len([stack EXCEPT ![1] = f]) = Len(stack)
        BY <1>2, <2>1, ExceptSeq
      <4> QED BY <1>4, <2>1, <4>1, Zenon
    <3>2. s[1] = g
      BY <1>2, <2>1
    <3> QED BY <2>1, <3>1, <3>2
  <2>3. Len(<<>>) = 0 /\ DOMAIN s = 1..1
    BY <2>2, EmptySeq
  <2> QED BY <2>2, <2>3, SMTT(20)
<1> HIDE DEF g
<1>6. \/ stack[1].modal \in {"dialogue", "file"} /\ Becomes(c, s)
      \/ Thrown(PrepForThrow([c EXCEPT !.status = @ \cup {"CLOSING"}]), s)
      \/ Thrown(PrepForThrow(c), s)
      \/ Becomes(StartTimeout([c EXCEPT !.dialog = 0]), Dismissed(s, con.dialog))
  <2>1. Top = stack[1] /\ Top \in Frame /\ Top.modal \in {"message", "dialogue", "file"}
        /\ (Top.modal = "message" => con.dialog = 1)
    BY <1>2 DEF ModalMain
  <2>2. \/ Top.modal = "dialogue"
        \/ Top.modal = "file" /\ Top.answer = "ok"
        \/ Top.modal = "file" /\ Top.answer # "ok"
        \/ Top.modal = "message" /\ Top.answer = "closed"
        \/ Top.modal = "message" /\ Top.answer = "cancel"
        \/ Top.modal = "message" /\ Top.answer = "ok"
    BY <1>1, <2>1 DEF Frame
  <2>3. ASSUME Top.modal = "dialogue" PROVE Becomes(c, s)
    BY <2>1, <2>3 DEF ModalReturns
  <2>7. ASSUME Top.modal = "file", Top.answer = "ok" PROVE Becomes(c, s)
    BY <2>1, <2>7 DEF ModalReturns
  <2>8. ASSUME Top.modal = "file", Top.answer # "ok" PROVE Thrown(PrepForThrow(c), s)
    <3>1. c = con
      BY <2>1, <2>8
    <3>2. Thrown(PrepForThrow(con), s)
      BY <2>8 DEF ModalReturns
    <3> QED BY <3>1, <3>2
  <2>4. ASSUME Top.modal = "message" PROVE c = fewer
    BY <2>1, <2>4
  <2>5. ASSUME Top.modal = "message", Top.answer = "closed"
        PROVE  Thrown(PrepForThrow([c EXCEPT !.status = @ \cup {"CLOSING"}]), s)
    <3>1. Thrown(PrepForThrow([fewer EXCEPT !.status = @ \cup {"CLOSING"}]), s)
      BY <2>5, Zenon DEF ModalReturns
    <3> QED BY <2>4, <2>5, <3>1, Zenon
  <2>6. ASSUME Top.modal = "message", Top.answer = "cancel"
        PROVE  Thrown(PrepForThrow(c), s)
    <3>1. Thrown(PrepForThrow(fewer), s)
      BY <2>6, Zenon DEF ModalReturns
    <3> QED BY <2>4, <2>6, <3>1, Zenon
  <2>9. ASSUME Top.modal = "message", Top.answer = "ok"
        PROVE  Becomes(StartTimeout([c EXCEPT !.dialog = 0]), Dismissed(s, con.dialog))
    <3>1. con.dialog # 0
      BY <2>1, <2>9
    <3>2. Becomes(StartTimeout([fewer EXCEPT !.dialog = 0]), Dismissed(s, con.dialog))
      BY <2>9, <3>1 DEF ModalReturns
    <3> QED BY <2>4, <2>9, <3>2, Zenon
  <2> QED BY <2>1, <2>2, <2>3, <2>5, <2>6, <2>7, <2>8, <2>9, Zenon
<1> HIDE DEF c, s
<1>7. ModalIsOver(c, s)
  BY <1>3, <1>4, <1>5, <1>6 DEF ModalIsOver
<1> QED BY <1>7

LEMMA ModalReturnsGood ==
    ASSUME Practices = {}, TypeOK, IInv, ModalReturns
    PROVE  NextGood
<1>1. open /\ InEventLoop /\ stack # <<>>
  BY DEF ModalReturns, ModalOver, Event, Running
<1>2. con \in Console /\ stack \in Seq(Frame) /\ fault = "none" /\ Good(con, stack) /\ ModalMain
  BY <1>1, LoopFacts
<1> PICK c, s : ModalIsOver(c, s)
  BY ModalReturnsCases
<1>3. /\ c \in Console /\ c.modalCount = 0 /\ c.ctx = con.ctx /\ c.callbacks = con.callbacks
      /\ c.runningMain = con.runningMain /\ c.dialog = con.dialog
      /\ c.label = con.label /\ c.status = con.status
      /\ c.pending = con.pending /\ c.exitHandler = con.exitHandler
  BY DEF ModalIsOver
<1>4. s[1] \in Frame /\ s[1].modal = "no" /\ s[1].kind = "main" /\ s[1].heap = con.ctx
  BY DEF ModalIsOver
<1>5. s \in Seq(Frame) /\ Len(s) = 1 /\ s # <<>> /\ DOMAIN s = {1}
  BY DEF ModalIsOver
<1>6. \/ stack[1].modal \in {"dialogue", "file"} /\ Becomes(c, s)
      \/ Thrown(PrepForThrow([c EXCEPT !.status = @ \cup {"CLOSING"}]), s)
      \/ Thrown(PrepForThrow(c), s)
      \/ Becomes(StartTimeout([c EXCEPT !.dialog = 0]), Dismissed(s, con.dialog))
  BY DEF ModalIsOver
<1>7. Alone(c, s)
  BY <1>2, <1>3, <1>4, <1>5 DEF ModalMain, Alone, Good, HandlersOnHeap
<1>8. ASSUME NEW d, d.ctx = c.ctx, d.label = c.label, d.runningMain = c.runningMain,
             d.modalCount = c.modalCount, d.pending = c.pending, d.status = c.status,
             d.callbacks = c.callbacks, d.exitHandler = c.exitHandler, d.dialog = 0
      PROVE  Good(d, s)
  <2>1. HandlersOnHeap(d)
    BY <1>7, <1>8 DEF Alone, HandlersOnHeap
  <2> QED BY <1>2, <1>3, <1>4, <1>5, <1>8, <2>1, NoHeapAssumption
          DEF ModalMain, Good, Shape, HeapsInUse, DeadIsClear, LiveShowsStop, MainIsRunning,
              BoxIsRecorded, ModalsCounted, InCountedMain, InExitCall, IdleWaits, NoErrorYet,
              RequestsWait, ModalHasEntry
<1>9. CASE stack[1].modal \in {"dialogue", "file"} /\ Becomes(c, s)
  <2>1. c.dialog = 0
    BY <1>2, <1>3, <1>9 DEF ModalMain
  <2>2. Good(c, s)
    BY <1>8, <2>1
  <2> QED BY <1>2, <1>9, <2>2 DEF Becomes, NextGood
<1>10. CASE Thrown(PrepForThrow([c EXCEPT !.status = @ \cup {"CLOSING"}]), s)
  <2> DEFINE S == c.status \cup {"CLOSING"}
             d == [c EXCEPT !.status = S]
  <2>1. S \in SUBSET Completions /\ "HAD_ERROR" \notin S
    BY <1>3, <1>7, FieldTypes DEF Alone, Completions
  <2>2. Alone(PrepForThrow(d), s)
    BY <1>7, <2>1, AloneKept
  <2>3. FrameEnds(PrepForThrow(d), s, TRUE)
    BY <1>10 DEF Thrown
  <2> QED BY <1>2, <2>2, <2>3, AloneThrows
<1>11. CASE Thrown(PrepForThrow(c), s)
  <2>1. FrameEnds(PrepForThrow(c), s, TRUE)
    BY <1>11 DEF Thrown
  <2> QED BY <1>2, <1>7, <2>1, AloneKept, AloneThrows
<1>12. CASE Becomes(StartTimeout([c EXCEPT !.dialog = 0]), Dismissed(s, con.dialog))
  <2> DEFINE u == [c EXCEPT !.dialog = 0]
             d == StartTimeout(u)
  <2>1. Dismissed(s, con.dialog) = s
    BY <1>4, <1>5 DEF Dismissed, StillModal
  <2>2. /\ u \in Console /\ u.ctx = c.ctx /\ u.label = c.label /\ u.runningMain = c.runningMain
        /\ u.modalCount = c.modalCount /\ u.pending = c.pending /\ u.status = c.status
        /\ u.callbacks = c.callbacks /\ u.exitHandler = c.exitHandler /\ u.dialog = 0
    BY <1>3, FieldTypes DEF Console
  <2> HIDE DEF u
  <2>3. /\ d.ctx = u.ctx /\ d.label = u.label /\ d.runningMain = u.runningMain
        /\ d.modalCount = u.modalCount /\ d.pending = u.pending
        /\ d.status = u.status \ {"TIMEOUT"}
        /\ d.callbacks = u.callbacks /\ d.exitHandler = u.exitHandler /\ d.dialog = 0
    BY <2>2 DEF StartTimeout, Console
  <2> HIDE DEF d
  <2>4. Good(u, s) /\ HandlersOnHeap(d) /\ "HAD_ERROR" \notin d.status /\ u.ctx \in Heaps
    BY <1>7, <1>8, <2>2, <2>3 DEF Alone, HandlersOnHeap
  <2>5. ModalHasEntry(d, s)
    BY <1>4, <1>5 DEF ModalHasEntry
  <2>6. Good(d, s)
    BY <1>5, <2>2, <2>3, <2>4, <2>5, GoodKept
  <2>7. Becomes(d, s)
    BY <1>12, <2>1 DEF d, u
  <2> QED BY <1>2, <2>6, <2>7 DEF Becomes, NextGood
<1> QED BY <1>6, <1>9, <1>10, <1>11, <1>12

LEMMA CloseStepsGood ==
    ASSUME Practices = {}, TypeOK, IInv, ConsoleClose \/ CloseBox \/ ConsoleAdd
    PROVE  IInv'
<1>1. CASE ConsoleAdd
  <2>1. stack = <<>> /\ con' = NewConsole /\ stack' = stack /\ fault' = "none" /\ open'
    BY <1>1 DEF ConsoleAdd, IInv
  <2>2. Good(NewConsole, <<>>)
    BY DEF NewConsole, Good, Shape, HeapsInUse, HandlersOnHeap, DeadIsClear, LiveShowsStop,
       MainIsRunning, BoxIsRecorded, ModalsCounted, InCountedMain, InExitCall, IdleWaits,
       NoErrorYet, RequestsWait, ModalHasEntry
  <2> QED BY <2>1, <2>2 DEF IInv
<1>2. CASE CloseBox
  <2>1. open /\ stack = <<>> /\ fault = "none" /\ con \in Console /\ Good(con, <<>>)
        /\ DeleteMe(con, <<>>)
    BY <1>2 DEF CloseBox, Running, TypeOK, IInv
  <2>2. con' = Asked(con) /\ stack' = <<>> /\ fault' = "none" /\ open' = IsBusy(con)
    BY <2>1, IdleFacts DEF DeleteMe, AskedBusy
  <2>3. Good(Asked(con), <<>>)
    BY <2>1, AskedGood
  <2>4. ~IsBusy(con) => Asked(con).callbacks = {}
    BY <2>1, IdleFacts, AskedFields DEF IsBusy, SomethingAwaited
  <2> QED BY <2>2, <2>3, <2>4 DEF IInv
<1>3. CASE ConsoleClose
  <2>1. open /\ con \in Console /\ stack \in Seq(Frame) /\ fault = "none" /\ Good(con, stack)
        /\ (stack = <<>> \/ ModalMain)
    BY <1>3, LoopFacts DEF ConsoleClose, Running
  <2>2. CASE ModalMain
    <3>1. stack[1].modal = "message" /\ con.dialog = 1 /\ con.runningMain
      BY <1>3, <2>2 DEF ConsoleClose, ModalMain
    <3>2. DeleteMe(con, Answered(stack, 1, "closed"))
      BY <1>3, <2>2, <3>1 DEF ConsoleClose, ModalMain
    <3>3. con' = con /\ open' = TRUE /\ stack' = Answered(stack, 1, "closed") /\ fault' = "none"
      BY <2>1, <3>1, <3>2 DEF DeleteMe, AskedBusy, IsBusy
    <3>4. Good(con, Answered(stack, 1, "closed"))
      BY <2>1, <2>2, AnswerGood DEF Good
    <3> QED BY <3>3, <3>4 DEF IInv
  <2>3. CASE stack = <<>>
    <3> DEFINE c == ClearCallbacks(con)
    <3>1. DeleteMe(c, <<>>)
      BY <1>3, <2>1, <2>3, IdleFacts DEF ConsoleClose
    <3>2. c \in Console /\ c.callbacks = {} /\ ~c.alert /\ ~c.runningMain /\ c.dialog = 0
          /\ ~c.waitingCached
      BY <2>1, ClearCallbacksFields
    <3> HIDE DEF c
    <3>3. ~IsBusy(c) /\ AskedBusy(c) = Asked(c) /\ Asked(c).callbacks = {}
      BY <3>2, AskedFields DEF IsBusy, IsWaiting, SomethingAwaited, AskedBusy
    <3>4. open' = FALSE /\ con'.callbacks = {} /\ stack' = <<>> /\ fault' = "none"
      BY <2>1, <3>1, <3>3 DEF DeleteMe
    <3> QED BY <3>4 DEF IInv
  <2> QED BY <2>1, <2>2, <2>3
<1> QED BY <1>1, <1>2, <1>3

-----------------------------------------------------------------------------
(* The invariant, and what follows from it *)

LEMMA InitGood == Init => IInv
BY DEF Init, IInv, NewConsole, Good, Shape, HeapsInUse, HandlersOnHeap, DeadIsClear,
   LiveShowsStop, MainIsRunning, BoxIsRecorded, ModalsCounted, InCountedMain, InExitCall,
   IdleWaits, NoErrorYet, RequestsWait, ModalHasEntry

LEMMA NextKeepsIInv ==
    ASSUME Practices = {}, TypeOK, IInv, [Next]_vars
    PROVE  IInv'
<1>1. CASE UNCHANGED vars
  BY <1>1 DEF vars, IInv, Good, Shape, HeapsInUse, HandlersOnHeap, DeadIsClear,
     LiveShowsStop, MainIsRunning, BoxIsRecorded, ModalsCounted, InCountedMain, InExitCall,
     IdleWaits, NoErrorYet, RequestsWait, ModalHasEntry
<1>2. ASSUME \/ ApiError \/ ScriptError \/ Timeout \/ Return \/ CancelOne
             \/ \E type \in Types, persistant \in BOOLEAN : Register(type, persistant)
             \/ \E type \in Types : CancelType(type)
             \/ Alert \/ CancelAlert \/ OnExit \/ StopScript \/ ChainScript
             \/ MessageBox \/ ModalDialogue \/ FilePrompt
      PROVE  IInv'
  <2>1. JS
    BY <1>2 DEF ApiError, ScriptError, Timeout, Return, CancelOne, CancelType, Cancel, Register,
       Alert, CancelAlert, OnExit, StopScript, ChainScript, MessageBox, ModalDialogue, FilePrompt,
       MayGoModal
  <2>2. NextGood /\ open /\ open' = open
    BY <1>2, <2>1, ScriptStepsGood, JSFacts
  <2> QED BY <2>2 DEF NextGood, IInv
<1>3. ASSUME \/ RunClicked \/ RunQueued \/ RunRequested
             \/ CallbackFires \/ DialogueButton \/ AlertDismissed
             \/ MessageButton("ok") \/ MessageButton("cancel") \/ ModalButton
             \/ PromptButton("ok") \/ PromptButton("cancel") \/ ModalReturns
      PROVE  IInv'
  <2>1. open /\ open' = open
    BY <1>3 DEF RunClicked, RunQueued, RunRequested, CallbackFires, DialogueButton,
       AlertDismissed, MessageButton, ModalButton, PromptButton, ModalReturns, UserEvent, Event, Running
  <2>2. NextGood
    BY <1>3, RunClickedGood, RunQueuedGood, RunRequestedGood, CallbacksGood,
       AlertDismissedGood, ButtonsGood, ModalReturnsGood
  <2> QED BY <2>1, <2>2 DEF NextGood, IInv
<1>4. ASSUME ConsoleClose \/ CloseBox \/ ConsoleAdd PROVE IInv'
  BY <1>4, CloseStepsGood
<1> QED BY <1>1, <1>2, <1>3, <1>4, Zenon DEF Next

\* The inductive invariant of scripts that follow none of the practices.
THEOREM Invariance ==
    ASSUME Practices = {}
    PROVE  Spec => []IInv
<1>1. TypeOK /\ IInv /\ [Next]_vars => IInv'
  BY NextKeepsIInv
<1> QED BY <1>1, InitGood, TypeCorrect, PTL DEF Spec

\* No heap is destroyed under a call that runs on it.
THEOREM HeapsOutliveCalls ==
    ASSUME Practices = {}
    PROVE  Spec => []HeapOutlivesCalls
<1>1. IInv => HeapOutlivesCalls
  BY DEF IInv, Good, HeapsInUse, HeapOutlivesCalls
<1> QED BY <1>1, Invariance, PTL

\* None of the undefined behaviours that the program could meet is met.
THEOREM BehaviourIsDefined ==
    ASSUME Practices = {}
    PROVE  Spec => []NoUndefinedBehaviour
<1>1. IInv => NoUndefinedBehaviour
  BY DEF IInv, NoUndefinedBehaviour
<1> QED BY <1>1, Invariance, PTL

\* No callback entry outlives the heap its handler is on.
THEOREM CallbacksAreLive ==
    ASSUME Practices = {}
    PROVE  Spec => []CallbacksOnLiveHeap
<1>1. IInv => CallbacksOnLiveHeap
  BY DEF IInv, Good, HandlersOnHeap, CallbacksOnLiveHeap
<1> QED BY <1>1, Invariance, PTL

\* Between events the button, the heap and what is waited for agree.
THEOREM Quiescence ==
    ASSUME Practices = {}
    PROVE  Spec => []QuiescentIsConsistent
<1>1. TypeOK /\ IInv => QuiescentIsConsistent
  <2> SUFFICES ASSUME TypeOK, IInv, stack = <<>>, open
               PROVE  /\ con.label = "Stop" <=> con.ctx # NoHeap
                      /\ con.ctx # NoHeap <=> SomethingAwaited(con)
                      /\ ~con.runningMain
    BY DEF QuiescentIsConsistent
  <2>1. con \in Console /\ Good(con, <<>>)
    BY DEF TypeOK, IInv
  <2> QED BY <2>1, IdleFacts
<1> QED BY <1>1, Invariance, TypeCorrect, PTL

\* Between events a cached answer to isWaiting() is the right one.
THEOREM CacheIsRight ==
    ASSUME Practices = {}
    PROVE  Spec => []WaitingIsForSomething
<1>1. IInv => WaitingIsForSomething
  BY DEF IInv, Good, IdleWaits, WaitingIsForSomething
<1> QED BY <1>1, Invariance, PTL

\* mModalCount is the number of modal calls in progress that it counts.
THEOREM ModalsAreCounted ==
    ASSUME Practices = {}
    PROVE  Spec => []ModalCountAgrees
<1>1. TypeOK /\ IInv => ModalCountAgrees
  <2> SUFFICES ASSUME TypeOK, IInv, open
               PROVE  con.modalCount = Cardinality(CountedFrames(stack))
    BY DEF ModalCountAgrees
  <2>1. Good(con, stack) /\ stack \in Seq(Frame)
    BY DEF TypeOK, IInv
  <2>2. Len(stack) \in Nat /\ DOMAIN stack = 1..Len(stack) /\ Len(stack) <= 2
    BY <2>1 DEF Good, Shape
  <2>3. Len(stack) = 2 => stack[2].modal = "no"
    BY <2>1 DEF Good, Shape
  <2>4. stack = <<>> <=> Len(stack) = 0
    BY <2>1
  <2>5. CountedFrames(stack) = IF InCountedMain(stack) THEN {1} ELSE {}
    <3>1. ASSUME NEW i \in CountedFrames(stack) PROVE i = 1
      <4>1. i \in 1..2 /\ i <= Len(stack)
        BY <2>2 DEF CountedFrames
      <4>2. i = 2 => Len(stack) = 2
        BY <2>2, <4>1
      <4> QED BY <2>3, <4>1, <4>2 DEF CountedFrames
    <3>2. InCountedMain(stack) <=> 1 \in CountedFrames(stack)
      BY <2>2, <2>4 DEF InCountedMain, CountedFrames
    <3> QED BY <3>1, <3>2
  <2>6. Cardinality({1}) = 1 /\ Cardinality({}) = 0
    BY FS_Singleton, FS_EmptySet
  <2> QED BY <2>1, <2>5, <2>6 DEF Good, ModalsCounted
<1> QED BY <1>1, Invariance, TypeCorrect, PTL
=============================================================================
