---------------------------- MODULE ConsoleProofs ----------------------------
(***************************************************************************)
(* Theorems about one console, for every number of heaps, ids, callbacks   *)
(* and queued requests.                                                    *)
(***************************************************************************)
EXTENDS ConsoleInv, SequenceTheorems, TLAPS

-----------------------------------------------------------------------------
(* Types *)

\* The methods that run no JavaScript give back a console.
LEMMA SimpleMethodTypes ==
    ASSUME NEW c \in Console
    PROVE  /\ Asked(c) \in Console
           /\ AskedBusy(c) \in Console
           /\ ShowAlert(c) \in Console
           /\ ClearAlert(c) \in Console
           /\ ClearCallbacks(c) \in Console
           /\ Cleanup(c) \in Console
           /\ StartTimeout(c) \in Console
           /\ ClearTimeout(c) \in Console
           /\ BeforeCall(c) \in Console
           /\ PrepForThrow(c) \in Console
<1>1. IsWaiting(c) \in BOOLEAN
  BY DEF Console, IsWaiting, SomethingAwaited
<1>2. Asked(c) \in Console
  BY <1>1 DEF Console, Asked
<1>3. AskedBusy(c) \in Console
  BY <1>2 DEF AskedBusy
<1>4. ShowAlert(c) \in Console /\ ClearAlert(c) \in Console
  BY DEF Console, ShowAlert, ClearAlert
<1>5. ClearCallbacks(c) \in Console
  BY DEF Console, ClearCallbacks
<1>6. Cleanup(c) \in Console
  BY <1>5 DEF Console, Cleanup
<1>7. StartTimeout(c) \in Console /\ ClearTimeout(c) \in Console
  BY DEF Console, StartTimeout, ClearTimeout
<1>8. BeforeCall(c) \in Console
  BY <1>7 DEF Console, BeforeCall
<1>9. PrepForThrow(c) \in Console
  BY DEF Console, PrepForThrow
<1> QED BY <1>2, <1>3, <1>4, <1>5, <1>6, <1>7, <1>8, <1>9

\* setup() leaves a console.
LEMMA NewConsoleType == NewConsole \in Console
BY DEF NewConsole, Console, Completions

\* So do the methods that also change the callback entries or the status.
LEMMA EntryMethodTypes ==
    ASSUME NEW c \in Console
    PROVE  /\ \A e \in Entry : AddEntry(c, e) \in Console
           /\ \A S : RemoveEntries(c, S) \in Console
           /\ \A e : TakeEntry(c, e) \in Console
           /\ \A h \in Heaps : BeforeMain(c, h) \in Console
           /\ \A threw \in BOOLEAN : Afterwards(c, threw) \in Console
<1>1. ASSUME NEW e \in Entry PROVE AddEntry(c, e) \in Console
  BY DEF Console, AddEntry
<1>2. ASSUME NEW S PROVE RemoveEntries(c, S) \in Console
  BY DEF Console, RemoveEntries
<1>3. ASSUME NEW e PROVE TakeEntry(c, e) \in Console
  BY <1>2 DEF TakeEntry
<1>4. ASSUME NEW h \in Heaps PROVE BeforeMain(c, h) \in Console
  <2>2. ConsoleReset(c) \in Console
    BY NewConsoleType DEF Console, ConsoleReset
  <2>3. [ConsoleReset(c) EXCEPT !.ctx = h, !.label = "Stop", !.runningMain = TRUE] \in Console
    BY <2>2 DEF Console
  <2> QED BY <2>3, SimpleMethodTypes DEF BeforeMain
<1>5. ASSUME NEW threw \in BOOLEAN PROVE Afterwards(c, threw) \in Console
  BY DEF Console, Afterwards, SomethingAwaited, Completions
<1> QED BY <1>1, <1>2, <1>3, <1>4, <1>5

\* A field may be given any value of its type.
LEMMA FieldTypes ==
    ASSUME NEW c \in Console
    PROVE  /\ \A S \in SUBSET Completions : [c EXCEPT !.status = S] \in Console
           /\ \A b \in BOOLEAN : [c EXCEPT !.runningMain = b] \in Console
           /\ \A n \in Nat : [c EXCEPT !.pending = n] \in Console
           /\ \A n \in Nat : [c EXCEPT !.dialog = n] \in Console
           /\ \A i \in Int : [c EXCEPT !.modalCount = i] \in Console
           /\ \A h \in Heaps : [c EXCEPT !.exitHandler = h] \in Console
           /\ \A S \in SUBSET Entry : [c EXCEPT !.callbacks = S] \in Console
           /\ c.status \in SUBSET Completions /\ c.callbacks \in SUBSET Entry
           /\ c.pending \in Nat /\ c.modalCount \in Int /\ c.dialog \in Nat
BY DEF Console

LEMMA FrameTypes ==
    ASSUME NEW h \in Heaps, NEW reason \in Completions,
           NEW kind \in {"main", "callback", "dialogue", "exit"}
    PROVE  NewFrame(kind, h, reason) \in Frame
BY DEF NewFrame, Frame

\* Stacks remain stacks, of the same height where only an answer is given.
LEMMA StackTypes ==
    ASSUME NEW s \in Seq(Frame)
    PROVE  /\ \A d, answer : answer \in {"none", "ok", "cancel", "closed"} =>
                 /\ Answered(s, d, answer) \in Seq(Frame)
                 /\ Len(Answered(s, d, answer)) = Len(s)
           /\ \A d : /\ Dismissed(s, d) \in Seq(Frame)
                     /\ Len(Dismissed(s, d)) = Len(s)
           /\ s # <<>> => /\ s[Len(s)] \in Frame
                          /\ Below(s) \in Seq(Frame)
                          /\ Len(Below(s)) = Len(s) - 1
<1>1. ASSUME NEW d, NEW answer \in {"none", "ok", "cancel", "closed"}
      PROVE  /\ Answered(s, d, answer) \in Seq(Frame)
             /\ Len(Answered(s, d, answer)) = Len(s)
  <2>1. \A f \in Frame : [f EXCEPT !.answer = answer] \in Frame
    BY DEF Frame
  <2>2. Answered(s, d, answer) = [i \in 1..Len(s) |->
                IF i = d THEN [s[i] EXCEPT !.answer = answer] ELSE s[i]]
    BY DEF Answered
  <2>3. \A i \in 1..Len(s) : s[i] \in Frame
    OBVIOUS
  <2> QED BY <2>1, <2>2, <2>3, IsASeq
<1>2. ASSUME NEW d PROVE Dismissed(s, d) \in Seq(Frame) /\ Len(Dismissed(s, d)) = Len(s)
  BY <1>1 DEF Dismissed
<1>3. ASSUME s # <<>>
      PROVE  s[Len(s)] \in Frame /\ Below(s) \in Seq(Frame) /\ Len(Below(s)) = Len(s) - 1
  <2>1. Len(s) \in Nat /\ Len(s) >= 1 /\ \A i \in 1..Len(s) : s[i] \in Frame
    BY <1>3
  <2>2. s[Len(s)] \in Frame
    BY <2>1
  <2>3. Below(s) \in Seq(Frame) /\ Len(Below(s)) = Len(s) - 1
    <3>1. \A i \in 1..(Len(s) - 1) : s[i] \in Frame
      BY <2>1
    <3>2. /\ SubSeq(s, 1, Len(s) - 1) \in Seq(Frame)
          /\ Len(SubSeq(s, 1, Len(s) - 1)) =
               IF 1 <= Len(s) - 1 THEN (Len(s) - 1) - 1 + 1 ELSE 0
      BY <2>1, <3>1, SubSeqProperties
    <3>3. \A n \in Nat : n >= 1 => (IF 1 <= n - 1 THEN (n - 1) - 1 + 1 ELSE 0) = n - 1
      OBVIOUS
    <3>4. Len(SubSeq(s, 1, Len(s) - 1)) = Len(s) - 1
      BY <2>1, <3>2, <3>3, Zenon
    <3> QED BY <3>2, <3>4, Zenon DEF Below
  <2> QED BY <2>2, <2>3
<1> QED BY <1>1, <1>2, <1>3

-----------------------------------------------------------------------------
(* The operators that make up a step leave every variable its type. *)

NextTyped == con' \in Console /\ stack' \in Seq(Frame) /\ fault' \in Faults

LEMMA HeapGoesTyped ==
    ASSUME NEW c \in Console, NEW s \in Seq(Frame), HeapGoes(c, s)
    PROVE  stack' \in Seq(Frame) /\ fault' \in Faults
BY StackTypes DEF HeapGoes, Faults

LEMMA ClearDownTyped ==
    ASSUME NEW c \in Console, NEW s \in Seq(Frame), ClearDown(c, s)
    PROVE  NextTyped
BY SimpleMethodTypes, HeapGoesTyped DEF ClearDown, NextTyped

LEMMA FinishTyped ==
    ASSUME NEW c \in Console, NEW s \in Seq(Frame), NEW reason, Finish(c, s, reason)
    PROVE  NextTyped
<1> DEFINE idle  == AskedBusy(Cleanup(c))
           unset == [idle EXCEPT !.status = @ \ {"TOCHAIN"}]
           d     == [idle EXCEPT !.status = @ \ {"TOCHAIN"}, !.pending = @ + 1]
<1>1. idle \in Console
  BY SimpleMethodTypes
<1>2. con' = IF reason = "TOCHAIN" THEN d ELSE idle
  BY Zenon DEF Finish
<1>3. HeapGoes(c, s)
  BY DEF Finish
<1> HIDE DEF idle
<1>4. d \in Console
  <2>1. unset \in Console
    BY <1>1, FieldTypes
  <2>2. unset.pending \in Nat
    BY <2>1 DEF Console
  <2> HIDE DEF unset
  <2>3. unset.pending + 1 \in Nat
    BY <2>2
  <2>4. [unset EXCEPT !.pending = @ + 1] \in Console
    BY <2>1, <2>3, FieldTypes, Zenon
  <2> QED BY <2>4, Zenon DEF unset
<1> QED BY <1>1, <1>2, <1>3, <1>4, HeapGoesTyped DEF NextTyped

LEMMA ExitEndsTyped ==
    ASSUME NEW c \in Console, NEW s \in Seq(Frame), NEW outcome, NEW reason,
           ExitEnds(c, s, outcome, reason)
    PROVE  NextTyped
<1> DEFINE left == [c EXCEPT !.status = @ \ {"INEXIT"}]
<1>1. left \in Console
  BY FieldTypes
<1>2. ClearDown(left, s) \/ Finish(left, s, reason)
  BY DEF ExitEnds
<1> QED BY <1>1, <1>2, ClearDownTyped, FinishTyped

LEMMA CallTyped ==
    ASSUME NEW c \in Console, NEW s \in Seq(Frame), NEW f \in Frame, Call(c, s, f)
    PROVE  NextTyped
<1>1. con' \in Console
  BY SimpleMethodTypes DEF Call
<1>2. stack' \in Seq(Frame)
  BY AppendProperties DEF Call
<1>3. fault' \in Faults
  BY DEF Call, Faults
<1> QED BY <1>1, <1>2, <1>3 DEF NextTyped

LEMMA WrapUpTyped ==
    ASSUME NEW c0 \in Console, NEW s \in Seq(Frame), NEW reason \in Completions,
           fault \in Faults, WrapUp(c0, s, reason)
    PROVE  NextTyped
<1> DEFINE c == [c0 EXCEPT !.status = (@ \ {"MORETODO"}) \cup {reason}]
           inExit == [c EXCEPT !.status = (@ \ {"DONE"}) \cup {"INEXIT"}]
<1>1. c \in Console
  BY FieldTypes
<1>2. inExit \in Console
  BY <1>1, FieldTypes, "INEXIT" \in Completions DEF Completions
<1>3. \/ Becomes(c, s)
      \/ con' = c /\ stack' = s /\ fault' = "noContext"
      \/ ClearDown(c, s)
      \/ Finish(c, s, reason)
      \/ c.exitHandler # NoHeap /\ RunExitHandler(c, s, reason)
  BY Zenon DEF WrapUp
<1>4. CASE Becomes(c, s)
  BY <1>1, <1>4 DEF Becomes, NextTyped
<1>5. CASE con' = c /\ stack' = s /\ fault' = "noContext"
  BY <1>1, <1>5 DEF NextTyped, Faults
<1>6. CASE ClearDown(c, s)
  BY <1>1, <1>6, ClearDownTyped
<1>7. CASE Finish(c, s, reason)
  BY <1>1, <1>7, FinishTyped
<1>8. CASE c.exitHandler # NoHeap /\ RunExitHandler(c, s, reason)
  <2>1. c.exitHandler \in Heaps
    BY <1>1, <1>8 DEF Console
  <2>2. NewFrame("exit", c.exitHandler, reason) \in Frame
    BY <2>1, FrameTypes
  <2>3. \/ ExitEnds(inExit, s, "HAD_ERROR", reason)
        \/ Call(inExit, s, NewFrame("exit", c.exitHandler, reason))
    BY <1>8 DEF RunExitHandler
  <2> QED BY <1>2, <2>2, <2>3, ExitEndsTyped, CallTyped
<1> QED BY <1>3, <1>4, <1>5, <1>6, <1>7, <1>8

LEMMA WrapUpUnlessBusyTyped ==
    ASSUME NEW c \in Console, NEW s \in Seq(Frame), NEW outcome \in Completions,
           fault \in Faults, WrapUpUnlessBusy(c, s, outcome)
    PROVE  NextTyped
<1>1. AskedBusy(c) \in Console
  BY SimpleMethodTypes
<1> QED BY <1>1, WrapUpTyped DEF WrapUpUnlessBusy, Becomes, NextTyped

\* The outcome is a completion.
LEMMA OutcomeType ==
    ASSUME NEW c \in Console, NEW threw \in BOOLEAN
    PROVE  Outcome(c, threw) \in Completions
<1>1. CASE "TIMEOUT" \in c.status
  BY <1>1 DEF Outcome, Completions
<1>2. CASE "TIMEOUT" \notin c.status
  BY <1>2 DEF Outcome, Completions, Interrupts
<1> QED BY <1>1, <1>2

LEMMA FrameEndsTyped ==
    ASSUME NEW c0 \in Console, NEW s \in Seq(Frame), s # <<>>, NEW threw \in BOOLEAN,
           fault \in Faults, FrameEnds(c0, s, threw)
    PROVE  NextTyped
<1> DEFINE f       == s[Len(s)]
           c1      == [ClearTimeout(c0) EXCEPT !.runningMain = @ /\ f.kind # "main"]
           outcome == Outcome(c1, threw)
           c       == Afterwards(c1, threw)
<1>1. f \in Frame /\ Below(s) \in Seq(Frame)
  BY StackTypes
<1>2. c1 \in Console
  <2>1. (ClearTimeout(c0).runningMain /\ f.kind # "main") \in BOOLEAN
    OBVIOUS
  <2>2. ClearTimeout(c0) \in Console
    BY SimpleMethodTypes
  <2> QED BY <2>1, <2>2, FieldTypes, Zenon
<1>3. c \in Console /\ outcome \in Completions
  BY <1>2, EntryMethodTypes, OutcomeType
<1>4. \/ WrapUpUnlessBusy(c, Below(s), outcome)
      \/ WrapUp(c, Below(s), outcome)
      \/ ExitEnds(c, Below(s), outcome, f.reason)
  <2>1. f.kind \in {"main", "callback", "dialogue", "exit"}
    BY <1>1 DEF Frame
  <2> QED BY <2>1 DEF FrameEnds
<1> QED BY <1>1, <1>3, <1>4, WrapUpUnlessBusyTyped, WrapUpTyped, ExitEndsTyped

LEMMA BecomesTyped ==
    ASSUME NEW c \in Console, NEW s \in Seq(Frame), fault \in Faults, Becomes(c, s)
    PROVE  NextTyped
BY DEF Becomes, NextTyped

LEMMA ThrownTyped ==
    ASSUME NEW c \in Console, NEW s \in Seq(Frame), s # <<>>, fault \in Faults,
           Thrown(c, s) \/ ApiThrow(c, s)
    PROVE  NextTyped
<1>1. PrepForThrow(c) \in Console
  BY SimpleMethodTypes
<1>2. \E d \in {c, PrepForThrow(c)} : Thrown(d, s)
  BY DEF ApiThrow
<1>3. \E d \in Console : Becomes(d, s) \/ FrameEnds(d, s, TRUE)
  BY <1>1, <1>2 DEF Thrown
<1> QED BY <1>3, BecomesTyped, FrameEndsTyped

\* Registering at the limit.
LEMMA TooManyTyped ==
    ASSUME con \in Console, stack \in Seq(Frame), stack # <<>>, fault \in Faults,
           TooManyCallbacks
    PROVE  NextTyped
<1>1. ClearCallbacks(con) \in Console
  BY SimpleMethodTypes
<1>2. Dismissed(stack, con.dialog) \in Seq(Frame) /\ Dismissed(stack, con.dialog) # <<>>
  <2>1. Len(stack) > 0
    OBVIOUS
  <2>2. Len(Dismissed(stack, con.dialog)) > 0 /\ Dismissed(stack, con.dialog) \in Seq(Frame)
    BY <2>1, StackTypes
  <2> QED BY <2>2
<1> QED BY <1>1, <1>2, ThrownTyped DEF TooManyCallbacks

\* A modal call begins and ends in the innermost frame.
LEMMA ModalTypes ==
    ASSUME NEW s \in Seq(Frame), s # <<>>,
           NEW modal \in {"no", "message", "dialogue", "file"},
           NEW answer \in {"none", "ok", "cancel", "closed"}, NEW id \in Ids \cup {NoId}
    PROVE  LET t == [s EXCEPT ![Len(s)] =
                        [@ EXCEPT !.modal = modal, !.answer = answer, !.entry = id]]
               u == [s EXCEPT ![Len(s)] = [@ EXCEPT !.modal = modal]]
           IN  /\ t \in Seq(Frame) /\ Len(t) = Len(s) /\ t # <<>>
               /\ u \in Seq(Frame) /\ Len(u) = Len(s) /\ u # <<>>
<1>1. Len(s) \in 1..Len(s)
  OBVIOUS
<1>2. \A f \in Frame : /\ [f EXCEPT !.modal = modal, !.answer = answer, !.entry = id] \in Frame
                       /\ [f EXCEPT !.modal = modal] \in Frame
  BY DEF Frame
<1>3. s[Len(s)] \in Frame
  BY <1>1
<1>4. \A f \in Frame : /\ [s EXCEPT ![Len(s)] = f] \in Seq(Frame)
                       /\ Len([s EXCEPT ![Len(s)] = f]) = Len(s)
  BY <1>1, ExceptSeq
<1>5. \A r \in Seq(Frame) : Len(r) = Len(s) => r # <<>>
  BY <1>1
<1> QED BY <1>2, <1>3, <1>4, <1>5

\* Starting a script, and calling the handler of a callback entry.
LEMMA RunScriptTyped ==
    ASSUME NEW c \in Console, stack \in Seq(Frame), fault \in Faults, RunScript(c)
    PROVE  NextTyped
<1>1. PICK h \in Heaps :
        Becomes(BeforeMain(c, h), Append(stack, NewFrame("main", h, "DONE")))
  BY DEF RunScript
<1>2. NewFrame("main", h, "DONE") \in Frame
  BY FrameTypes, "DONE" \in Completions DEF Completions
<1>3. Append(stack, NewFrame("main", h, "DONE")) \in Seq(Frame)
  BY <1>2, AppendProperties
<1> QED BY <1>1, <1>3, EntryMethodTypes, BecomesTyped

LEMMA HandleTyped ==
    ASSUME NEW c0 \in Console, NEW e \in Entry, NEW kind \in {"callback", "dialogue"},
           stack \in Seq(Frame), fault \in Faults, Handle(c0, e, kind)
    PROVE  NextTyped
<1>1. TakeEntry(c0, e) \in Console
  BY EntryMethodTypes
<1>2. e.heap \in Heaps
  BY DEF Entry
<1>3. "DONE" \in Completions /\ "HAD_ERROR" \in Completions
  BY DEF Completions
<1>4. NewFrame(kind, e.heap, "DONE") \in Frame
  BY <1>2, <1>3, FrameTypes
<1> QED BY <1>1, <1>3, <1>4, WrapUpTyped, WrapUpUnlessBusyTyped, CallTyped DEF Handle

LEMMA RegisterTyped ==
    ASSUME TypeOK, NEW type \in Types, NEW persistant \in BOOLEAN, Register(type, persistant)
    PROVE  TypeOK'
<1>1. con \in Console /\ stack \in Seq(Frame) /\ fault \in Faults /\ stack # <<>>
      /\ open' = open /\ open \in BOOLEAN
  BY DEF TypeOK, Register, JS, JSRunning
<1>2. Top \in Frame
  BY <1>1, StackTypes DEF Top
<1>3. ASSUME NEW id \in FreeIds PROVE [id |-> id, type |-> type, persistant |-> persistant,
                                       heap |-> Top.heap] \in Entry
  BY <1>2, <1>3, TypesAssumption DEF FreeIds, Entry, Frame
<1>4. NextTyped
  <2>1. CASE ApiThrow(con, stack)
    BY <1>1, <2>1, ThrownTyped
  <2>2. CASE TooManyCallbacks
    BY <1>1, <2>2, TooManyTyped
  <2>3. CASE \E id \in FreeIds :
               Sets(AddEntry(con, [id |-> id, type |-> type, persistant |-> persistant,
                                   heap |-> Top.heap]))
    BY <1>1, <1>3, <2>3, EntryMethodTypes, BecomesTyped DEF Sets
  <2> QED BY <2>1, <2>2, <2>3 DEF Register
<1> QED BY <1>1, <1>4 DEF TypeOK, NextTyped

LEMMA ScriptStepsTyped ==
    ASSUME TypeOK,
           \/ ApiError \/ ScriptError \/ Timeout \/ Return \/ CancelOne
           \/ \E type \in Types : CancelType(type)
           \/ Alert \/ CancelAlert \/ OnExit \/ StopScript \/ ChainScript
           \/ MessageBox \/ ModalDialogue \/ FilePrompt
    PROVE  TypeOK'
<1>1. con \in Console /\ stack \in Seq(Frame) /\ fault \in Faults /\ open \in BOOLEAN
  BY DEF TypeOK
<1>2. JS
  BY DEF ApiError, ScriptError, Timeout, Return, CancelOne, CancelType, Cancel, Alert,
         CancelAlert, OnExit, StopScript, ChainScript, MessageBox, ModalDialogue, FilePrompt,
         MayGoModal
<1>3. stack # <<>> /\ open' = open
  BY <1>2 DEF JS, JSRunning
<1>4. Top \in Frame
  BY <1>1, <1>3, StackTypes DEF Top
<1>5. Dismissed(stack, con.dialog) \in Seq(Frame) /\ Dismissed(stack, con.dialog) # <<>>
  <2>1. Len(stack) > 0
    BY <1>1, <1>3
  <2>2. Len(Dismissed(stack, con.dialog)) > 0 /\ Dismissed(stack, con.dialog) \in Seq(Frame)
    BY <1>1, <2>1, StackTypes
  <2> QED BY <2>2
<1>6. \A S : S \in SUBSET Completions => [con EXCEPT !.status = @ \cup S] \in Console
  BY <1>1, FieldTypes
<1>7. {"STOPPED"} \subseteq Completions /\ {"TOCHAIN"} \subseteq Completions
      /\ {"TIMEOUT"} \subseteq Completions
  BY DEF Completions
<1>8. NextTyped
  <2>1. CASE ApiError
    BY <1>1, <1>3, <2>1, ThrownTyped DEF ApiError
  <2>2. CASE ScriptError
    BY <1>1, <1>3, <2>2, FrameEndsTyped DEF ScriptError
  <2>3. CASE Timeout
    BY <1>1, <1>3, <1>6, <1>7, <2>3, FrameEndsTyped DEF Timeout
  <2>4. CASE Return
    BY <1>1, <1>3, <2>4, FrameEndsTyped DEF Return
  <2>5. CASE CancelOne
    BY <1>1, <2>5, EntryMethodTypes, BecomesTyped DEF CancelOne, Cancel, Sets
  <2>6. CASE \E type \in Types : CancelType(type)
    BY <1>1, <2>6, EntryMethodTypes, BecomesTyped DEF CancelType, Cancel, Sets
  <2>7. CASE Alert
    BY <1>1, <2>7, SimpleMethodTypes, BecomesTyped DEF Alert, Sets
  <2>8. CASE CancelAlert
    BY <1>1, <2>8, SimpleMethodTypes, BecomesTyped DEF CancelAlert, Sets
  <2>9. CASE OnExit
    <3>1. [con EXCEPT !.exitHandler = Top.heap] \in Console
      BY <1>1, <1>4, FieldTypes DEF Frame
    <3> QED BY <1>1, <1>3, <2>9, <3>1, BecomesTyped, ThrownTyped DEF OnExit, Sets
  <2>10. CASE StopScript
    <3> DEFINE c == [con EXCEPT !.status = @ \cup {"STOPPED"}]
    <3>1. c \in Console /\ ClearCallbacks(c) \in Console
      BY <1>6, <1>7, SimpleMethodTypes
    <3>2. Sets(c) \/ ApiThrow(c, stack) \/ Thrown(ClearCallbacks(c), Dismissed(stack, con.dialog))
      BY <2>10 DEF StopScript
    <3> QED BY <1>1, <1>3, <1>5, <3>1, <3>2, BecomesTyped, ThrownTyped DEF Sets
  <2>11. CASE ChainScript
    BY <1>1, <1>3, <1>6, <1>7, <2>11, ThrownTyped DEF ChainScript
  <2>12. CASE MessageBox
    <3> DEFINE boxed == [con EXCEPT !.dialog = Len(stack)]
    <3>1. boxed \in Console
      BY <1>1, FieldTypes
    <3>2. [boxed EXCEPT !.modalCount = @ + 1] \in Console
      <4>1. \A i \in Int : i + 1 \in Int
        OBVIOUS
      <4>2. boxed.modalCount \in Int
        BY <3>1, FieldTypes, Zenon
      <4> QED BY <3>1, <4>1, <4>2, FieldTypes, Zenon
    <3>3. InModal("message", NoId) \in Seq(Frame)
      BY <1>1, <1>3, ModalTypes DEF InModal
    <3> QED BY <1>1, <2>12, <3>2, <3>3, BecomesTyped DEF MessageBox
  <2>13. CASE ModalDialogue
    <3>1. CASE TooManyCallbacks
      BY <1>1, <1>3, <3>1, TooManyTyped
    <3>2. CASE ~TooManyCallbacks
      <4>1. PICK id \in FreeIds :
              LET e == [id |-> id, type |-> "CB_DIALOGUE", persistant |-> FALSE,
                        heap |-> Top.heap]
              IN  Becomes([con EXCEPT !.callbacks = @ \cup {e}, !.modalCount = @ + 1],
                          InModal("dialogue", id))
        BY <2>13, <3>2 DEF ModalDialogue
      <4> DEFINE e == [id |-> id, type |-> "CB_DIALOGUE", persistant |-> FALSE,
                       heap |-> Top.heap]
                 listed == [con EXCEPT !.callbacks = @ \cup {e}]
      <4>2. id \in Ids
        BY <4>1 DEF FreeIds
      <4>3. e \in Entry
        BY <1>4, <4>2 DEF Entry, Frame, CallbackTypes
      <4>4. listed \in Console
        BY <1>1, <4>3, FieldTypes
      <4>5. [listed EXCEPT !.modalCount = @ + 1] \in Console
        <5>1. \A i \in Int : i + 1 \in Int
          OBVIOUS
        <5>2. listed.modalCount \in Int
          BY <4>4, FieldTypes, Zenon
        <5> QED BY <4>4, <5>1, <5>2, FieldTypes, Zenon
      <4>6. InModal("dialogue", id) \in Seq(Frame)
        BY <1>1, <1>3, <4>2, ModalTypes DEF InModal
      <4> QED BY <1>1, <4>1, <4>5, <4>6, BecomesTyped
    <3> QED BY <3>1, <3>2
  <2>14. CASE FilePrompt
    <3>1. InModal("file", NoId) \in Seq(Frame)
      BY <1>1, <1>3, ModalTypes DEF InModal
    <3> QED BY <1>1, <2>14, <3>1, BecomesTyped DEF FilePrompt
  <2> QED BY <2>1, <2>2, <2>3, <2>4, <2>5, <2>6, <2>7, <2>8, <2>9, <2>10, <2>11, <2>12, <2>13, <2>14
<1> QED BY <1>1, <1>3, <1>8 DEF TypeOK, NextTyped

LEMMA EventStepsTyped ==
    ASSUME TypeOK,
           \/ RunClicked \/ RunQueued \/ RunRequested
           \/ CallbackFires \/ DialogueButton \/ AlertDismissed
           \/ MessageButton("ok") \/ MessageButton("cancel") \/ ModalButton
           \/ PromptButton("ok") \/ PromptButton("cancel") \/ ModalReturns
    PROVE  TypeOK'
<1>1. con \in Console /\ stack \in Seq(Frame) /\ fault \in Faults /\ open \in BOOLEAN
  BY DEF TypeOK
<1>2. open' = open
  BY DEF RunClicked, RunQueued, RunRequested, CallbackFires, DialogueButton, AlertDismissed,
         MessageButton, ModalButton, PromptButton, ModalReturns, UserEvent, Event
<1>3. {"STOPPED", "DONE", "HAD_ERROR", "CLOSING"} \subseteq Completions /\ {} \subseteq Completions
  BY DEF Completions
<1>4. con.callbacks \subseteq Entry
  BY <1>1, FieldTypes
<1>5. \A n \in Nat : n + 1 \in Nat /\ (n > 0 => n - 1 \in Nat)
  OBVIOUS
<1>6. con.pending \in Nat
  BY <1>1, FieldTypes
<1>7. ASSUME NEW c \in Console, StopRun(c) PROVE NextTyped
  <2>1. [c EXCEPT !.status = {}] \in Console
    BY <1>3, FieldTypes
  <2> QED BY <1>1, <1>3, <1>7, <2>1, WrapUpTyped DEF StopRun
<1>8. NextTyped
  <2>1. CASE RunClicked
    <3>1. RunScript(con) \/ StopRun(con)
      BY <2>1 DEF RunClicked
    <3> QED BY <1>1, <1>7, <3>1, RunScriptTyped
  <2>2. CASE RunQueued
    <3> DEFINE c == [con EXCEPT !.pending = @ - 1]
    <3>1. c \in Console
      <4>1. con.pending - 1 \in Nat
        BY <1>5, <1>6, <2>2 DEF RunQueued
      <4> QED BY <1>1, <4>1, FieldTypes
    <3>2. RunScript(c) \/ WrapUpUnlessBusy(c, stack, "HAD_ERROR") \/ StopRun(c)
      BY <2>2 DEF RunQueued
    <3> QED BY <1>1, <1>3, <1>7, <3>1, <3>2, RunScriptTyped, WrapUpUnlessBusyTyped
  <2>3. CASE RunRequested
    <3>1. ASSUME NEW c \in Console PROVE [c EXCEPT !.pending = @ + 1] \in Console
      <4>1. c.pending \in Nat
        BY FieldTypes
      <4> QED BY <1>5, <4>1, FieldTypes, Zenon
    <3>2. AskedBusy(con) \in Console
      BY <1>1, SimpleMethodTypes
    <3> QED BY <1>1, <2>3, <3>1, <3>2, BecomesTyped DEF RunRequested, Sets
  <2>4. CASE CallbackFires
    <3>1. Asked(con) \in Console
      BY <1>1, SimpleMethodTypes
    <3>2. \E c \in {con, Asked(con)} :
             Sets(c) \/ \E e \in Entry : Handle(c, e, "callback")
      BY <1>4, <2>4 DEF CallbackFires
    <3> QED BY <1>1, <3>1, <3>2, HandleTyped, BecomesTyped DEF Sets
  <2>5. CASE DialogueButton
    <3>1. \E e \in Entry : Handle(con, e, "dialogue")
      BY <1>4, <2>5 DEF DialogueButton
    <3> QED BY <1>1, <3>1, HandleTyped
  <2>6. CASE AlertDismissed
    <3> DEFINE c == ClearAlert(con)
    <3>1. Asked(c) \in Console
      BY <1>1, SimpleMethodTypes
    <3>2. Sets(Asked(c)) \/ WrapUp(Asked(c), stack, "DONE")
      BY <2>6 DEF AlertDismissed
    <3> QED BY <1>1, <1>3, <3>1, <3>2, BecomesTyped, WrapUpTyped DEF Sets
  <2>7. ASSUME NEW answer \in {"ok", "cancel"}, MessageButton(answer) PROVE NextTyped
    <3>1. Answered(stack, con.dialog, answer) \in Seq(Frame)
      BY <1>1, StackTypes
    <3>2. "noDialog" \in Faults
      BY DEF Faults
    <3> QED BY <1>1, <2>7, <3>1, <3>2, BecomesTyped DEF MessageButton, NextTyped
  <2>8. CASE ModalButton
    <3>1. Answered(stack, Len(stack), "ok") \in Seq(Frame)
      BY <1>1, StackTypes
    <3>2. "noEntry" \in Faults
      BY DEF Faults
    <3> QED BY <1>1, <2>8, <3>1, <3>2, EntryMethodTypes, BecomesTyped DEF ModalButton, NextTyped
  <2>9. CASE ModalReturns
    <3> DEFINE c == [con EXCEPT !.modalCount = @ - 1]
               s == [stack EXCEPT ![Len(stack)] = [@ EXCEPT !.modal = "no"]]
    <3>1. c \in Console
      <4>1. \A i \in Int : i - 1 \in Int
        OBVIOUS
      <4>2. con.modalCount \in Int
        BY <1>1, FieldTypes
      <4> QED BY <1>1, <4>1, <4>2, FieldTypes
    <3>2. stack # <<>>
      BY <2>9 DEF ModalReturns, ModalOver
    <3>3. s \in Seq(Frame) /\ s # <<>> /\ Dismissed(s, con.dialog) \in Seq(Frame)
      <4>1. s \in Seq(Frame) /\ s # <<>>
        BY <1>1, <3>2, ModalTypes
      <4> QED BY <4>1, StackTypes
    <3>4. [c EXCEPT !.status = @ \cup {"CLOSING"}] \in Console
      BY <1>3, <3>1, FieldTypes
    <3>5. StartTimeout([c EXCEPT !.dialog = 0]) \in Console
      BY <3>1, FieldTypes, SimpleMethodTypes
    <3>6. \/ Becomes(c, s) \/ Becomes(con, s) \/ Thrown(PrepForThrow(con), s)
          \/ Thrown(PrepForThrow([c EXCEPT !.status = @ \cup {"CLOSING"}]), s)
          \/ Thrown(PrepForThrow(c), s)
          \/ fault' = "noDialog" /\ UNCHANGED <<con, stack>>
          \/ Becomes(StartTimeout([c EXCEPT !.dialog = 0]), Dismissed(s, con.dialog))
      <4>1. \/ Top.modal \in {"dialogue", "file"}
            \/ Top.modal = "message" /\ Top.answer = "closed"
            \/ Top.modal = "message" /\ Top.answer = "cancel"
            \/ Top.modal = "message" /\ Top.answer = "ok"
        <5>1. Top \in Frame
          BY <1>1, <3>2, StackTypes DEF Top
        <5> QED BY <2>9, <5>1 DEF ModalReturns, ModalOver, Event, InEventLoop, JSRunning, Frame
      <4> QED BY <2>9, <4>1 DEF ModalReturns
    <3>7. "noDialog" \in Faults
      BY DEF Faults
    <3> QED BY <1>1, <3>1, <3>3, <3>4, <3>5, <3>6, <3>7, SimpleMethodTypes, BecomesTyped,
               ThrownTyped DEF NextTyped
  <2>10. ASSUME NEW answer \in {"ok", "cancel"}, PromptButton(answer) PROVE NextTyped
    <3>1. Answered(stack, Len(stack), answer) \in Seq(Frame)
      BY <1>1, StackTypes
    <3> QED BY <1>1, <2>10, <3>1, BecomesTyped DEF PromptButton
  <2> QED BY <2>1, <2>2, <2>3, <2>4, <2>5, <2>6, <2>7, <2>8, <2>9, <2>10
<1> QED BY <1>1, <1>2, <1>8 DEF TypeOK, NextTyped

LEMMA CloseStepsTyped ==
    ASSUME TypeOK, ConsoleClose \/ CloseBox \/ ConsoleAdd
    PROVE  TypeOK'
<1>1. con \in Console /\ stack \in Seq(Frame) /\ fault \in Faults /\ open \in BOOLEAN
  BY DEF TypeOK
<1>2. ASSUME NEW c \in Console, NEW s \in Seq(Frame), DeleteMe(c, s) PROVE TypeOK'
  <2>1. AskedBusy(c) \in Console
    BY SimpleMethodTypes
  <2>2. IsBusy(c) \in BOOLEAN
    BY DEF IsBusy, IsWaiting, SomethingAwaited, Console
  <2>3. "consoleInUse" \in Faults
    BY DEF Faults
  <2> QED BY <1>1, <1>2, <2>1, <2>2, <2>3 DEF DeleteMe, TypeOK
<1>3. ClearCallbacks(con) \in Console
  BY <1>1, SimpleMethodTypes
<1>4. CASE ConsoleClose
  <2>1. Answered(stack, con.dialog, "closed") \in Seq(Frame)
    BY <1>1, StackTypes
  <2> QED BY <1>1, <1>2, <1>3, <1>4, <2>1 DEF ConsoleClose
<1>5. CASE CloseBox
  BY <1>1, <1>2, <1>5 DEF CloseBox
<1>6. CASE ConsoleAdd
  BY <1>1, <1>6, NewConsoleType DEF ConsoleAdd, TypeOK
<1> QED BY <1>4, <1>5, <1>6

\* Type correctness: con, open, stack and fault keep their types in every step.
THEOREM TypeCorrect == Spec => []TypeOK
<1>1. Init => TypeOK
  BY NewConsoleType DEF Init, TypeOK, Faults
<1>2. TypeOK /\ [Next]_vars => TypeOK'
  <2> SUFFICES ASSUME TypeOK, [Next]_vars PROVE TypeOK'
    OBVIOUS
  <2>1. CASE UNCHANGED vars
    BY <2>1 DEF vars, TypeOK
  <2>2. ASSUME NEW type \in Types, NEW persistant \in BOOLEAN, Register(type, persistant)
        PROVE  TypeOK'
    BY <2>2, RegisterTyped
  <2>3. ASSUME \/ ApiError \/ ScriptError \/ Timeout \/ Return \/ CancelOne
               \/ \E type \in Types : CancelType(type)
               \/ Alert \/ CancelAlert \/ OnExit \/ StopScript \/ ChainScript
               \/ MessageBox \/ ModalDialogue \/ FilePrompt
        PROVE  TypeOK'
    BY <2>3, ScriptStepsTyped
  <2>4. ASSUME \/ RunClicked \/ RunQueued \/ RunRequested
               \/ CallbackFires \/ DialogueButton \/ AlertDismissed
               \/ MessageButton("ok") \/ MessageButton("cancel") \/ ModalButton
               \/ PromptButton("ok") \/ PromptButton("cancel") \/ ModalReturns
        PROVE  TypeOK'
    BY <2>4, EventStepsTyped
  <2>5. ASSUME ConsoleClose \/ CloseBox \/ ConsoleAdd PROVE TypeOK'
    BY <2>5, CloseStepsTyped
  <2> QED BY <2>1, <2>2, <2>3, <2>4, <2>5, Zenon DEF Next
<1> QED BY <1>1, <1>2, PTL DEF Spec
=============================================================================
