------------------------------ MODULE Consoles ------------------------------
(***************************************************************************)
(* Several consoles whose scripts run, chain, close and add each other.    *)
(* onConsoleResult() asks for another console's script to be run and its   *)
(* result to be given to a handler: the request is a callback entry of the *)
(* caller, and a brief that says whom to answer, which travels in the      *)
(* queue of CallAfter() to the callee, is kept in its mBrief as long as    *)
(* the script and those it chains to last, and is answered when it is      *)
(* wrapped up, by calling the handler of the caller then and there.        *)
(*                                                                         *)
(* Each console is that of ConsoleState; Console has its life in full.     *)
(* Here scripts have no exit handler, go modal (message box, modal         *)
(* dialogue, prompt for a file) from main only, and throw no error while   *)
(* main is modal (failUnderModal of Console), so that no live console is   *)
(* marked HAD_ERROR.  A console is known by its name, and its heap by its  *)
(* console.                                                                *)
(***************************************************************************)
EXTENDS Integers, FiniteSets, Sequences

CONSTANTS
    Consoles,    \* the names of consoles
    NoConsole,
    Ids,         \* ids of callback entries
    NoId,
    Modals,      \* the modal calls scripts use: "message", "dialogue", "file"
    Practices,   \* the hazardous things scripts may do, see PracticeNames
    Giving,      \* bound: whether requests to run come with a brief, or not
    MaxDepth     \* bound: JavaScript calls on the stack

(***************************************************************************)
(* What the code does not stop scripts (or the user) from doing, and is    *)
(* only sound without:                                                     *)
(*   overlappingRuns   a console is asked to run while a request to run it *)
(*                     is already queued                                   *)
(*   closedOwing       a console is closed that owes a reply               *)
(*   closedInDialogue  a console is closed while its main is in a modal    *)
(*                     dialogue or a prompt for a file                     *)
(*   interruptUnderBox a callback times out, chains, stops or is refused   *)
(*                     it while main is modal                              *)
(*   unreadBrief       consoleRun() without a brief, of a console whose    *)
(*                     last brief was not read                             *)
(*   asksUnheard       onConsoleResult() in a main whose callbacks found,  *)
(*                     while it was modal, that nothing was awaited        *)
(*   asksItself        a script asks whether its own console is busy       *)
(*   runsUnknown       consoleRun() of a console that does not exist       *)
(*   runsUntimed       consoleRun() of a console that has a heap, by a     *)
(*                     script whose time a callback has cleared            *)
(*   notCallable       what onConsoleResult() is given is not a function   *)
(***************************************************************************)
PracticeNames == {"overlappingRuns", "closedOwing", "closedInDialogue",
                  "interruptUnderBox", "unreadBrief", "asksUnheard", "asksItself",
                  "runsUnknown", "runsUntimed", "notCallable"}

ASSUME ConsolesAssumption == Consoles # {} /\ NoConsole \notin Consoles /\ NoId \notin Ids
ASSUME ModalsAssumption == Modals \subseteq {"message", "dialogue", "file"}
ASSUME PracticesAssumption == Practices \subseteq PracticeNames
ASSUME GivingAssumption == Giving \subseteq BOOLEAN
ASSUME DepthAssumption == MaxDepth \in Nat

INSTANCE ConsoleState WITH Heaps <- Consoles, NoHeap <- NoConsole,
                           MaxCallbacks <- Cardinality(Ids)

VARIABLES
    exists,   \* the consoles in m_consoles
    con,      \* each console
    brief,    \* the mBrief of each
    queue,    \* the doRunCommand() calls queued for each, by their briefs
    stack,    \* the JavaScript calls in progress, the innermost last
    fault     \* the undefined behaviour met, "none" as long as there is none

vars == <<exists, con, brief, queue, stack, fault>>

-----------------------------------------------------------------------------
(* Briefs and calls *)

\* given and request are history: whether the request to run gave a brief, and
\* the entry that awaits its result.
Brief == [has        : BOOLEAN,
          callbackId : Ids \cup {NoId},
          caller     : Consoles \cup {NoConsole},
          given      : BOOLEAN,
          request    : Ids \cup {NoId}]

NoBrief == [has |-> FALSE, callbackId |-> NoId, caller |-> NoConsole,
            given |-> FALSE, request |-> NoId]

Frame == [con     : Consoles,
          kind    : {"main", "callback", "reply"},
          box     : BOOLEAN,                          \* it is in a modal call,
          modal   : {"no", "message", "dialogue", "file"},   \* this one; or it has
                                                             \* come back from it untimed
          answer  : {"none", "ok", "cancel", "closed"},
          from    : Consoles \cup {NoConsole},        \* who replies, for "reply",
          entry   : Ids \cup {NoId},                  \* to which entry
          request : Ids \cup {NoId}]                  \* and for which

NewFrame(c, kind) == [con |-> c, kind |-> kind, modal |-> "no", box |-> FALSE, answer |-> "none",
                      from |-> NoConsole, entry |-> NoId, request |-> NoId]

Suspended(s, d) == \E i \in DOMAIN s : s[i].con = d

Top == stack[Len(stack)]
Below(s) == SubSeq(s, 1, Len(s) - 1)

JSRunning   == stack # <<>> /\ ~Top.box
InEventLoop == ~JSRunning

\* The console whose JavaScript is running.
me == Top.con

\* No call of the same console is suspended below.
Alone == \A i \in 1..Len(stack) - 1 : stack[i].con # me

Becomes(cs, bs, qs, s) ==
    con' = cs /\ brief' = bs /\ queue' = qs /\ stack' = s /\ UNCHANGED fault

Fails(what) == fault' = what /\ UNCHANGED <<con, brief, queue, stack>>

\* pConsoleBeingTimed is one pointer for all consoles.
Timed(cs, c, new) ==
    [d \in Consoles |-> IF d = c THEN new ELSE ClearTimeout(cs[d])]

BeingTimed ==
    IF \E c \in Consoles : con[c].timed
    THEN CHOOSE c \in Consoles : con[c].timed ELSE NoConsole

-----------------------------------------------------------------------------
(***************************************************************************)
(* wrapUp() and the reply.  In what follows cs, bs, qs and s are the       *)
(* consoles, briefs, queues and stack that the code has arrived at so far. *)
(***************************************************************************)

\* getCallbackEntry()
EntriesOf(c, id) == {e \in c.callbacks : e.id = id}

\* replyToConsole(): only a reply that is made clears callbackId, and that
\* once the handler is back.  A handler that is not callable is as good as back:
\* the console that had asked answers from the cache that it still waits.
ReplyToConsole(cs, bs, qs, s, b) ==
    LET id      == bs[b].callbackId
        a       == bs[b].caller
        asked   == Asked(cs[a])
        unmade  == Becomes([cs EXCEPT ![a] = asked], bs, qs, s)
    IN  CASE id = NoId \/ a \notin exists -> Becomes(cs, bs, qs, s)
          [] OTHER ->
               IF ~asked.waiting \/ EntriesOf(asked, id) = {} THEN unmade
               ELSE \E e \in EntriesOf(asked, id) :
                      \/ "notCallable" \in Practices
                         /\ Becomes([cs EXCEPT ![a] = RemoveEntries(asked, {e})],
                                    [bs EXCEPT ![b].callbackId = NoId], qs, s)
                      \/ Becomes(Timed(cs, a, BeforeCall(RemoveEntries(asked, {e}))), bs, qs,
                                 Append(s, [NewFrame(a, "reply") EXCEPT
                                              !.from = b, !.entry = e.id,
                                              !.request = bs[b].request]))

\* Mutant: the next script in the chain does not get the brief.
ChainedForgetting(cs, bs, qs, s, c) ==
    LET c1 == AskedBusy(Cleanup(cs[c]))
    IN  Becomes([cs EXCEPT ![c] = [c1 EXCEPT !.status = @ \ {"TOCHAIN"}]],
                bs, [qs EXCEPT ![c] = Append(@, NoBrief)], s)

\* The end of wrapUp() for a script that chains: its brief is passed on.
Chained(cs, bs, qs, s, c) ==
    LET c1 == AskedBusy(Cleanup(cs[c]))
    IN  Becomes([cs EXCEPT ![c] = [c1 EXCEPT !.status = @ \ {"TOCHAIN"}]],
                bs, [qs EXCEPT ![c] = Append(@, bs[c])], s)

WrapUp(cs0, bs, qs, s, c, reason) ==
    LET cs == [cs0 EXCEPT ![c].status = (@ \ {"MORETODO"}) \cup {reason}]
    IN  CASE reason = "MORETODO" -> Becomes(cs, bs, qs, s)
          [] reason # "MORETODO" /\ Suspended(s, c) -> Fails("heapInUse")
          [] OTHER ->
               CASE reason = "TOCHAIN" -> Chained(cs, bs, qs, s, c)
                 [] reason \in {"TIMEOUT", "HAD_ERROR", "CLOSING"} ->
                      ReplyToConsole([cs EXCEPT ![c] = Cleanup(@)], bs, qs, s, c)
                 [] OTHER ->
                      ReplyToConsole([cs EXCEPT ![c] = AskedBusy(Cleanup(@))], bs, qs, s, c)

\* Back in replyToConsole() from the handler, callbackId is cleared.
Replied(bs, f) ==
    IF f.kind = "reply" THEN [bs EXCEPT ![f.from].callbackId = NoId] ELSE bs

\* The innermost call returns, or throws what its JavaScript does not catch.
CallEnds(cs0, bs, s, threw) ==
    LET c1 == [ClearTimeout(cs0[me]) EXCEPT !.runningMain = @ /\ Top.kind # "main"]
        c  == Afterwards(c1, threw)
        cs == [Timed(cs0, me, c) EXCEPT ![me] = AskedBusy(@)]
    IN  IF IsBusy(c) THEN Becomes(cs, Replied(bs, Top), queue, Below(s))
        ELSE WrapUp(cs, Replied(bs, Top), queue, Below(s), me, Outcome(c1, threw))

-----------------------------------------------------------------------------
(* What running JavaScript does *)

Running == fault = "none"
JS == Running /\ JSRunning /\ UNCHANGED exists

Sets(cs) == Becomes(cs, brief, queue, stack)

\* prep_for_throw(), and the throw that nothing catches.
Throws(cs) == Alone /\ CallEnds([cs EXCEPT ![me] = PrepForThrow(@)], brief, stack, TRUE)

\* Mutant: a console gives its entries the ids that it does not use.
FreeIdsOfConsole == Ids \ {e.id : e \in con[me].callbacks}

\* NewControlId() gives every entry an id that no other ever had; here, that
\* nothing refers to any more.
FreeIds == Ids \ ({brief[c].callbackId : c \in Consoles}
                    \cup (UNION {{e.id : e \in con[c].callbacks} : c \in Consoles})
                    \cup (UNION {{queue[c][i].callbackId : i \in DOMAIN queue[c]} : c \in Consoles}))

NewEntry(id, type) == [id |-> id, type |-> type, persistant |-> FALSE, heap |-> me]

Return == JS /\ CallEnds(con, brief, stack, FALSE)

\* An error of the script's own, or a call refused for its arguments.
Error == JS /\ Throws(con)

MayInterrupt == Alone \/ "interruptUnderBox" \in Practices

Timeout ==
    /\ JS /\ con[me].timed /\ MayInterrupt
    /\ CallEnds([con EXCEPT ![me].status = @ \cup {"TIMEOUT"}], brief, stack, TRUE)

\* stopScript()
StopScript ==
    LET c == [con[me] EXCEPT !.status = @ \cup {"STOPPED"}]
    IN  /\ JS /\ MayInterrupt
        /\ IF c.modalCount > 0 THEN Sets([con EXCEPT ![me] = c])
           ELSE CallEnds([con EXCEPT ![me] = ClearCallbacks(c)], brief, stack, TRUE)

\* onSeconds()
OnSeconds ==
    JS /\ \E id \in FreeIds :
            Sets([con EXCEPT ![me] = AddEntry(@, NewEntry(id, "CB_TIMER"))])

\* Mutant: a chain without a brief leaves the last one to be read.
ChainScriptKeepingBrief(given) ==
    /\ JS /\ MayInterrupt
    /\ CallEnds([con EXCEPT ![me].status = @ \cup {"TOCHAIN"}],
                 [brief EXCEPT ![me].has = @ \/ given, ![me].given = given], stack, TRUE)

\* consoleChain(), with a brief or without.
ChainScript(given) ==
    /\ JS /\ MayInterrupt
    /\ CallEnds([con EXCEPT ![me].status = @ \cup {"TOCHAIN"}],
                 [brief EXCEPT ![me].has = given, ![me].given = given], stack, TRUE)

\* getBrief() gives it only once.
GetBrief ==
    JS /\ IF brief[me].has
          THEN Becomes(con, [brief EXCEPT ![me].has = FALSE], queue, stack)
          ELSE Throws(con)

\* consoleBusy()
ConsoleBusy(d) ==
    /\ JS /\ d \in exists
    /\ d = me => "asksItself" \in Practices
    /\ Sets([con EXCEPT ![d] = AskedBusy(@)])

MayQueue(d) == queue[d] # <<>> => "overlappingRuns" \in Practices

\* Mutant: the console asked is not asked whether it is busy.
OnConsoleResultAnyway(d, given) ==
    JS /\ \E id \in FreeIds :
            Becomes([con EXCEPT ![me] = AddEntry(@, NewEntry(id, "CB_CONSOLE"))], brief,
                    [queue EXCEPT ![d] = Append(@, [has |-> given, callbackId |-> id,
                                                    caller |-> me, given |-> given,
                                                    request |-> id])], stack)

\* The cached answer, which onConsoleResult() does not drop, is that it waits
\* for nothing; a reply is then refused.
Unheard(c) == c.waitingCached /\ ~c.waiting

\* onConsoleResult(), with a brief or without: the entry is made first.
OnConsoleResult(d, given) ==
    /\ JS /\ MayQueue(d)
    /\ Unheard(con[me]) => "asksUnheard" \in Practices
    /\ \E id \in FreeIds :
         LET cs == [con EXCEPT ![me] = AddEntry(@, NewEntry(id, "CB_CONSOLE"))]
             bf == [has |-> given, callbackId |-> id, caller |-> me,
                    given |-> given, request |-> id]
         IN  CASE d \notin exists -> Throws(cs)
               [] d \in exists /\ IsBusy(cs[d]) -> Throws([cs EXCEPT ![d] = AskedBusy(@)])
               [] OTHER -> Becomes([cs EXCEPT ![d] = AskedBusy(@)], brief,
                                   [queue EXCEPT ![d] = Append(@, bf)], stack)

\* onConsoleResult(id)
CancelRequest ==
    JS /\ \E e \in con[me].callbacks :
            e.type = "CB_CONSOLE" /\ Sets([con EXCEPT ![me] = RemoveEntries(@, {e})])

\* Mutant: a console is asked to run even when it is busy.
ConsoleRunAnyway(d, given) ==
    LET bf == [brief[d] EXCEPT !.has = @ \/ given, !.given = given, !.request = NoId]
    IN  /\ JS /\ MayQueue(d) /\ d \in exists
        /\ ~given /\ brief[d].has => "unreadBrief" \in Practices
        /\ Becomes(con, [brief EXCEPT ![d] = bf], [queue EXCEPT ![d] = Append(@, bf)], stack)

\* consoleRun(), with a brief or without; the errors are thrown by the console
\* that is timed, which is taken to be the one that runs.  There may be none.
ConsoleRun(d, given) ==
    LET bf == [brief[d] EXCEPT !.has = @ \/ given, !.given = given, !.request = NoId]
    IN  /\ JS /\ MayQueue(d)
        /\ CASE d \notin exists -> "runsUnknown" \in Practices /\ Fails("noConsole")
             [] d \in exists /\ con[d].ctx # NoConsole /\ BeingTimed = NoConsole ->
                  "runsUntimed" \in Practices /\ Fails("noConsole")
             [] d \in exists /\ con[d].ctx # NoConsole /\ BeingTimed # NoConsole -> Throws(con)
             [] OTHER ->
                  /\ ~given /\ brief[d].has => "unreadBrief" \in Practices
                  /\ Becomes(con, [brief EXCEPT ![d] = bf],
                             [queue EXCEPT ![d] = Append(@, bf)], stack)

MayGoModal(modal) == JS /\ modal \in Modals /\ Top.kind = "main"

\* ShowModal(), up to its nested event loop.
InModal(modal) ==
    [stack EXCEPT ![Len(stack)] = [@ EXCEPT !.modal = modal, !.box = TRUE, !.answer = "none"]]

MessageBox ==
    /\ MayGoModal("message")
    /\ Becomes([con EXCEPT ![me].dialog = Len(stack), ![me].modalCount = @ + 1], brief, queue,
               InModal("message"))

\* modalDialogue() has an entry until it is answered.
ModalDialogue ==
    /\ MayGoModal("dialogue")
    /\ \E id \in FreeIds :
         Becomes([con EXCEPT ![me].callbacks = @ \cup {NewEntry(id, "CB_DIALOGUE")},
                             ![me].modalCount = @ + 1], brief, queue, InModal("dialogue"))

\* resolveFileName() prompts for a file, and does not count as modal.
FilePrompt == MayGoModal("file") /\ Becomes(con, brief, queue, InModal("file"))

-----------------------------------------------------------------------------
(* Consoles come and go *)

\* b will answer the entry id of a.
Owes(b, a, id) ==
    \/ con[b].ctx # NoConsole /\ brief[b].callbackId = id /\ brief[b].caller = a
    \/ \E i \in DOMAIN queue[b] : queue[b][i].callbackId = id /\ queue[b][i].caller = a

AwaitsReply(a, b) ==
    \E e \in con[a].callbacks : e.type = "CB_CONSOLE" /\ Owes(b, a, e.id)

\* In a modal call that consoleClose() does not know of.
InOtherModal(d) == \E i \in DOMAIN stack :
    stack[i].con = d /\ stack[i].box /\ stack[i].modal # "message"

MayClose(d) ==
    /\ (\E a \in exists : AwaitsReply(a, d)) => "closedOwing" \in Practices
    /\ InOtherModal(d) => "closedInDialogue" \in Practices

\* deleteMe(), where it deletes: its queued calls go with it.
Deleted(cs, d) ==
    /\ exists' = exists \ {d}
    /\ Becomes([cs EXCEPT ![d] = NewConsole], [brief EXCEPT ![d] = NoBrief],
               [queue EXCEPT ![d] = <<>>], stack)

\* consoleAdd()
ConsoleAdd(d) ==
    /\ Running /\ JSRunning /\ d \notin exists
    /\ exists' = exists \cup {d}
    /\ UNCHANGED <<con, brief, queue, stack, fault>>

\* consoleClose(), of another console that exists: its box is closed, or its
\* callbacks are cleared, before it is found to be busy.
ConsoleClose(d) ==
    LET boxed == con[d].dialog # 0
        cs    == IF boxed THEN con ELSE [con EXCEPT ![d] = ClearCallbacks(@)]
        s     == IF boxed THEN [stack EXCEPT ![con[d].dialog].answer = "closed"] ELSE stack
    IN  /\ Running /\ JSRunning /\ d \in exists \ {me} /\ MayClose(d)
        /\ CASE IsBusy(cs[d]) ->
                  /\ UNCHANGED exists /\ Alone
                  /\ CallEnds([cs EXCEPT ![d] = AskedBusy(@), ![me] = PrepForThrow(@)],
                              brief, s, TRUE)
             [] ~IsBusy(cs[d]) /\ Suspended(stack, d) -> UNCHANGED exists /\ Fails("consoleInUse")
             [] OTHER -> Deleted(cs, d)

\* Mutant: the close box closes the last console too.
CloseBoxAnyway(d) ==
    /\ Running /\ stack = <<>> /\ d \in exists /\ MayClose(d)
    /\ ~IsBusy(con[d]) /\ Deleted(con, d)

\* The close box: refuses the only console, and a busy one.
CloseBox(d) ==
    /\ Running /\ stack = <<>> /\ d \in exists /\ Cardinality(exists) > 1 /\ MayClose(d)
    /\ IF IsBusy(con[d]) THEN Sets([con EXCEPT ![d] = AskedBusy(@)]) /\ UNCHANGED exists
                         ELSE Deleted(con, d)

-----------------------------------------------------------------------------
(* What the event loop dispatches *)

Event == Running /\ InEventLoop /\ UNCHANGED exists

RunScript(c, bs, qs) ==
    Becomes(Timed(con, c, BeforeMain(con[c], c)), bs, qs, Append(stack, NewFrame(c, "main")))

StopRun(c, bs, qs) == WrapUp([con EXCEPT ![c].status = {}], bs, qs, stack, c, "STOPPED")

\* The Run button clears the brief, even where it reads Stop; whom to answer is
\* not forgotten.
RunClicked(c) ==
    LET cleared == [brief[c] EXCEPT !.has = FALSE]
        own     == [cleared EXCEPT !.given = FALSE, !.request = NoId]
    IN  /\ Event /\ stack = <<>> /\ c \in exists
        /\ IF con[c].label = "Run"
           THEN MayQueue(c) /\ RunScript(c, [brief EXCEPT ![c] = own], queue)
           ELSE StopRun(c, [brief EXCEPT ![c] = cleared], queue)

\* doRunCommand() takes the first brief queued.
RunQueued(c) ==
    LET qs == [queue EXCEPT ![c] = Tail(@)]
    IN  /\ Event /\ queue[c] # <<>>
        /\ IF con[c].label = "Run"
           THEN Len(stack) < MaxDepth /\ RunScript(c, [brief EXCEPT ![c] = Head(queue[c])], qs)
           ELSE StopRun(c, brief, qs)

\* HandleTimer()
TimerFires(c) ==
    /\ Event /\ Len(stack) < MaxDepth
    /\ \E e \in con[c].callbacks :
         /\ e.type = "CB_TIMER"
         /\ Becomes(Timed(con, c, BeforeCall(TakeEntry(con[c], e))), brief, queue,
                    Append(stack, NewFrame(c, "callback")))

\* A button of the message box, or of the prompt, that the innermost call is in.
MessageButton(answer) ==
    /\ Event /\ stack # <<>> /\ Top.modal \in {"message", "file"} /\ Top.answer = "none"
    /\ Becomes(con, brief, queue, [stack EXCEPT ![Len(stack)].answer = answer])

\* onButton() of the modal dialogue that the innermost call is in.
DialogueButton ==
    LET entries == {e \in con[me].callbacks : e.type = "CB_DIALOGUE"}
    IN  /\ Event /\ stack # <<>> /\ Top.modal = "dialogue" /\ Top.answer = "none"
        /\ IF entries = {} THEN Fails("noEntry")
           ELSE Becomes([con EXCEPT ![me] = RemoveEntries(@, entries)], brief, queue,
                        [stack EXCEPT ![Len(stack)].answer = "ok"])

\* Mutant: the script is not given more time.
BoxReturnsUntimed ==
    /\ Event /\ stack # <<>> /\ Top.answer = "ok" /\ Top.modal = "message"
    /\ Becomes([con EXCEPT ![me] = [@ EXCEPT !.modalCount = @ - 1, !.dialog = 0]],
               brief, queue, [stack EXCEPT ![Len(stack)].box = FALSE, ![Len(stack)].answer = "none",
                                           ![Len(stack)].modal = "no"])

\* ShowModal() returns with what the box was answered; only messageBox() gives
\* the script more time.
BoxReturns ==
    LET c == IF Top.modal = "file" THEN con[me] ELSE [con[me] EXCEPT !.modalCount = @ - 1]
        left == IF Top.modal = "message" THEN "no" ELSE Top.modal
        s == [stack EXCEPT ![Len(stack)] =
                 [@ EXCEPT !.box = FALSE, !.answer = "none", !.modal = left]]
        closing == IF Top.answer = "closed" THEN {"CLOSING"} ELSE {}
    IN  /\ Event /\ stack # <<>> /\ Top.answer # "none"
        /\ CASE Top.answer = "ok" /\ Top.modal = "message" ->
                  Becomes(Timed(con, me, StartTimeout([c EXCEPT !.dialog = 0])), brief, queue, s)
             [] Top.answer = "ok" /\ Top.modal # "message" ->
                  Becomes([con EXCEPT ![me] = c], brief, queue, s)
             [] OTHER ->
                  CallEnds([con EXCEPT ![me] = PrepForThrow([c EXCEPT !.status = @ \cup closing])],
                           brief, s, TRUE)

-----------------------------------------------------------------------------
Init ==
    /\ exists = Consoles
    /\ con = [c \in Consoles |-> NewConsole]
    /\ brief = [c \in Consoles |-> NoBrief]
    /\ queue = [c \in Consoles |-> <<>>]
    /\ stack = <<>> /\ fault = "none"

Next ==
    \/ Return \/ Error \/ Timeout \/ StopScript \/ OnSeconds \/ GetBrief
    \/ CancelRequest \/ MessageBox \/ ModalDialogue \/ FilePrompt
    \/ \E given \in Giving : ChainScript(given)
    \/ \E d \in Consoles, given \in Giving : OnConsoleResult(d, given) \/ ConsoleRun(d, given)
    \/ \E d \in Consoles : ConsoleBusy(d) \/ ConsoleAdd(d) \/ ConsoleClose(d) \/ CloseBox(d)
    \/ \E c \in Consoles : RunClicked(c) \/ RunQueued(c) \/ TimerFires(c)
    \/ MessageButton("ok") \/ MessageButton("cancel") \/ DialogueButton \/ BoxReturns

Spec == Init /\ [][Next]_vars

-----------------------------------------------------------------------------
(***************************************************************************)
(* Properties                                                              *)
(***************************************************************************)

\* Every variable has its type; the last console is never deleted.
TypeOK ==
    /\ exists \in (SUBSET Consoles) \ {{}}
    /\ con \in [Consoles -> Console]
    /\ brief \in [Consoles -> Brief]
    /\ queue \in [Consoles -> Seq(Brief)]
    /\ stack \in Seq(Frame)
    /\ fault \in {"none", "heapInUse", "noConsole", "noEntry", "consoleInUse"}

\* No heap or console is destroyed under a call that runs on it, be it by a
\* reply that ends the script of the caller, no missing console is dereferenced,
\* and the button of a modal dialogue finds its entry.
NoUndefinedBehaviour == fault = "none"

\* A script that awaits a result awaits it of one console, which is running or
\* queued to run, across all the chains, stops, closes and failures there are.
AwaitedReplyIsOwed ==
    \A a \in exists : \A e \in con[a].callbacks :
        e.type = "CB_CONSOLE" => Cardinality({b \in Consoles : Owes(b, a, e.id)}) = 1

\* What a handler is called with is the result of the run that was asked for
\* when that handler was given, not of another run of the same script.
ReplyIsForRequest ==
    \A i \in DOMAIN stack :
        stack[i].kind = "reply" => stack[i].request = stack[i].entry

\* Scripts never wait for each other in a circle: refusing busy consoles is the
\* only thing that prevents it.
NoCircularWait ==
    \A S \in (SUBSET exists) \ {{}} : \E a \in S : \A b \in S : ~AwaitsReply(a, b)

\* getBrief() says "get any brief left for this script": a brief that a script
\* can read was given with the request to run it.
BriefIsForThisRun == \A c \in exists : con[c].ctx # NoConsole /\ brief[c].has => brief[c].given

\* There is one pConsoleBeingTimed ("only one at a time?"), reset by every
\* call that ends, whoever's: what consoleRun() throws is thrown in the console
\* that runs and never in another, and a script runs without its time only
\* where its last modal call was not messageBox(), which gives it back.
TimedIsRunning ==
    JSRunning => \/ BeingTimed = me
                 \/ BeingTimed = NoConsole /\ Top.modal \in {"dialogue", "file"}
=============================================================================
