------------------------------ MODULE Dispatch ------------------------------
(***************************************************************************)
(* How what happens in the chart plotter reaches the scripts.  Some kinds  *)
(* of event are found customers by walking all consoles and the callback   *)
(* entries of each (SetNMEASentence, SetAISSentence, MouseEventHook); a    *)
(* status bit per kind, in m_SetActive, spares the walk when nobody        *)
(* subscribes.  Others have a listener per entry, which posts an event     *)
(* with the id of the entry to the console.  Either way the handler runs   *)
(* at once, and may subscribe, cancel, open a message box, add and close   *)
(* consoles, while the walk that called it is on the stack below it.       *)
(*                                                                         *)
(* A console is reduced to its mCallbacks: that isWaiting() is right about *)
(* them is CacheIsRight of ConsoleSafety.                                  *)
(***************************************************************************)
EXTENDS Integers, Sequences, FiniteSets, SequencesExt

CONSTANTS
    Names,        \* the consoles there may be
    Kinds,        \* the kinds of event scripts subscribe to
    Ids,          \* ids of callback entries
    Practices,    \* the hazardous things handlers may do, see PracticeNames
    MaxEntries,   \* bound: callback entries of a console
    MaxQueue,     \* bound: observed events posted and not yet handled
    MaxDepth      \* bound: calls on the stack

\* CB_N0183 entries without an identifier are walked, those with are listened
\* for.  A timer is a listener whose events are not queued.
Walked   == {"N0183", "AIS", "Mouse"}
Listened == {"N0183ident", "N2K", "Navigation", "Message"}

\* What the code does not stop handlers from doing while a walk is below:
\*   resubscribe     subscribe again to the kind that is being walked
\*   cancelEarlier   cancel an entry that the walk has passed, its own included
\*   modal           open a message box, where other events are dispatched
\*   manageConsoles  add or close a console
PracticeNames == {"resubscribe", "cancelEarlier", "modal", "manageConsoles"}

ASSUME KindsAssumption == Kinds \subseteq Walked \cup Listened \cup {"Timer"}
ASSUME DispatchPracticesAssumption == Practices \subseteq PracticeNames
ASSUME DispatchBoundsAssumption ==
    MaxEntries \in Nat /\ MaxQueue \in Nat /\ MaxDepth \in Nat

VARIABLES
    consoles,    \* m_consoles: a vector, in the order of creation
    entries,     \* mCallbacks of each console, a vector
    setActive,   \* m_SetActive
    stack,       \* the walks and JavaScript calls in progress, innermost last
    queue,       \* observed events posted to consoles
    fault        \* the undefined behaviour met, "none" as long as there is none

vars == <<consoles, entries, setActive, stack, queue, fault>>

Faults == {"none",
           "noEntry",            \* a callback entry that is gone dereferenced
           "consolesChanged"}    \* m_consoles changed under a range-for over it

\* wanted: not a mouse subscription whose mask excludes the event of a walk.
Entry == [id : Ids, kind : Kinds, persistant : BOOLEAN, wanted : BOOLEAN]

JSFrame == [what : {"js"}, con : Names, box : BOOLEAN]

\* at and from: the console and the entry the walk goes on with.  due and
\* done are history: the entries that were there for this event when it came
\* and have not been called yet, and those called that persist.
WalkFrame == [what : {"walk"}, kind : Walked, at : Nat \ {0}, from : Nat \ {0},
              due : SUBSET Ids, done : SUBSET Ids]

TypeOK ==
    /\ consoles \in Seq(Names)
    /\ entries \in [Names -> Seq(Entry)]
    /\ setActive \in [Walked -> BOOLEAN]
    /\ stack \in Seq(JSFrame \cup WalkFrame)
    /\ queue \in Seq([con : Names, id : Ids, kind : Listened])
    /\ fault \in Faults

Top      == stack[Len(stack)]
Below(s) == SubSeq(s, 1, Len(s) - 1)

JSRunning   == stack # <<>> /\ Top.what = "js" /\ ~Top.box
Walking     == stack # <<>> /\ Top.what = "walk"
InEventLoop == ~JSRunning /\ ~Walking

OnStack(s, c) == \E m \in DOMAIN s : s[m].what = "js" /\ s[m].con = c
WalkFrames    == {m \in DOMAIN stack : stack[m].what = "walk"}

Init ==
    /\ \E c \in Names : consoles = <<c>>
    /\ entries = [c \in Names |-> <<>>]
    /\ setActive = [k \in Walked |-> FALSE]
    /\ stack = <<>>
    /\ queue = <<>>
    /\ fault = "none"

Running == fault = "none"

Call(s, c) == Append(s, [what |-> "js", con |-> c, box |-> FALSE])

-----------------------------------------------------------------------------
(* Walking the consoles *)

\* Mutants: the index is decremented for an entry that stays; not decremented
\* for one that is erased; or decremented twice.
AfterCallUnmoved(e, j) == j
AfterCallUndecremented(e, j) == j + 1
AfterCallTwiceDecremented(e, j) == IF e.persistant THEN j + 1 ELSE j - 1

\* Where the walk goes on after calling the entry at j: when that one has
\* been erased, the next has moved into its place.
AfterCall(e, j) == IF e.persistant THEN j + 1 ELSE j

\* Entry j of the console at p is still before the walk.
IsAhead(f, p, j) == f.at < p \/ (f.at = p /\ f.from <= j)

Subscribes(e, k) == e.kind = k
Wanted(e, k)     == e.kind = k /\ e.wanted

\* The event arrives: nothing to do unless the bit is on.
StartWalk(k) ==
    /\ InEventLoop
    /\ setActive[k]
    /\ Len(stack) + 2 <= MaxDepth
    /\ setActive' = [setActive EXCEPT ![k] = FALSE]
    /\ stack' = Append(stack,
                  [what |-> "walk", kind |-> k, at |-> 1, from |-> 1, done |-> {},
                   due |-> {i \in Ids : \E c \in Names : \E j \in DOMAIN entries[c] :
                               entries[c][j].id = i /\ Wanted(entries[c][j], k)}])
    /\ UNCHANGED <<consoles, entries, queue, fault>>

\* Entry j of the console at p is the first ahead that wants the event.
IsNext(f, p, j) ==
    /\ IsAhead(f, p, j)
    /\ Wanted(entries[consoles[p]][j], f.kind)
    /\ \A q \in DOMAIN consoles : \A i \in DOMAIN entries[consoles[q]] :
          IsAhead(f, q, i) /\ Wanted(entries[consoles[q]][i], f.kind)
             => p < q \/ (p = q /\ j <= i)

\* The bit goes on, a one-shot entry goes, and then the handler is called.
CallNext ==
    /\ Walking
    /\ \E p \in DOMAIN consoles : \E j \in DOMAIN entries[consoles[p]] :
          LET c == consoles[p]
              e == entries[c][j]
          IN  /\ IsNext(Top, p, j)
              /\ setActive' = [setActive EXCEPT ![Top.kind] = TRUE]
              /\ entries' = IF e.persistant THEN entries
                            ELSE [entries EXCEPT ![c] = RemoveAt(@, j)]
              /\ stack' = Call(Append(Below(stack),
                    [Top EXCEPT !.at = p, !.from = AfterCall(e, j),
                                !.due = @ \ {e.id},
                                !.done = IF e.persistant THEN @ \cup {e.id} ELSE @]), c)
    /\ UNCHANGED <<consoles, queue, fault>>

\* No more customers.  Mouse subscriptions to other events were seen.
EndWalk ==
    /\ Walking
    /\ \A p \in DOMAIN consoles : \A j \in DOMAIN entries[consoles[p]] :
          IsAhead(Top, p, j) => ~Wanted(entries[consoles[p]][j], Top.kind)
    /\ setActive' = [setActive EXCEPT ![Top.kind] = @ \/
          \E p \in DOMAIN consoles : \E j \in DOMAIN entries[consoles[p]] :
             IsAhead(Top, p, j) /\ entries[consoles[p]][j].kind = Top.kind]
    /\ stack' = Below(stack)
    /\ UNCHANGED <<consoles, entries, queue, fault>>

-----------------------------------------------------------------------------
(* Events that are not walked *)

\* HandleTimer()
TimerFires(c, j) ==
    LET e == entries[c][j]
    IN  /\ InEventLoop /\ Len(stack) < MaxDepth
        /\ e.kind = "Timer"
        /\ entries' = IF e.persistant THEN entries
                      ELSE [entries EXCEPT ![c] = RemoveAt(@, j)]
        /\ stack' = Call(stack, c)
        /\ UNCHANGED <<consoles, setActive, queue, fault>>

\* OpenCPN notifies the listener of an entry, which queues an event.
Post(c, j) ==
    /\ ~Walking /\ Len(queue) < MaxQueue
    /\ entries[c][j].kind \in Listened
    /\ queue' = Append(queue, [con |-> c, id |-> entries[c][j].id,
                               kind |-> entries[c][j].kind])
    /\ UNCHANGED <<consoles, entries, setActive, stack, fault>>

Waiting(c) == entries[c] # <<>> \/ OnStack(stack, c)

\* Mutant: no handler looks whether it found its entry.
AllUnguarded == Listened

\* The handlers that read the entry they look up without asking whether there
\* is one: HandleNMEA0183() and HandleNMEA2k().
Unguarded == {"N0183ident", "N2K"}

\* HandleNMEA0183(), HandleNMEA2k(), HandleNavdata(), HandleMessage(): the
\* event may come after its entry has gone.
Observed ==
    /\ InEventLoop /\ Len(stack) < MaxDepth
    /\ queue # <<>>
    /\ queue' = Tail(queue)
    /\ LET ev == Head(queue)
           c == ev.con
           found == {j \in DOMAIN entries[c] : entries[c][j].id = ev.id}
       IN  IF found = {}
           THEN /\ fault' = IF Waiting(c) /\ ev.kind \in Unguarded
                            THEN "noEntry" ELSE "none"
                /\ UNCHANGED <<entries, stack>>
           ELSE /\ \E j \in found :
                      entries' = IF entries[c][j].persistant THEN entries
                                 ELSE [entries EXCEPT ![c] = RemoveAt(@, j)]
                /\ stack' = Call(stack, c)
                /\ UNCHANGED fault
    /\ UNCHANGED <<consoles, setActive>>

\* A click on Run, where there is nothing running or awaited.
StartMain(c) ==
    /\ InEventLoop /\ Len(stack) < MaxDepth
    /\ ~Waiting(c)
    /\ stack' = Call(stack, c)
    /\ UNCHANGED <<consoles, entries, setActive, queue, fault>>

-----------------------------------------------------------------------------
(* What scripts do *)

\* newCallbackEntry() gives a new id: one that nothing refers to any more.
IdsInUse ==
    {i \in Ids : \/ \E c \in Names : \E j \in DOMAIN entries[c] : entries[c][j].id = i
                 \/ \E m \in DOMAIN queue : queue[m].id = i
                 \/ \E m \in WalkFrames : i \in stack[m].due \cup stack[m].done}

\* newCallbackEntry(), for the console whose script is running
NewEntry(k, persistant, wanted) ==
    /\ JSRunning /\ Len(entries[Top.con]) < MaxEntries
    /\ IdsInUse # Ids
    /\ \A m \in WalkFrames : stack[m].kind = k => "resubscribe" \in Practices
    /\ entries' = [entries EXCEPT ![Top.con] = Append(@,
          [id |-> CHOOSE i \in Ids : i \notin IdsInUse, kind |-> k,
           persistant |-> persistant, wanted |-> wanted])]
    /\ UNCHANGED <<consoles, stack, queue, fault>>

\* Mutant: subscribing leaves the bit to the next walk.
SubscribeSilently(k, persistant, wanted) ==
    /\ wanted \/ k = "Mouse"
    /\ NewEntry(k, persistant, wanted)
    /\ UNCHANGED setActive

\* onN0183Guts(), onAISGuts(), onMouseEventGuts() and the like with a handler
Subscribe(k, persistant, wanted) ==
    /\ wanted \/ k = "Mouse"
    /\ NewEntry(k, persistant, wanted)
    /\ setActive' = IF k \in Walked THEN [setActive EXCEPT ![k] = TRUE] ELSE setActive

\* cancelCallbackPerCtx() with an id; without one it does so for each entry of
\* the type in turn.
Cancel(j) ==
    /\ JSRunning /\ j \in DOMAIN entries[Top.con]
    /\ \A m \in WalkFrames :
          consoles[stack[m].at] = Top.con /\ j < stack[m].from
             => "cancelEarlier" \in Practices
    /\ entries' = [entries EXCEPT ![Top.con] = RemoveAt(@, j)]
    /\ UNCHANGED <<consoles, setActive, stack, queue, fault>>

\* messageBox(), one of a console at a time
OpenBox ==
    /\ JSRunning /\ ~OnStack(Below(stack), Top.con)
    /\ WalkFrames # {} => "modal" \in Practices
    /\ stack' = Append(Below(stack), [Top EXCEPT !.box = TRUE])
    /\ UNCHANGED <<consoles, entries, setActive, queue, fault>>

CloseBox ==
    /\ InEventLoop /\ stack # <<>>
    /\ stack' = Append(Below(stack), [Top EXCEPT !.box = FALSE])
    /\ UNCHANGED <<consoles, entries, setActive, queue, fault>>

\* Back from JavaScript.  wrapUp() of a console that is not busy finds nothing
\* to clear.
Return ==
    /\ JSRunning
    /\ stack' = Below(stack)
    /\ UNCHANGED <<consoles, entries, setActive, queue, fault>>

\* The script throws, times out or stops, and is wrapped up.  That a callback
\* must not do this under a box of the same console is module Console's.
Fail ==
    /\ JSRunning /\ ~OnStack(Below(stack), Top.con)
    /\ entries' = [entries EXCEPT ![Top.con] = <<>>]
    /\ stack' = Below(stack)
    /\ UNCHANGED <<consoles, setActive, queue, fault>>

-----------------------------------------------------------------------------
(* Consoles come and go, by consoleAdd() and consoleClose() or by hand *)

\* A range-for over m_consoles is in progress under each walk.
ConsolesChange ==
    /\ ~Walking
    /\ WalkFrames # {} => "manageConsoles" \in Practices
    /\ fault' = IF WalkFrames # {} THEN "consolesChanged" ELSE "none"
    /\ UNCHANGED <<setActive, stack, queue>>

AddConsole(c) ==
    /\ ConsolesChange
    /\ c \notin Range(consoles)
    /\ \A m \in DOMAIN queue : queue[m].con # c    \* a window of its own
    /\ consoles' = Append(consoles, c)
    /\ UNCHANGED entries

\* deleteMe()
CloseConsole(p) ==
    /\ ConsolesChange
    /\ Len(consoles) >= 2
    /\ ~OnStack(stack, consoles[p])
    /\ consoles' = RemoveAt(consoles, p)
    /\ entries' = [entries EXCEPT ![consoles[p]] = <<>>]

-----------------------------------------------------------------------------
Next ==
    /\ Running
    /\ \/ \E k \in Walked \cap Kinds : StartWalk(k)
       \/ CallNext
       \/ EndWalk
       \/ \E c \in Names : \E j \in DOMAIN entries[c] : TimerFires(c, j) \/ Post(c, j)
       \/ Observed
       \/ \E p \in DOMAIN consoles : StartMain(consoles[p]) \/ CloseConsole(p)
       \/ \E k \in Kinds, persistant, wanted \in BOOLEAN : Subscribe(k, persistant, wanted)
       \/ \E j \in 1 .. MaxEntries : Cancel(j)
       \/ OpenBox
       \/ CloseBox
       \/ Return
       \/ Fail
       \/ \E c \in Names : AddConsole(c)

Spec == Init /\ [][Next]_vars

\* A walk is a loop in C++; a handler runs until it returns, which the limit
\* on its time sees to.  Nothing is assumed of what else happens.
FairSpec ==
    Spec /\ WF_vars(Running /\ (CallNext \/ EndWalk)) /\ WF_vars(Running /\ Return)

-----------------------------------------------------------------------------
(* Properties *)

\* The walk has cleared the bit and not called anybody yet.
JustStarted(k) ==
    Walking /\ Top.kind = k /\ Top.at = 1 /\ Top.from = 1

\* The status bit is never off while somebody subscribes, or the subscriber
\* would not be called again: the only exception is a walk between clearing
\* the bit (JavaScript_pi.cpp:519) and its first call.  It holds whatever
\* handlers do, nested walks in message boxes included.
FilterCoversSubscribers ==
    \A k \in Walked :
       setActive[k] \/ JustStarted(k)
         \/ \A c \in Names : \A j \in DOMAIN entries[c] : entries[c][j].kind # k

\* No handler is looked up in vain and then read, and m_consoles is left alone
\* under the loops over it.
NoUndefinedBehaviour == fault = "none"

Undisturbed == Practices \cap {"cancelEarlier", "modal", "manageConsoles"} = {}

\* As long as handlers leave alone what the walk has passed, no subscriber
\* that was there when the event came is passed without being called, whatever
\* the one-shot entries that are erased and the entries that handlers add and
\* cancel: "so we do not miss next in shuffle" (JavaScript_pi.cpp:541).
NoneIsMissed ==
    Undisturbed =>
      \A m \in WalkFrames : \A p \in DOMAIN consoles : \A j \in DOMAIN entries[consoles[p]] :
         entries[consoles[p]][j].id \in stack[m].due => IsAhead(stack[m], p, j)

\* Nor is a subscriber that persists called twice for one event.
NoneIsCalledTwice ==
    Undisturbed =>
      \A m \in WalkFrames : \A p \in DOMAIN consoles : \A j \in DOMAIN entries[consoles[p]] :
         entries[consoles[p]][j].id \in stack[m].done => ~IsAhead(stack[m], p, j)

\* Every walk comes to its end, or the chart plotter would hang: no handler
\* can keep the event that it is called for going round.
WalksEnd == (WalkFrames # {}) ~> (WalkFrames = {})
=============================================================================
