----------------------------- MODULE ConsolesInv -----------------------------
(***************************************************************************)
(* The inductive invariant of Consoles for scripts that follow none of the *)
(* hazardous practices.  Its parts are predicates of the consoles, briefs, *)
(* queues and stack that they are about, so that they can be stated of     *)
(* what a step has arrived at as well as of a state.                       *)
(***************************************************************************)
EXTENDS Consoles

-----------------------------------------------------------------------------
(* The stack and the consoles *)

\* Only main is suspended, in a modal call; it is marked as long as it is in a box.
BoxesBelow(s) ==
    /\ \A i \in DOMAIN s : s[i].box => s[i].kind = "main"
    /\ \A i \in DOMAIN s : s[i].box => s[i].modal # "no"
    /\ \A i \in DOMAIN s : s[i].modal = "message" => s[i].box
    /\ \A i \in DOMAIN s : i # Len(s) => s[i].box

HasFrame(s, d) == \E i \in DOMAIN s : s[i].con = d
HasMain(s, d)  == \E i \in DOMAIN s : s[i].con = d /\ s[i].kind = "main"
HasBox(s, d)   == \E i \in DOMAIN s : s[i].con = d /\ s[i].box /\ s[i].modal = "message"
HasCounted(s, d) ==
    \E i \in DOMAIN s : s[i].con = d /\ s[i].box /\ s[i].modal \in {"message", "dialogue"}

\* A console has one main at most, and records where its message box is.
MainIsOne(s) ==
    \A i, j \in DOMAIN s :
        s[i].kind = "main" /\ s[j].kind = "main" /\ s[i].con = s[j].con => i = j

BoxIsRecorded(c, s, d) ==
    IF c.dialog = 0 THEN ~HasBox(s, d)
    ELSE c.dialog \in DOMAIN s /\ s[c.dialog].con = d /\ s[c.dialog].box
         /\ s[c.dialog].modal = "message"

\* The entry that the button of a modal dialogue will look up is there.
DialogueHasEntry(c, s, d) ==
    \A i \in DOMAIN s :
        s[i].con = d /\ s[i].box /\ s[i].modal = "dialogue" /\ s[i].answer = "none"
            => \E e \in c.callbacks : e.type = "CB_DIALOGUE"

\* Without a heap a console is as a new one, its status and cache excepted.
DeadIsClear(c) ==
    c.ctx = NoConsole =>
        c.callbacks = {} /\ c.dialog = 0 /\ c.label = "Run"

\* Its main runs, and it awaits no reply.
Unasking(c) == c.runningMain /\ \A e \in c.callbacks : e.type # "CB_CONSOLE"

\* Asking a live console never finds it idle, where its script does not run;
\* a callback under a modal main may leave a cached answer that it waits for
\* nothing, but not to one that awaits a reply.
LiveIsBusy(c, s, d) ==
    c.ctx # NoConsole =>
        /\ c.label = "Stop" /\ c.status \cap Interrupts = {}
        /\ Unheard(c) => Unasking(c)
        /\ ~HasFrame(s, d) => c.callbacks # {}

Sound(c, s, d) ==
    /\ c.ctx \in {NoConsole, d} /\ ~c.alert
    /\ DeadIsClear(c) /\ LiveIsBusy(c, s, d)
    /\ BoxIsRecorded(c, s, d) /\ DialogueHasEntry(c, s, d)
    /\ c.runningMain <=> HasMain(s, d)
    /\ c.modalCount = IF HasCounted(s, d) THEN 1 ELSE 0
    /\ HasFrame(s, d) => c.ctx # NoConsole

\* The time allowed is that of the innermost call, if any: it is there while its
\* JavaScript runs, unless that came back from a modal dialogue or a prompt.
OnlyTimed(cs, s) ==
    /\ \A d \in Consoles : cs[d].timed => s # <<>> /\ d = s[Len(s)].con
    /\ s # <<>> /\ s[Len(s)].modal = "no" => cs[s[Len(s)].con].timed

ConsolesSound(ex, cs, qs, s) ==
    /\ BoxesBelow(s) /\ MainIsOne(s) /\ OnlyTimed(cs, s)
    /\ \A d \in Consoles : Sound(cs[d], s, d)
    /\ \A d \in Consoles : cs[d].ctx # NoConsole => d \in ex /\ qs[d] = <<>>
    /\ \A d \in Consoles : qs[d] # <<>> => d \in ex /\ Len(qs[d]) = 1

-----------------------------------------------------------------------------
(***************************************************************************)
(* Requests.  Of the consoles only what they await, aw, and which have a   *)
(* heap, lv, matters.                                                      *)
(***************************************************************************)

Awaited(cs) == [d \in Consoles |-> cs[d].callbacks]
Lives(cs)   == [d \in Consoles |-> cs[d].ctx # NoConsole]

BriefsOf(bs, qs, b) == {bs[b]} \cup {qs[b][i] : i \in DOMAIN qs[b]}

OwesIn(lv, bs, qs, b, a, id) ==
    \/ lv[b] /\ bs[b].callbackId = id /\ bs[b].caller = a
    \/ \E i \in DOMAIN qs[b] : qs[b][i].callbackId = id /\ qs[b][i].caller = a

AwaitsIn(aw, lv, bs, qs, a, b) ==
    \E e \in aw[a] : e.type = "CB_CONSOLE" /\ OwesIn(lv, bs, qs, b, a, e.id)

\* An id tells an entry, and the console that was asked for it.
IdsAreUnique(aw) ==
    \A a1, a2 \in Consoles : \A e1 \in aw[a1], e2 \in aw[a2] :
        e1.id = e2.id => a1 = a2 /\ e1 = e2

OneIsAsked(bs, qs) ==
    \A b1, b2 \in Consoles : \A f1 \in BriefsOf(bs, qs, b1), f2 \in BriefsOf(bs, qs, b2) :
        f1.callbackId = f2.callbackId /\ f1.callbackId # NoId => b1 = b2

\* Every brief still about with the id of an entry is the request made with
\* that entry, and will be answered.
BriefsAreOwed(aw, lv, bs, qs) ==
    \A b \in Consoles : \A f \in BriefsOf(bs, qs, b) :
        \A a \in Consoles : \A e \in aw[a] :
            f.callbackId = e.id =>
                /\ e.type = "CB_CONSOLE" /\ f.caller = a /\ f.request = e.id
                /\ OwesIn(lv, bs, qs, b, a, e.id)

SomebodyOwes(aw, lv, bs, qs) ==
    \A a \in Consoles : \A e \in aw[a] :
        e.type = "CB_CONSOLE" => \E b \in Consoles : OwesIn(lv, bs, qs, b, a, e.id)

\* NoCircularWait, with the consoles that do not exist, which await nothing.
NoCircle(aw, lv, bs, qs) ==
    \A S \in (SUBSET Consoles) \ {{}} : \E a \in S : \A b \in S : ~AwaitsIn(aw, lv, bs, qs, a, b)

Requests(aw, lv, bs, qs) ==
    /\ IdsAreUnique(aw) /\ OneIsAsked(bs, qs)
    /\ BriefsAreOwed(aw, lv, bs, qs) /\ SomebodyOwes(aw, lv, bs, qs)
    /\ NoCircle(aw, lv, bs, qs)

\* The handler being called is that of the request, whose entry has gone.
RepliesMatch(aw, bs, s) ==
    \A i \in DOMAIN s : s[i].kind = "reply" =>
        /\ s[i].request = s[i].entry /\ s[i].from \in Consoles
        /\ \A a \in Consoles : \A e \in aw[a] : e.id # bs[s[i].from].callbackId

\* What a script can read was given with the request to run it.
BriefsAreGiven(bs, qs) ==
    \A b \in Consoles : \A f \in BriefsOf(bs, qs, b) : f.has => f.given

-----------------------------------------------------------------------------
Good(ex, cs, bs, qs, s) ==
    /\ ConsolesSound(ex, cs, qs, s)
    /\ Requests(Awaited(cs), Lives(cs), bs, qs)
    /\ RepliesMatch(Awaited(cs), bs, s)
    /\ BriefsAreGiven(bs, qs)

\* Scripts that follow none of the practices keep the consoles sound, owe each
\* other at most one reply for a request, and never wait in a circle.
IInv == fault = "none" /\ exists # {} /\ Good(exists, con, brief, queue, stack)
=============================================================================
