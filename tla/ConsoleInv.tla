----------------------------- MODULE ConsoleInv -----------------------------
(***************************************************************************)
(* The inductive invariant of Console for scripts that follow none of the  *)
(* hazardous practices.                                                    *)
(***************************************************************************)
EXTENDS Console

InExitCall(s) == s # <<>> /\ s[1].kind = "exit"
InModalMain(s) == s # <<>> /\ s[1].modal # "no"
InCountedMain(s) == s # <<>> /\ s[1].modal \in {"message", "dialogue"}

\* Only main opens modal dialogues, and only callbacks are called under one.
Shape(s) ==
    /\ Len(s) <= 2
    /\ Len(s) >= 1 => (s[1].modal # "no" => s[1].kind = "main")
    /\ Len(s) = 2 => s[1].modal # "no" /\ s[2].kind = "callback" /\ s[2].modal = "no"

HeapsInUse(c, s) == \A i \in DOMAIN s : s[i].heap = c.ctx

HandlersOnHeap(c) ==
    /\ \A e \in c.callbacks : e.heap = c.ctx
    /\ c.ctx # NoHeap => c.exitHandler \in {NoHeap, c.ctx}

\* Without a heap the console is as a new one.
DeadIsClear(c, s) ==
    c.ctx = NoHeap =>
        s = <<>> /\ c.callbacks = {} /\ ~c.alert /\ c.dialog = 0 /\ c.label = "Run"

\* The button reads Run from where the exit handler of a script that stopped
\* itself is run, although there is a heap.
LiveShowsStop(c, s) == c.ctx # NoHeap /\ ~InExitCall(s) => c.label = "Stop"

MainIsRunning(c, s) == c.runningMain <=> (s # <<>> /\ s[1].kind = "main")

\* A cancelled box stays recorded while the exit handler runs.
BoxIsRecorded(c, s) ==
    /\ c.dialog \in {0, 1}
    /\ ~InExitCall(s) => (c.dialog = 1 <=> (s # <<>> /\ s[1].modal = "message"))

ModalsCounted(c, s) == c.modalCount = IF InCountedMain(s) THEN 1 ELSE 0

\* Between events a live script waits, and the cache says so.
IdleWaits(c, s) ==
    s = <<>> => /\ c.ctx # NoHeap => SomethingAwaited(c)
                /\ c.waitingCached => (c.waiting <=> SomethingAwaited(c))

NoErrorYet(c) == c.ctx # NoHeap => "HAD_ERROR" \notin c.status

RequestsWait(c) == c.pending <= 1 /\ (c.pending > 0 => c.ctx = NoHeap)

\* The entry that the button of a modal dialogue will look up is there.
ModalHasEntry(c, s) ==
    s # <<>> /\ s[1].modal = "dialogue" /\ s[1].answer = "none"
        => \E e \in c.callbacks : e.id = s[1].entry /\ e.type = "CB_DIALOGUE"

Good(c, s) ==
    /\ Shape(s) /\ HeapsInUse(c, s) /\ HandlersOnHeap(c)
    /\ DeadIsClear(c, s) /\ LiveShowsStop(c, s)
    /\ MainIsRunning(c, s) /\ BoxIsRecorded(c, s) /\ ModalsCounted(c, s)
    /\ IdleWaits(c, s) /\ NoErrorYet(c) /\ RequestsWait(c) /\ ModalHasEntry(c, s)

\* A script that follows none of the practices keeps the console sound: the
\* conjuncts above hold of it while it exists, and nothing runs on it after.
IInv ==
    /\ fault = "none"
    /\ open => Good(con, stack)
    /\ ~open => stack = <<>> /\ con.callbacks = {}

\* How a run that is over has ended.
Abrupt(c) == c.status \cap {"TIMEOUT", "HAD_ERROR", "CLOSING"} # {}

\* What the life of a script relies on besides: a status that ends the script
\* abruptly is not kept by a script that waits, and CLOSING by none that lives;
\* only modalDialogue() and prompts for a file leave JavaScript to run untimed.
LifeInv ==
    open =>
        /\ con.ctx # NoHeap => "CLOSING" \notin con.status
        /\ con.ctx # NoHeap /\ stack = <<>> => "TIMEOUT" \notin con.status
        /\ InModalMain(stack) => stack[1].modal \in Modals
        /\ JSRunning => con.timed \/ Modals \cap {"dialogue", "file"} # {}
=============================================================================
