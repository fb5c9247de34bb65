--------------------------- MODULE ConsolesProofs ---------------------------
(***************************************************************************)
(* Types of the consoles that ask each other, and what the steps do to the *)
(* requests between them, for every number of consoles and of ids.         *)
(***************************************************************************)
EXTENDS ConsolesInv, SequenceTheorems, FiniteSetTheorems, TLAPS

-----------------------------------------------------------------------------
(* What the methods of a console leave in its fields *)

\* The fields that two consoles share of those that asking, timing and the
\* flow of control do not change.
Alike(c, d) ==
    /\ d \in Console /\ d.ctx = c.ctx /\ d.callbacks = c.callbacks /\ d.alert = c.alert
    /\ d.dialog = c.dialog /\ d.label = c.label /\ d.modalCount = c.modalCount

\* Asking whether the script waits changes nothing but the cache.
LEMMA AskedFields ==
    ASSUME NEW c \in Console
    PROVE  LET d == Asked(c)
           IN  /\ Alike(c, d) /\ d.runningMain = c.runningMain /\ d.status = c.status
               /\ d.waitingCached /\ d.waiting = IsWaiting(c) /\ d.timed = c.timed
<1>1. IsWaiting(c) \in BOOLEAN
  BY DEF Console, IsWaiting, SomethingAwaited
<1> QED BY <1>1, ZenonT(30) DEF Console, Asked, Alike

LEMMA AskedBusyFields ==
    ASSUME NEW c \in Console
    PROVE  LET d == AskedBusy(c)
           IN  /\ Alike(c, d) /\ d.runningMain = c.runningMain /\ d.status = c.status
               /\ d.timed = c.timed
               /\ d = c \/ (d.waitingCached /\ d.waiting = IsWaiting(c))
BY AskedFields DEF AskedBusy, Alike

LEMMA TimeoutFields ==
    ASSUME NEW c \in Console
    PROVE  /\ LET d == ClearTimeout(c)
              IN  /\ Alike(c, d) /\ d.runningMain = c.runningMain /\ d.status = c.status
                  /\ d.waitingCached = c.waitingCached /\ d.waiting = c.waiting /\ ~d.timed
           /\ LET d == StartTimeout(c)
              IN  /\ Alike(c, d) /\ d.runningMain = c.runningMain
                  /\ d.status = c.status \ {"TIMEOUT"}
                  /\ d.waitingCached = c.waitingCached /\ d.waiting = c.waiting /\ d.timed
<1>1. ClearTimeout(c) \in Console /\ StartTimeout(c) \in Console
  BY DEF Console, ClearTimeout, StartTimeout
<1>2. LET d == ClearTimeout(c)
      IN  /\ d.ctx = c.ctx /\ d.callbacks = c.callbacks /\ d.alert = c.alert
          /\ d.dialog = c.dialog /\ d.label = c.label /\ d.modalCount = c.modalCount
          /\ d.runningMain = c.runningMain /\ d.status = c.status
          /\ d.waitingCached = c.waitingCached /\ d.waiting = c.waiting /\ d.timed = FALSE
  BY DEF Console, ClearTimeout
<1>3. LET d == StartTimeout(c)
      IN  /\ d.ctx = c.ctx /\ d.callbacks = c.callbacks /\ d.alert = c.alert
          /\ d.dialog = c.dialog /\ d.label = c.label /\ d.modalCount = c.modalCount
          /\ d.runningMain = c.runningMain /\ d.status = c.status \ {"TIMEOUT"}
          /\ d.waitingCached = c.waitingCached /\ d.waiting = c.waiting /\ d.timed = TRUE
  BY DEF Console, StartTimeout
<1> QED BY <1>1, <1>2, <1>3 DEF Alike

\* executeCallableNargs() drops the cached answer and the old timeout.
LEMMA BeforeCallFields ==
    ASSUME NEW c \in Console
    PROVE  LET d == BeforeCall(c)
           IN  /\ Alike(c, d) /\ d.runningMain = c.runningMain
               /\ d.status = c.status \ {"TIMEOUT"} /\ ~d.waitingCached /\ d.timed
<1> DEFINE e == StartTimeout(c)
           d == BeforeCall(c)
<1>1. /\ Alike(c, e) /\ e.runningMain = c.runningMain /\ e.timed
      /\ e.status = c.status \ {"TIMEOUT"} /\ e \in Console
  BY TimeoutFields DEF Alike
<1>2. d = [e EXCEPT !.waitingCached = FALSE]
  BY DEF BeforeCall
<1> HIDE DEF e, d
<1>3. d \in Console
  BY <1>1, <1>2 DEF Console
<1>4. /\ d.ctx = e.ctx /\ d.callbacks = e.callbacks /\ d.alert = e.alert
      /\ d.dialog = e.dialog /\ d.label = e.label /\ d.modalCount = e.modalCount
      /\ d.runningMain = e.runningMain /\ d.status = e.status
      /\ d.waitingCached = FALSE /\ d.timed = e.timed
  BY <1>1, <1>2 DEF Console
<1>5. /\ Alike(c, d) /\ d.runningMain = c.runningMain
      /\ d.status = c.status \ {"TIMEOUT"} /\ ~d.waitingCached /\ d.timed
  BY <1>1, <1>3, <1>4 DEF Alike
<1> QED BY <1>5 DEF d

\* A new status, or main no longer running, changes no other field.
LEMMA StatusFields ==
    ASSUME NEW c \in Console, NEW S \in SUBSET Completions
    PROVE  LET d == [c EXCEPT !.status = S]
           IN  /\ Alike(c, d) /\ d.runningMain = c.runningMain /\ d.status = S
               /\ d.waitingCached = c.waitingCached /\ d.waiting = c.waiting
               /\ d.timed = c.timed
<1> DEFINE d == [c EXCEPT !.status = S]
<1>1. d \in Console
  BY DEF Console
<1>2. /\ d.ctx = c.ctx /\ d.callbacks = c.callbacks /\ d.alert = c.alert
      /\ d.dialog = c.dialog /\ d.label = c.label /\ d.modalCount = c.modalCount
      /\ d.runningMain = c.runningMain /\ d.status = S
      /\ d.waitingCached = c.waitingCached /\ d.waiting = c.waiting /\ d.timed = c.timed
  BY DEF Console
<1> HIDE DEF d
<1>3. /\ Alike(c, d) /\ d.runningMain = c.runningMain /\ d.status = S
      /\ d.waitingCached = c.waitingCached /\ d.waiting = c.waiting
      /\ d.timed = c.timed
  BY <1>1, <1>2 DEF Alike
<1> QED BY <1>3 DEF d

LEMMA RunningFields ==
    ASSUME NEW c \in Console, NEW b \in BOOLEAN
    PROVE  LET d == [c EXCEPT !.runningMain = b]
           IN  /\ Alike(c, d) /\ d.runningMain = b /\ d.status = c.status
               /\ d.waitingCached = c.waitingCached /\ d.waiting = c.waiting
               /\ d.timed = c.timed
<1> DEFINE d == [c EXCEPT !.runningMain = b]
<1>1. d \in Console
  BY DEF Console
<1>2. /\ d.ctx = c.ctx /\ d.callbacks = c.callbacks /\ d.alert = c.alert
      /\ d.dialog = c.dialog /\ d.label = c.label /\ d.modalCount = c.modalCount
      /\ d.runningMain = b /\ d.status = c.status
      /\ d.waitingCached = c.waitingCached /\ d.waiting = c.waiting /\ d.timed = c.timed
  BY DEF Console
<1> HIDE DEF d
<1>3. /\ Alike(c, d) /\ d.runningMain = b /\ d.status = c.status
      /\ d.waitingCached = c.waitingCached /\ d.waiting = c.waiting
      /\ d.timed = c.timed
  BY <1>1, <1>2 DEF Alike
<1> QED BY <1>3 DEF d

\* Callback entries come and go; the cached answer may survive a new one.
LEMMA EntriesFields ==
    ASSUME NEW c \in Console
    PROVE  /\ \A e \in Entry :
                LET d == AddEntry(c, e)
                IN  /\ d \in Console /\ d.callbacks = c.callbacks \cup {e}
                    /\ d.ctx = c.ctx /\ d.alert = c.alert /\ d.dialog = c.dialog
                    /\ d.label = c.label /\ d.modalCount = c.modalCount
                    /\ d.runningMain = c.runningMain /\ d.status = c.status
                    /\ d.waitingCached => c.waitingCached
                    /\ d.waiting = c.waiting /\ d.timed = c.timed
           /\ \A S :
                LET d == RemoveEntries(c, S)
                IN  /\ d \in Console /\ d.callbacks = c.callbacks \ S
                    /\ d.ctx = c.ctx /\ d.alert = c.alert /\ d.dialog = c.dialog
                    /\ d.label = c.label /\ d.modalCount = c.modalCount
                    /\ d.runningMain = c.runningMain /\ d.status = c.status
                    /\ d.waitingCached = c.waitingCached
                    /\ d.waiting = c.waiting /\ d.timed = c.timed
<1>1. ASSUME NEW e \in Entry
      PROVE  LET d == AddEntry(c, e)
             IN  /\ d \in Console /\ d.callbacks = c.callbacks \cup {e}
                 /\ d.ctx = c.ctx /\ d.alert = c.alert /\ d.dialog = c.dialog
                 /\ d.label = c.label /\ d.modalCount = c.modalCount
                 /\ d.runningMain = c.runningMain /\ d.status = c.status
                 /\ d.waitingCached => c.waitingCached
                 /\ d.waiting = c.waiting /\ d.timed = c.timed
  <2>1. AddEntry(c, e) \in Console
    BY DEF Console, AddEntry
  <2>2. LET d == AddEntry(c, e)
        IN  /\ d.callbacks = c.callbacks \cup {e}
            /\ d.ctx = c.ctx /\ d.alert = c.alert /\ d.dialog = c.dialog
            /\ d.label = c.label /\ d.modalCount = c.modalCount
            /\ d.runningMain = c.runningMain /\ d.status = c.status
            /\ d.waitingCached => c.waitingCached
            /\ d.waiting = c.waiting /\ d.timed = c.timed
    BY DEF Console, AddEntry
  <2> QED BY <2>1, <2>2
<1>2. ASSUME NEW S
      PROVE  LET d == RemoveEntries(c, S)
             IN  /\ d \in Console /\ d.callbacks = c.callbacks \ S
                 /\ d.ctx = c.ctx /\ d.alert = c.alert /\ d.dialog = c.dialog
                 /\ d.label = c.label /\ d.modalCount = c.modalCount
                 /\ d.runningMain = c.runningMain /\ d.status = c.status
                 /\ d.waitingCached = c.waitingCached
                 /\ d.waiting = c.waiting /\ d.timed = c.timed
  <2>1. RemoveEntries(c, S) \in Console
    BY DEF Console, RemoveEntries
  <2>2. LET d == RemoveEntries(c, S)
        IN  /\ d.callbacks = c.callbacks \ S
            /\ d.ctx = c.ctx /\ d.alert = c.alert /\ d.dialog = c.dialog
            /\ d.label = c.label /\ d.modalCount = c.modalCount
            /\ d.runningMain = c.runningMain /\ d.status = c.status
            /\ d.waitingCached = c.waitingCached
            /\ d.waiting = c.waiting /\ d.timed = c.timed
    BY DEF Console, RemoveEntries
  <2> QED BY <2>1, <2>2
<1> QED BY <1>1, <1>2

\* Forgetting the callbacks clears all that the script could wait for.
LEMMA ClearedFields ==
    ASSUME NEW c \in Console, NEW d, d \in {ClearCallbacks(c), Cleanup(c)}
    PROVE  /\ d \in Console
           /\ d.callbacks = {} /\ ~d.alert /\ ~d.runningMain /\ d.dialog = 0
           /\ ~d.waitingCached /\ d.label = "Run"
           /\ d.status = c.status /\ d.modalCount = c.modalCount /\ d.timed = c.timed
           /\ d = ClearCallbacks(c) => d.ctx = c.ctx
           /\ d = Cleanup(c) => d.ctx = NoConsole
<1> DEFINE e == ClearCallbacks(c)
           f == Cleanup(c)
<1>1. e \in Console
  BY DEF Console, ClearCallbacks
<1>2. /\ e.callbacks = {} /\ e.alert = FALSE /\ e.runningMain = FALSE /\ e.dialog = 0
      /\ e.waitingCached = FALSE /\ e.label = "Run" /\ e.ctx = c.ctx
      /\ e.status = c.status /\ e.modalCount = c.modalCount /\ e.timed = c.timed
  BY DEF Console, ClearCallbacks
<1>3. f = [e EXCEPT !.ctx = NoConsole]
  BY DEF Cleanup
<1> HIDE DEF e, f
<1>4. f \in Console
  BY <1>1, <1>3 DEF Console
<1>5. /\ f.callbacks = e.callbacks /\ f.alert = e.alert /\ f.runningMain = e.runningMain
      /\ f.dialog = e.dialog /\ f.waitingCached = e.waitingCached /\ f.label = e.label
      /\ f.ctx = NoConsole
      /\ f.status = e.status /\ f.modalCount = e.modalCount /\ f.timed = e.timed
  BY <1>1, <1>3 DEF Console
<1>6. d = e \/ d = f
  BY DEF e, f
<1>7. ASSUME d = e
      PROVE  /\ d \in Console
             /\ d.callbacks = {} /\ ~d.alert /\ ~d.runningMain /\ d.dialog = 0
             /\ ~d.waitingCached /\ d.label = "Run" /\ d.ctx = c.ctx
             /\ d.status = c.status /\ d.modalCount = c.modalCount /\ d.timed = c.timed
  BY <1>1, <1>2, <1>7
<1>8. ASSUME d = f
      PROVE  /\ d \in Console
             /\ d.callbacks = {} /\ ~d.alert /\ ~d.runningMain /\ d.dialog = 0
             /\ ~d.waitingCached /\ d.label = "Run" /\ d.ctx = NoConsole
             /\ d.status = c.status /\ d.modalCount = c.modalCount /\ d.timed = c.timed
  BY <1>2, <1>4, <1>5, <1>8
<1> QED BY <1>2, <1>5, <1>6, <1>7, <1>8 DEF e, f

LEMMA NewConsoleFields ==
    /\ NewConsole \in Console
    /\ NewConsole.ctx = NoConsole /\ NewConsole.callbacks = {} /\ NewConsole.alert = FALSE
    /\ NewConsole.dialog = 0 /\ NewConsole.label = "Run" /\ NewConsole.modalCount = 0
    /\ NewConsole.runningMain = FALSE /\ NewConsole.status = {}
    /\ NewConsole.waitingCached = FALSE /\ NewConsole.timed = FALSE
<1>1. NewConsole \in Console
  BY DEF Console, NewConsole
<1> QED BY <1>1, Zenon DEF NewConsole

\* A script starts from a reset console with the heap made for it.
LEMMA BeforeMainFields ==
    ASSUME NEW c \in Console, NEW h \in Consoles
    PROVE  LET d == BeforeMain(c, h)
           IN  /\ d \in Console
               /\ d.ctx = h /\ d.label = "Stop" /\ d.runningMain /\ d.status = {}
               /\ d.callbacks = c.callbacks /\ ~d.alert /\ d.dialog = 0
               /\ d.modalCount = 0 /\ ~d.waitingCached /\ d.timed
<1> DEFINE e == ConsoleReset(c)
           f == [e EXCEPT !.ctx = h, !.label = "Stop", !.runningMain = TRUE]
           d == BeforeMain(c, h)
<1>1. e \in Console
  BY NewConsoleFields DEF ConsoleReset, Console
<1>2. /\ e.status = {} /\ e.callbacks = c.callbacks /\ e.alert = FALSE /\ e.dialog = 0
      /\ e.modalCount = 0 /\ e.waitingCached = FALSE
  BY DEF ConsoleReset, NewConsole
<1>3. d = StartTimeout(f)
  BY DEF BeforeMain
<1> HIDE DEF e, d
<1>4. f \in Console
  BY <1>1 DEF Console
<1>5. /\ f.ctx = h /\ f.label = "Stop" /\ f.runningMain = TRUE /\ f.status = e.status
      /\ f.callbacks = e.callbacks /\ f.alert = e.alert /\ f.dialog = e.dialog
      /\ f.modalCount = e.modalCount /\ f.waitingCached = e.waitingCached
  BY <1>1 DEF Console
<1> HIDE DEF f
<1>6. /\ Alike(f, d) /\ d.runningMain = f.runningMain /\ d.status = f.status \ {"TIMEOUT"}
      /\ d.waitingCached = f.waitingCached /\ d.timed
  BY <1>3, <1>4, TimeoutFields
<1>7. /\ d \in Console
      /\ d.ctx = h /\ d.label = "Stop" /\ d.runningMain /\ d.status = {}
      /\ d.callbacks = c.callbacks /\ ~d.alert /\ d.dialog = 0
      /\ d.modalCount = 0 /\ ~d.waitingCached /\ d.timed
  BY <1>2, <1>5, <1>6 DEF Alike
<1> QED BY <1>7 DEF d

Interrupted(c) == c.status \cap Interrupts # {}

\* afterwards() leaves the answer of the full check, or that of its decree.
LEMMA AfterwardsFields ==
    ASSUME NEW c \in Console, NEW threw \in BOOLEAN
    PROVE  LET d == Afterwards(c, threw)
           IN  /\ Alike(c, d) /\ d.runningMain = c.runningMain /\ d.timed = c.timed
               /\ d.waitingCached
               /\ d.waiting = (~Interrupted(c) /\ ~threw /\ SomethingAwaited(c))
               /\ d.status = IF threw /\ ~Interrupted(c) THEN c.status \cup {"HAD_ERROR"}
                                                         ELSE c.status
<1> DEFINE w == ~Interrupted(c) /\ ~threw /\ SomethingAwaited(c)
           S == IF threw /\ ~Interrupted(c) THEN c.status \cup {"HAD_ERROR"} ELSE c.status
           d == [c EXCEPT !.waiting = w, !.waitingCached = TRUE, !.status = S]
<1>1. w \in BOOLEAN /\ S \in SUBSET Completions
  BY DEF Console, Completions
<1>2. Afterwards(c, threw) = d
  BY DEF Afterwards, Interrupted
<1> HIDE DEF w, S
<1>3. d \in Console
  BY <1>1 DEF Console
<1>4. /\ d.ctx = c.ctx /\ d.callbacks = c.callbacks /\ d.alert = c.alert
      /\ d.dialog = c.dialog /\ d.label = c.label /\ d.modalCount = c.modalCount
      /\ d.runningMain = c.runningMain /\ d.timed = c.timed
      /\ d.waitingCached = TRUE /\ d.waiting = w /\ d.status = S
  BY <1>1 DEF Console
<1> HIDE DEF d
<1>5. /\ Alike(c, d) /\ d.runningMain = c.runningMain /\ d.timed = c.timed
      /\ d.waitingCached /\ d.waiting = w /\ d.status = S
  BY <1>3, <1>4 DEF Alike
<1> QED BY <1>2, <1>5 DEF w, S

\* Interrupts come before errors, errors before waiting.
LEMMA OutcomeCases ==
    ASSUME NEW c \in Console, NEW threw \in BOOLEAN
    PROVE  /\ Outcome(c, threw) \in Completions
           /\ Outcome(c, threw) = "MORETODO" => ~threw /\ ~Interrupted(c) /\ SomethingAwaited(c)
           /\ ~threw /\ ~Interrupted(c) /\ SomethingAwaited(c) => Outcome(c, threw) = "MORETODO"
<1>1. CASE "TIMEOUT" \in c.status
  BY <1>1 DEF Outcome, Interrupts, Interrupted, Completions
<1>2. CASE "TIMEOUT" \notin c.status /\ "CLOSING" \in c.status
  BY <1>2 DEF Outcome, Interrupts, Interrupted, Completions
<1>3. CASE "TIMEOUT" \notin c.status /\ "CLOSING" \notin c.status /\ "STOPPED" \in c.status
  BY <1>3 DEF Outcome, Interrupts, Interrupted, Completions
<1>4. CASE "TIMEOUT" \notin c.status /\ "CLOSING" \notin c.status /\ "STOPPED" \notin c.status
  BY <1>4 DEF Outcome, Interrupts, Interrupted, Completions
<1> QED BY <1>1, <1>2, <1>3, <1>4

\* What afterwards() is given and gives when the call of frame f ends.
LEMMA CallEndFields ==
    ASSUME NEW c0 \in Console, NEW notMain \in BOOLEAN, NEW threw \in BOOLEAN
    PROVE  LET c1 == [ClearTimeout(c0) EXCEPT !.runningMain = @ /\ notMain]
               c  == Afterwards(c1, threw)
           IN  /\ c1 \in Console /\ Alike(c0, c)
               /\ Interrupted(c1) <=> Interrupted(c0)
               /\ SomethingAwaited(c1) <=> SomethingAwaited(c0)
               /\ c.runningMain = (c0.runningMain /\ notMain)
               /\ ~c.timed /\ c.waitingCached
               /\ c.waiting = (~Interrupted(c0) /\ ~threw /\ SomethingAwaited(c0))
               /\ ~threw => c.status = c0.status
<1> DEFINE e  == ClearTimeout(c0)
           r  == e.runningMain /\ notMain
           c1 == [e EXCEPT !.runningMain = r]
           c  == Afterwards(c1, threw)
<1>1. e \in Console /\ Alike(c0, e) /\ e.runningMain = c0.runningMain
      /\ e.status = c0.status /\ ~e.timed
  BY TimeoutFields DEF Alike
<1> HIDE DEF e
<1>2. r \in BOOLEAN
  OBVIOUS
<1> HIDE DEF r
<1>3. c1 \in Console /\ Alike(e, c1) /\ c1.runningMain = r /\ c1.status = e.status
      /\ c1.timed = e.timed
  BY <1>1, <1>2, RunningFields DEF Alike
<1> HIDE DEF c1
<1>b. /\ Alike(c1, c) /\ c.runningMain = c1.runningMain /\ c.timed = c1.timed
      /\ c.waitingCached
      /\ c.waiting = (~Interrupted(c1) /\ ~threw /\ SomethingAwaited(c1))
      /\ c.status = IF threw /\ ~Interrupted(c1) THEN c1.status \cup {"HAD_ERROR"}
                                                 ELSE c1.status
  BY <1>3, AfterwardsFields, Zenon
<1>4. ~threw => c.status = c1.status
  BY <1>b
<1> HIDE DEF c
<1>9. c1.status = c0.status
  BY <1>1, <1>3
<1>a. c1.callbacks = c0.callbacks /\ c1.dialog = c0.dialog /\ c1.alert = c0.alert
  BY <1>1, <1>3 DEF Alike
<1>5. /\ Interrupted(c1) <=> Interrupted(c0)
      /\ SomethingAwaited(c1) <=> SomethingAwaited(c0)
  BY <1>9, <1>a, Zenon DEF Interrupted, SomethingAwaited
<1>6. c.waiting = (~Interrupted(c0) /\ ~threw /\ SomethingAwaited(c0))
  BY <1>b, <1>5
<1>7. Alike(c0, c) /\ ~c.timed /\ (~threw => c.status = c0.status)
  <2>1. ~c.timed /\ (~threw => c.status = c0.status)
    BY <1>1, <1>3, <1>4, <1>b
  <2>2. Alike(c0, c)
    BY <1>1, <1>3, <1>b DEF Alike
  <2> QED BY <2>1, <2>2
<1>8. c.runningMain = (c0.runningMain /\ notMain)
  BY <1>1, <1>3, <1>b DEF r
<1> QED BY <1>3, <1>b, <1>5, <1>6, <1>7, <1>8, Zenon DEF c, c1, r, e

-----------------------------------------------------------------------------
(* Types *)

Typing(cs, bs, qs, s) ==
    /\ cs \in [Consoles -> Console] /\ bs \in [Consoles -> Brief]
    /\ qs \in [Consoles -> Seq(Brief)] /\ s \in Seq(Frame)

Faults == {"none", "heapInUse", "noConsole", "noEntry", "consoleInUse"}

\* TypeOK but that a console is left, which the practices may undo.
Typed == exists \subseteq Consoles /\ Typing(con, brief, queue, stack) /\ fault \in Faults

Typed2 == Typing(con', brief', queue', stack') /\ fault' \in Faults

\* What a step has arrived at when it stops there.
LEMMA BecomesTyped ==
    ASSUME NEW cs, NEW bs, NEW qs, NEW s, Typing(cs, bs, qs, s), fault \in Faults,
           Becomes(cs, bs, qs, s)
    PROVE  Typed2
BY DEF Becomes, Typed2

LEMMA FailsTyped ==
    ASSUME Typed, NEW what \in Faults, Fails(what)
    PROVE  Typed2
BY DEF Fails, Typed, Typed2, Typing

LEMMA FrameTypes ==
    ASSUME NEW c \in Consoles, NEW kind \in {"main", "callback", "reply"}
    PROVE  /\ NewFrame(c, kind) \in Frame
           /\ \A b \in Consoles, e \in Ids, r \in Ids \cup {NoId} :
                [NewFrame(c, kind) EXCEPT !.from = b, !.entry = e, !.request = r] \in Frame
BY DEF NewFrame, Frame

LEMMA NoBriefType == NoBrief \in Brief
BY DEF NoBrief, Brief

LEMMA ChangedType ==
    ASSUME NEW S, NEW f \in [Consoles -> S], NEW c, NEW x \in S
    PROVE  [f EXCEPT ![c] = x] \in [Consoles -> S]
OBVIOUS

\* A call that ends leaves those below it.
LEMMA BelowProperties ==
    ASSUME NEW s \in Seq(Frame), s # <<>>
    PROVE  /\ Below(s) \in Seq(Frame) /\ Len(s) \in Nat \ {0}
           /\ DOMAIN s = 1..Len(s) /\ DOMAIN Below(s) = 1..(Len(s) - 1)
           /\ Len(Below(s)) = Len(s) - 1
           /\ \A i \in DOMAIN Below(s) : Below(s)[i] = s[i]
<1> DEFINE n == Len(s)
           b == Below(s)
<1>1. n \in Nat \ {0} /\ DOMAIN s = 1..n
  BY EmptySeq, LenProperties
<1>2. \A i \in 1..(n - 1) : s[i] \in Frame
  BY <1>1, ElementOfSeq
<1>3. b = SubSeq(s, 1, n - 1)
  BY DEF Below
<1> HIDE DEF n, b
<1>4. /\ b \in Seq(Frame)
      /\ Len(b) = IF 1 <= n - 1 THEN (n - 1) - 1 + 1 ELSE 0
      /\ \A i \in 1..((n - 1) - 1 + 1) : b[i] = s[1 + i - 1]
  <2>1. n - 1 \in Int /\ 1 \in Int
    BY <1>1
  <2> QED BY <1>2, <1>3, <2>1, SubSeqProperties
<1>5. Len(b) = n - 1
  <2>1. n - 1 >= 0 /\ (n - 1) - 1 + 1 = n - 1
    BY <1>1
  <2> QED BY <1>1, <1>4, <2>1
<1>6. \A i \in 1..(n - 1) : b[i] = s[i]
  <2>1. (n - 1) - 1 + 1 = n - 1 /\ \A i \in 1..(n - 1) : 1 + i - 1 = i
    BY <1>1
  <2> QED BY <1>4, <2>1
<1>7. DOMAIN b = 1..(n - 1)
  BY <1>4, <1>5, LenProperties
<1> QED BY <1>1, <1>4, <1>5, <1>6, <1>7 DEF n, b

LEMMA BelowType ==
    ASSUME NEW s \in Seq(Frame) PROVE Below(s) \in Seq(Frame)
<1>1. CASE s = <<>>
  <2>1. Below(s) = <<>>
    BY <1>1, SubSeqEmpty DEF Below
  <2> QED BY <2>1
<1> QED BY <1>1, BelowProperties

LEMMA TopType ==
    ASSUME stack \in Seq(Frame), stack # <<>>
    PROVE  /\ Len(stack) \in DOMAIN stack /\ Top \in Frame /\ me \in Consoles
           /\ DOMAIN stack = 1..Len(stack) /\ Len(stack) \in Nat \ {0}
<1>1. Len(stack) \in Nat \ {0} /\ DOMAIN stack = 1..Len(stack)
  BY EmptySeq, LenProperties
<1>2. Top \in Frame
  BY <1>1, ElementOfSeq DEF Top
<1> QED BY <1>1, <1>2 DEF Frame, me

\* A call whose box, or its answer, changes.
LEMMA FrameChanged ==
    ASSUME NEW s \in Seq(Frame), NEW i \in DOMAIN s, NEW f \in Frame
    PROVE  LET s2 == [s EXCEPT ![i] = f]
           IN  /\ s2 \in Seq(Frame) /\ Len(s2) = Len(s) /\ DOMAIN s2 = DOMAIN s
               /\ \A j \in DOMAIN s : s2[j] = IF j = i THEN f ELSE s[j]
<1>1. DOMAIN s = 1..Len(s)
  BY LenProperties
<1>2. [s EXCEPT ![i] = f] \in Seq(Frame) /\ Len([s EXCEPT ![i] = f]) = Len(s)
  BY <1>1, ExceptSeq
<1> QED BY <1>1, <1>2

LEMMA TimedTyped ==
    ASSUME NEW cs \in [Consoles -> Console], NEW c, NEW new \in Console
    PROVE  Timed(cs, c, new) \in [Consoles -> Console]
<1>1. \A d \in Consoles : ClearTimeout(cs[d]) \in Console
  BY TimeoutFields DEF Alike
<1> QED BY <1>1 DEF Timed

LEMMA ReplyTyped ==
    ASSUME NEW cs, NEW bs, NEW qs, NEW s, NEW b \in Consoles,
           Typing(cs, bs, qs, s), Typed, ReplyToConsole(cs, bs, qs, s, b)
    PROVE  Typed2
<1> DEFINE id == bs[b].callbackId
           a  == bs[b].caller
           asked == Asked(cs[a])
<1>1. CASE Becomes(cs, bs, qs, s)
  BY <1>1, BecomesTyped DEF Typed
<1>2. CASE a \in exists /\ id # NoId /\ Becomes([cs EXCEPT ![a] = asked], bs, qs, s)
  <2>1. asked \in Console /\ a \in Consoles
    BY <1>2, AskedFields DEF Typed, Typing, Alike
  <2>2. Typing([cs EXCEPT ![a] = asked], bs, qs, s)
    BY <2>1 DEF Typing
  <2> QED BY <1>2, <2>2, BecomesTyped DEF Typed
<1>3. ASSUME a \in exists, NEW e \in EntriesOf(asked, id),
             Becomes(Timed(cs, a, BeforeCall(RemoveEntries(asked, {e}))), bs, qs,
                              Append(s, [NewFrame(a, "reply") EXCEPT
                                           !.from = b, !.entry = e.id,
                                           !.request = bs[b].request]))
      PROVE  Typed2
  <2> DEFINE x == BeforeCall(RemoveEntries(asked, {e}))
             f == [NewFrame(a, "reply") EXCEPT !.from = b, !.entry = e.id,
                                               !.request = bs[b].request]
  <2>1. asked \in Console /\ a \in Consoles
    BY <1>3, AskedFields DEF Typed, Typing, Alike
  <2>2. e \in Entry
    BY <2>1 DEF Console, EntriesOf
  <2>3. RemoveEntries(asked, {e}) \in Console
    BY <2>1, EntriesFields
  <2>4. x \in Console
    BY <2>3, BeforeCallFields DEF Alike
  <2>5. e.id \in Ids /\ bs[b].request \in Ids \cup {NoId}
    BY <2>2 DEF Typing, Brief, Entry
  <2>6. f \in Frame
    BY <2>1, <2>5, FrameTypes
  <2>7. Append(s, f) \in Seq(Frame)
    BY <2>6, AppendProperties DEF Typing
  <2>8. Timed(cs, a, x) \in [Consoles -> Console]
    BY <2>4, TimedTyped DEF Typing
  <2>9. Typing(Timed(cs, a, x), bs, qs, Append(s, f))
    BY <2>7, <2>8 DEF Typing
  <2> QED BY <1>3, <2>9, BecomesTyped DEF Typed
<1>4. ASSUME a \in exists, NEW e \in EntriesOf(asked, id),
             Becomes([cs EXCEPT ![a] = RemoveEntries(asked, {e})],
                     [bs EXCEPT ![b].callbackId = NoId], qs, s)
      PROVE  Typed2
  <2>1. asked \in Console
    BY <1>4, AskedFields DEF Typed, Typing, Alike
  <2>2. RemoveEntries(asked, {e}) \in Console
    BY <2>1, EntriesFields
  <2>3. [cs EXCEPT ![a] = RemoveEntries(asked, {e})] \in [Consoles -> Console]
    BY <2>2 DEF Typing
  <2>4. \A f \in Brief : [f EXCEPT !.callbackId = NoId] \in Brief
    BY DEF Brief
  <2>5. [bs EXCEPT ![b].callbackId = NoId] \in [Consoles -> Brief]
    BY <2>4 DEF Typing
  <2>6. Typing([cs EXCEPT ![a] = RemoveEntries(asked, {e})],
               [bs EXCEPT ![b].callbackId = NoId], qs, s)
    BY <2>3, <2>5 DEF Typing
  <2> QED BY <1>4, <2>6, BecomesTyped DEF Typed
<1> QED BY <1>1, <1>2, <1>3, <1>4 DEF ReplyToConsole

\* A script that is wrapped up has a reason, and leaves a console.
LEMMA WrapUpTyped ==
    ASSUME NEW cs0, NEW bs, NEW qs, NEW s, NEW c \in Consoles, NEW reason \in Completions,
           Typing(cs0, bs, qs, s), Typed, WrapUp(cs0, bs, qs, s, c, reason)
    PROVE  Typed2
<1> DEFINE S  == (cs0[c].status \ {"MORETODO"}) \cup {reason}
           k  == [cs0[c] EXCEPT !.status = S]
           cs == [cs0 EXCEPT ![c] = k]
           k1 == Cleanup(k)
           k2 == AskedBusy(k1)
           S3 == k2.status \ {"TOCHAIN"}
           k3 == [k2 EXCEPT !.status = S3]
<1>1. cs0[c] \in Console /\ S \in SUBSET Completions
  BY DEF Typing, Console
<1>2. k \in Console /\ cs[c] = k /\ cs \in [Consoles -> Console]
  <2>1. k \in Console
    BY <1>1, StatusFields DEF Alike
  <2> QED BY <2>1 DEF Typing
<1> HIDE DEF S, k
<1>3. k1 \in Console
  BY <1>2, ClearedFields
<1> HIDE DEF k1
<1>4. k2 \in Console
  BY <1>3, AskedBusyFields DEF Alike
<1> HIDE DEF k2
<1>5. S3 \in SUBSET Completions
  BY <1>4 DEF Console
<1> HIDE DEF S3
<1>6. k3 \in Console
  BY <1>4, <1>5, StatusFields DEF Alike
<1> HIDE DEF k3
<1>7. \A x \in Console : [cs EXCEPT ![c] = x] \in [Consoles -> Console]
  BY <1>2
<1>8. cs = [cs0 EXCEPT ![c].status = (@ \ {"MORETODO"}) \cup {reason}]
  BY DEF k, S
<1> HIDE DEF cs
<1>9. CASE Becomes(cs, bs, qs, s)
  BY <1>2, <1>9, BecomesTyped DEF Typing, Typed
<1>10. CASE Fails("heapInUse")
  BY <1>10, FailsTyped DEF Faults
<1>11. CASE Chained(cs, bs, qs, s, c)
  <2>1. [AskedBusy(Cleanup(cs[c])) EXCEPT !.status = @ \ {"TOCHAIN"}] = k3
    BY <1>2 DEF k1, k2, k3, S3
  <2>2. Becomes([cs EXCEPT ![c] = k3], bs, [qs EXCEPT ![c] = Append(qs[c], bs[c])], s)
    BY <1>2, <1>11, <2>1 DEF Chained, Typing
  <2>3. Append(qs[c], bs[c]) \in Seq(Brief)
    BY AppendProperties DEF Typing
  <2>4. [qs EXCEPT ![c] = Append(qs[c], bs[c])] \in [Consoles -> Seq(Brief)]
    BY <2>3 DEF Typing
  <2>5. Typing([cs EXCEPT ![c] = k3], bs, [qs EXCEPT ![c] = Append(qs[c], bs[c])], s)
    BY <1>6, <1>7, <2>4 DEF Typing
  <2> QED BY <2>2, <2>5, BecomesTyped DEF Typed
<1>12. CASE ReplyToConsole([cs EXCEPT ![c] = Cleanup(cs[c])], bs, qs, s, c)
  <2>1. Typing([cs EXCEPT ![c] = k1], bs, qs, s)
    BY <1>3, <1>7 DEF Typing
  <2> QED BY <1>2, <1>12, <2>1, ReplyTyped DEF k1
<1>13. CASE ReplyToConsole([cs EXCEPT ![c] = AskedBusy(Cleanup(cs[c]))], bs, qs, s, c)
  <2>1. Typing([cs EXCEPT ![c] = k2], bs, qs, s)
    BY <1>4, <1>7 DEF Typing
  <2> QED BY <1>2, <1>13, <2>1, ReplyTyped DEF k1, k2
<1>14. WrapUp(cs0, bs, qs, s, c, reason) <=>
         CASE reason = "MORETODO" -> Becomes(cs, bs, qs, s)
           [] reason # "MORETODO" /\ Suspended(s, c) -> Fails("heapInUse")
           [] OTHER ->
               CASE reason = "TOCHAIN" -> Chained(cs, bs, qs, s, c)
                 [] reason \in {"TIMEOUT", "HAD_ERROR", "CLOSING"} ->
                      ReplyToConsole([cs EXCEPT ![c] = Cleanup(@)], bs, qs, s, c)
                 [] OTHER ->
                      ReplyToConsole([cs EXCEPT ![c] = AskedBusy(Cleanup(@))], bs, qs, s, c)
  BY <1>8 DEF WrapUp
<1>15. \A x : [cs EXCEPT ![c] = Cleanup(@)] = [cs EXCEPT ![c] = Cleanup(cs[c])]
        /\ [cs EXCEPT ![c] = AskedBusy(Cleanup(@))] = [cs EXCEPT ![c] = AskedBusy(Cleanup(cs[c]))]
  BY <1>2
<1> QED BY <1>9, <1>10, <1>11, <1>12, <1>13, <1>14, <1>15

LEMMA RepliedTyped ==
    ASSUME NEW bs \in [Consoles -> Brief], NEW f
    PROVE  Replied(bs, f) \in [Consoles -> Brief]
<1>1. \A b \in Brief : [b EXCEPT !.callbackId = NoId] \in Brief
  BY DEF Brief
<1>2. [bs EXCEPT ![f.from].callbackId = NoId] \in [Consoles -> Brief]
  BY <1>1
<1> QED BY <1>2 DEF Replied

\* The call that ends leaves its console waiting, or wrapped up.
LEMMA CallEndsTyped ==
    ASSUME NEW cs0, NEW bs, NEW s, NEW threw \in BOOLEAN, Typed, stack # <<>>,
           Typing(cs0, bs, queue, s), CallEnds(cs0, bs, s, threw)
    PROVE  Typed2
<1> DEFINE notMain == Top.kind # "main"
           c1 == [ClearTimeout(cs0[me]) EXCEPT !.runningMain = @ /\ notMain]
           c  == Afterwards(c1, threw)
           cs == [Timed(cs0, me, c) EXCEPT ![me] = AskedBusy(@)]
<1>1. me \in Consoles /\ notMain \in BOOLEAN
  BY TopType DEF Typed, Typing
<1>2. cs0[me] \in Console
  BY <1>1 DEF Typing
<1> HIDE DEF notMain
<1>3. c1 \in Console /\ c \in Console
  BY <1>1, <1>2, CallEndFields DEF Alike
<1>4. Outcome(c1, threw) \in Completions
  BY <1>3, OutcomeCases
<1>5. CallEnds(cs0, bs, s, threw) <=>
        IF IsBusy(c) THEN Becomes(cs, Replied(bs, Top), queue, Below(s))
        ELSE WrapUp(cs, Replied(bs, Top), queue, Below(s), me, Outcome(c1, threw))
  BY DEF CallEnds, notMain
<1> HIDE DEF c1
<1>6. Timed(cs0, me, c) \in [Consoles -> Console] /\ Timed(cs0, me, c)[me] = c
  <2>1. Timed(cs0, me, c) \in [Consoles -> Console]
    BY <1>3, TimedTyped DEF Typing
  <2>2. Timed(cs0, me, c)[me] = c
    BY <1>1 DEF Timed
  <2> QED BY <2>1, <2>2
<1> HIDE DEF c
<1>7. AskedBusy(c) \in Console
  BY <1>3, AskedBusyFields DEF Alike
<1>8. cs \in [Consoles -> Console]
  BY <1>6, <1>7
<1> HIDE DEF cs
<1>9. Typing(cs, Replied(bs, Top), queue, Below(s))
  BY <1>8, BelowType, RepliedTyped DEF Typing
<1> QED BY <1>1, <1>4, <1>5, <1>9, BecomesTyped, WrapUpTyped DEF Typed

LEMMA RunTypes ==
    ASSUME Typed, JSRunning
    PROVE  /\ stack # <<>> /\ me \in Consoles /\ con[me] \in Console
           /\ Typing(con, brief, queue, stack) /\ exists \subseteq Consoles
BY TopType DEF Typed, Typing, JSRunning

\* What consoles, briefs and queues are when one of them changes.
LEMMA PartsTyped ==
    ASSUME NEW cs, NEW bs, NEW qs, NEW s, Typing(cs, bs, qs, s)
    PROVE  /\ \A c : \A x \in Console : Typing([cs EXCEPT ![c] = x], bs, qs, s)
           /\ \A c : \A x \in Brief : Typing(cs, [bs EXCEPT ![c] = x], qs, s)
           /\ \A c : \A x \in Seq(Brief) : Typing(cs, bs, [qs EXCEPT ![c] = x], s)
           /\ \A c : \A x \in Frame : c \in DOMAIN s => Typing(cs, bs, qs, [s EXCEPT ![c] = x])
<1>1. \A c : \A x \in Frame : c \in DOMAIN s => [s EXCEPT ![c] = x] \in Seq(Frame)
  BY FrameChanged DEF Typing
<1> QED BY <1>1 DEF Typing

LEMMA ThrowsTyped ==
    ASSUME Typed, JSRunning, NEW cs \in [Consoles -> Console], Throws(cs)
    PROVE  Typed2
<1>1. cs[me] \in Console
  BY RunTypes
<1>2. PrepForThrow(cs[me]) \in Console
  BY <1>1, RunningFields DEF PrepForThrow, Alike
<1>3. [cs EXCEPT ![me] = PrepForThrow(@)] = [cs EXCEPT ![me] = PrepForThrow(cs[me])]
  BY RunTypes
<1>4. Typing(cs, brief, queue, stack)
  BY DEF Typed, Typing
<1>5. Typing([cs EXCEPT ![me] = PrepForThrow(cs[me])], brief, queue, stack)
  BY <1>2, <1>4, PartsTyped
<1>6. CallEnds([cs EXCEPT ![me] = PrepForThrow(cs[me])], brief, stack, TRUE)
  BY <1>3 DEF Throws
<1> QED BY <1>5, <1>6, RunTypes, CallEndsTyped

LEMMA ReturnTyped == Typed /\ Return => Typed2
<1> QED BY RunTypes, CallEndsTyped DEF Return, JS

LEMMA ErrorTyped == Typed /\ Error => Typed2
<1> QED BY ThrowsTyped DEF Error, JS, Typed, Typing

LEMMA TimeoutTyped == Typed /\ Timeout => Typed2
<1> SUFFICES ASSUME Typed, Timeout PROVE Typed2
  OBVIOUS
<1> DEFINE S == con[me].status \cup {"TIMEOUT"}
           x == [con[me] EXCEPT !.status = S]
<1>1. JSRunning
  BY DEF Timeout, JS
<1>2. con[me] \in Console
  BY <1>1, RunTypes
<1>3. S \in SUBSET Completions
  BY <1>2 DEF Console, Completions
<1>4. x \in Console
  BY <1>2, <1>3, StatusFields DEF Alike
<1>5. CallEnds([con EXCEPT ![me] = x], brief, stack, TRUE)
  BY DEF Timeout
<1> HIDE DEF x
<1>6. Typing([con EXCEPT ![me] = x], brief, queue, stack)
  BY <1>1, <1>4, RunTypes, PartsTyped
<1> QED BY <1>1, <1>5, <1>6, RunTypes, CallEndsTyped

LEMMA StopScriptTyped == Typed /\ StopScript => Typed2
<1> SUFFICES ASSUME Typed, StopScript PROVE Typed2
  OBVIOUS
<1> DEFINE S == con[me].status \cup {"STOPPED"}
           x == [con[me] EXCEPT !.status = S]
           y == ClearCallbacks(x)
<1>1. JSRunning
  BY DEF StopScript, JS
<1>2. con[me] \in Console
  BY <1>1, RunTypes
<1>3. S \in SUBSET Completions
  BY <1>2 DEF Console, Completions
<1>4. x \in Console
  BY <1>2, <1>3, StatusFields DEF Alike
<1>5. \/ Sets([con EXCEPT ![me] = x])
      \/ CallEnds([con EXCEPT ![me] = y], brief, stack, TRUE)
  BY DEF StopScript
<1> HIDE DEF x
<1>6. y \in Console
  BY <1>4, ClearedFields
<1> HIDE DEF y
<1>7. /\ Typing([con EXCEPT ![me] = x], brief, queue, stack)
      /\ Typing([con EXCEPT ![me] = y], brief, queue, stack)
  BY <1>1, <1>4, <1>6, RunTypes, PartsTyped
<1> QED BY <1>1, <1>5, <1>7, RunTypes, CallEndsTyped, BecomesTyped DEF Sets, Typed

LEMMA ChainScriptTyped == Typed /\ (\E given \in Giving : ChainScript(given)) => Typed2
<1> SUFFICES ASSUME Typed, NEW given \in Giving, ChainScript(given) PROVE Typed2
  OBVIOUS
<1> DEFINE S == con[me].status \cup {"TOCHAIN"}
           x == [con[me] EXCEPT !.status = S]
           f == [brief[me] EXCEPT !.has = given, !.given = given]
<1>1. JSRunning
  BY DEF ChainScript, JS
<1>2. con[me] \in Console /\ brief[me] \in Brief
  BY <1>1, RunTypes DEF Typed, Typing
<1>3. S \in SUBSET Completions
  BY <1>2 DEF Console, Completions
<1>4. x \in Console
  BY <1>2, <1>3, StatusFields DEF Alike
<1>5. f \in Brief
  BY <1>2, GivingAssumption DEF Brief
<1>6. CallEnds([con EXCEPT ![me] = x], [brief EXCEPT ![me] = f], stack, TRUE)
  BY DEF ChainScript
<1> HIDE DEF x, f
<1>7. Typing([con EXCEPT ![me] = x], brief, queue, stack)
  BY <1>1, <1>4, RunTypes, PartsTyped
<1>8. Typing([con EXCEPT ![me] = x], [brief EXCEPT ![me] = f], queue, stack)
  BY <1>5, <1>7, PartsTyped
<1> QED BY <1>1, <1>6, <1>8, RunTypes, CallEndsTyped

\* The entry made for a free id, and the request made with it.
LEMMA NewEntryTypes ==
    ASSUME Typed, JSRunning, NEW id \in FreeIds
    PROVE  /\ id \in Ids
           /\ \A type \in {"CB_TIMER", "CB_CONSOLE", "CB_DIALOGUE"} : NewEntry(id, type) \in Entry
           /\ AddEntry(con[me], NewEntry(id, "CB_TIMER")) \in Console
           /\ AddEntry(con[me], NewEntry(id, "CB_CONSOLE")) \in Console
           /\ \A given \in BOOLEAN :
                [has |-> given, callbackId |-> id, caller |-> me,
                 given |-> given, request |-> id] \in Brief
<1>1. me \in Consoles /\ con[me] \in Console /\ id \in Ids
  BY RunTypes DEF FreeIds
<1>2. \A type \in {"CB_TIMER", "CB_CONSOLE", "CB_DIALOGUE"} : NewEntry(id, type) \in Entry
  BY <1>1 DEF NewEntry, Entry, CallbackTypes
<1>3. /\ AddEntry(con[me], NewEntry(id, "CB_TIMER")) \in Console
      /\ AddEntry(con[me], NewEntry(id, "CB_CONSOLE")) \in Console
  BY <1>1, <1>2, EntriesFields
<1>4. \A given \in BOOLEAN :
        [has |-> given, callbackId |-> id, caller |-> me,
         given |-> given, request |-> id] \in Brief
  BY <1>1 DEF Brief
<1> QED BY <1>1, <1>2, <1>3, <1>4

LEMMA OnSecondsTyped == Typed /\ OnSeconds => Typed2
<1> SUFFICES ASSUME Typed, OnSeconds PROVE Typed2
  OBVIOUS
<1>1. JSRunning
  BY DEF OnSeconds, JS
<1>2. PICK id \in FreeIds :
        Becomes([con EXCEPT ![me] = AddEntry(con[me], NewEntry(id, "CB_TIMER"))],
                brief, queue, stack)
  BY DEF OnSeconds, Sets
<1>3. Typing([con EXCEPT ![me] = AddEntry(con[me], NewEntry(id, "CB_TIMER"))],
                brief, queue, stack)
  BY <1>1, NewEntryTypes, RunTypes, PartsTyped
<1> QED BY <1>2, <1>3, BecomesTyped DEF Typed

LEMMA GetBriefTyped == Typed /\ GetBrief => Typed2
<1> SUFFICES ASSUME Typed, GetBrief PROVE Typed2
  OBVIOUS
<1> DEFINE f == [brief[me] EXCEPT !.has = FALSE]
<1>1. JSRunning
  BY DEF GetBrief, JS
<1>2. brief[me] \in Brief
  BY <1>1, RunTypes DEF Typed, Typing
<1>3. f \in Brief
  BY <1>2 DEF Brief
<1>4. Becomes(con, [brief EXCEPT ![me] = f], queue, stack) \/ Throws(con)
  BY DEF GetBrief
<1> HIDE DEF f
<1>5. Typing(con, [brief EXCEPT ![me] = f], queue, stack)
  BY <1>1, <1>3, RunTypes, PartsTyped
<1> QED BY <1>1, <1>4, <1>5, BecomesTyped, ThrowsTyped DEF Typed, Typing

LEMMA CancelRequestTyped == Typed /\ CancelRequest => Typed2
<1> SUFFICES ASSUME Typed, CancelRequest PROVE Typed2
  OBVIOUS
<1>1. JSRunning
  BY DEF CancelRequest, JS
<1>2. PICK e \in con[me].callbacks :
        Becomes([con EXCEPT ![me] = RemoveEntries(con[me], {e})], brief, queue, stack)
  BY DEF CancelRequest, Sets
<1>3. RemoveEntries(con[me], {e}) \in Console
  BY <1>1, RunTypes, EntriesFields
<1>4. Typing([con EXCEPT ![me] = RemoveEntries(con[me], {e})], brief, queue, stack)
  BY <1>1, <1>3, RunTypes, PartsTyped
<1> QED BY <1>2, <1>4, BecomesTyped DEF Typed

\* messageBox() and ShowModal(): one box more, and one fewer.
Opened(c, n) == [c EXCEPT !.dialog = n, !.modalCount = @ + 1]
Closed(c)    == [c EXCEPT !.modalCount = @ - 1]

LEMMA BoxOpened ==
    ASSUME NEW c \in Console, NEW n \in Nat
    PROVE  LET d == Opened(c, n)
           IN  /\ d \in Console /\ d.dialog = n /\ d.modalCount = c.modalCount + 1
               /\ d.ctx = c.ctx /\ d.callbacks = c.callbacks /\ d.alert = c.alert
               /\ d.label = c.label /\ d.status = c.status /\ d.runningMain = c.runningMain
               /\ d.waitingCached = c.waitingCached /\ d.waiting = c.waiting
               /\ d.timed = c.timed
<1> DEFINE m == c.modalCount + 1
           d == Opened(c, n)
<1>1. m \in Int /\ d = [c EXCEPT !.dialog = n, !.modalCount = m]
  BY DEF Console, Opened
<1> HIDE DEF m, d
<1>2. d \in Console
  BY <1>1 DEF Console
<1>3. /\ d.dialog = n /\ d.modalCount = m
      /\ d.ctx = c.ctx /\ d.callbacks = c.callbacks /\ d.alert = c.alert
      /\ d.label = c.label /\ d.status = c.status /\ d.runningMain = c.runningMain
      /\ d.waitingCached = c.waitingCached /\ d.waiting = c.waiting
      /\ d.timed = c.timed
  BY <1>1 DEF Console
<1> QED BY <1>2, <1>3 DEF d, m

\* ShowModal() returns: one box fewer.
LEMMA BoxClosed ==
    ASSUME NEW c \in Console
    PROVE  LET d == Closed(c)
           IN  /\ d \in Console /\ d.dialog = c.dialog /\ d.modalCount = c.modalCount - 1
               /\ d.ctx = c.ctx /\ d.callbacks = c.callbacks /\ d.alert = c.alert
               /\ d.label = c.label /\ d.status = c.status /\ d.runningMain = c.runningMain
               /\ d.waitingCached = c.waitingCached /\ d.waiting = c.waiting
               /\ d.timed = c.timed
<1> DEFINE m == c.modalCount - 1
           d == Closed(c)
<1>1. m \in Int /\ d = [c EXCEPT !.modalCount = m]
  BY DEF Console, Closed
<1> HIDE DEF m, d
<1>2. d \in Console
  BY <1>1 DEF Console
<1>3. /\ d.dialog = c.dialog /\ d.modalCount = m
      /\ d.ctx = c.ctx /\ d.callbacks = c.callbacks /\ d.alert = c.alert
      /\ d.label = c.label /\ d.status = c.status /\ d.runningMain = c.runningMain
      /\ d.waitingCached = c.waitingCached /\ d.waiting = c.waiting
      /\ d.timed = c.timed
  BY <1>1 DEF Console
<1> QED BY <1>2, <1>3 DEF d, m

LEMMA DialogFields ==
    ASSUME NEW c \in Console
    PROVE  LET d == [c EXCEPT !.dialog = 0]
           IN  /\ d \in Console /\ d.dialog = 0 /\ d.modalCount = c.modalCount
               /\ d.ctx = c.ctx /\ d.callbacks = c.callbacks /\ d.alert = c.alert
               /\ d.label = c.label /\ d.status = c.status /\ d.runningMain = c.runningMain
               /\ d.waitingCached = c.waitingCached /\ d.waiting = c.waiting
               /\ d.timed = c.timed
<1>1. [c EXCEPT !.dialog = 0] \in Console
  BY DEF Console
<1> QED BY <1>1 DEF Console

\* A call goes modal, and comes back.
Went(f, modal) == [f EXCEPT !.modal = modal, !.box = TRUE, !.answer = "none"]
Back(f) == [f EXCEPT !.box = FALSE, !.answer = "none",
                     !.modal = IF @ = "message" THEN "no" ELSE @]

LEMMA FrameFields ==
    ASSUME NEW f \in Frame
    PROVE  /\ \A a \in {"none", "ok", "cancel", "closed"} : [f EXCEPT !.answer = a] \in Frame
           /\ \A m \in {"message", "dialogue", "file"} : Went(f, m) \in Frame
           /\ Back(f) \in Frame
BY DEF Frame, Went, Back

\* modalDialogue() makes an entry, and counts.
Dialogued(c, e) == [c EXCEPT !.callbacks = @ \cup {e}, !.modalCount = @ + 1]

LEMMA DialogueOpened ==
    ASSUME NEW c \in Console, NEW e \in Entry
    PROVE  LET d == Dialogued(c, e)
           IN  /\ d \in Console /\ d.dialog = c.dialog /\ d.modalCount = c.modalCount + 1
               /\ d.ctx = c.ctx /\ d.callbacks = c.callbacks \cup {e} /\ d.alert = c.alert
               /\ d.label = c.label /\ d.status = c.status /\ d.runningMain = c.runningMain
               /\ d.waitingCached = c.waitingCached /\ d.waiting = c.waiting
               /\ d.timed = c.timed
<1> DEFINE m == c.modalCount + 1
           S == c.callbacks \cup {e}
           d == Dialogued(c, e)
<1>1. m \in Int /\ S \in SUBSET Entry /\ d = [c EXCEPT !.callbacks = S, !.modalCount = m]
  BY DEF Console, Dialogued
<1> HIDE DEF m, S, d
<1>2. d \in Console
  BY <1>1 DEF Console
<1>3. /\ d.callbacks = S /\ d.modalCount = m /\ d.dialog = c.dialog
      /\ d.ctx = c.ctx /\ d.alert = c.alert
      /\ d.label = c.label /\ d.status = c.status /\ d.runningMain = c.runningMain
      /\ d.waitingCached = c.waitingCached /\ d.waiting = c.waiting
      /\ d.timed = c.timed
  BY <1>1 DEF Console
<1> QED BY <1>2, <1>3 DEF d, m, S

\* The call that is suspended in a modal call.
LEMMA GoesModal ==
    ASSUME Typed, NEW modal \in {"message", "dialogue", "file"}, MayGoModal(modal)
    PROVE  /\ JSRunning /\ stack # <<>> /\ me \in Consoles /\ con[me] \in Console
           /\ Len(stack) \in DOMAIN stack /\ Len(stack) \in Nat /\ Top \in Frame
           /\ InModal(modal) = [stack EXCEPT ![Len(stack)] = Went(Top, modal)]
           /\ Typing(con, brief, queue, InModal(modal))
<1>1. JSRunning /\ stack # <<>>
  BY DEF MayGoModal, JS, JSRunning
<1>2. /\ me \in Consoles /\ con[me] \in Console
      /\ Len(stack) \in DOMAIN stack /\ Len(stack) \in Nat /\ Top \in Frame
  BY <1>1, RunTypes, TopType DEF Typed, Typing
<1>3. InModal(modal) = [stack EXCEPT ![Len(stack)] = Went(Top, modal)]
  BY <1>2 DEF InModal, Went, Top
<1>4. Typing(con, brief, queue, [stack EXCEPT ![Len(stack)] = Went(Top, modal)])
  BY <1>2, FrameFields, PartsTyped DEF Typed
<1> QED BY <1>1, <1>2, <1>3, <1>4

LEMMA MessageBoxTyped == Typed /\ MessageBox => Typed2
<1> SUFFICES ASSUME Typed, MessageBox PROVE Typed2
  OBVIOUS
<1> DEFINE x == Opened(con[me], Len(stack))
           s == InModal("message")
<1>1. MayGoModal("message") /\ Becomes([con EXCEPT ![me] = x], brief, queue, s)
  <2>1. MayGoModal("message")
    BY DEF MessageBox
  <2>2. con[me] \in Console /\ me \in Consoles
    BY <2>1, GoesModal
  <2> QED BY <2>1, <2>2 DEF MessageBox, Typed, Typing, Opened
<1>2. Typing(con, brief, queue, s) /\ x \in Console
  BY <1>1, GoesModal, BoxOpened
<1> HIDE DEF x, s
<1>3. Typing([con EXCEPT ![me] = x], brief, queue, s)
  BY <1>2, PartsTyped
<1> QED BY <1>1, <1>3, BecomesTyped DEF Typed

LEMMA ModalDialogueTyped == Typed /\ ModalDialogue => Typed2
<1> SUFFICES ASSUME Typed, ModalDialogue PROVE Typed2
  OBVIOUS
<1> DEFINE s == InModal("dialogue")
<1>1. MayGoModal("dialogue")
  BY DEF ModalDialogue
<1>2. PICK id \in FreeIds :
        Becomes([con EXCEPT ![me] = Dialogued(con[me], NewEntry(id, "CB_DIALOGUE"))],
                brief, queue, s)
  <2>1. con[me] \in Console /\ me \in Consoles
    BY <1>1, GoesModal
  <2> QED BY <2>1 DEF ModalDialogue, Typed, Typing, Dialogued
<1> DEFINE x == Dialogued(con[me], NewEntry(id, "CB_DIALOGUE"))
<1>3. Typing(con, brief, queue, s) /\ con[me] \in Console /\ JSRunning
  BY <1>1, GoesModal
<1>4. x \in Console
  BY <1>3, NewEntryTypes, DialogueOpened
<1> HIDE DEF x, s
<1>5. Typing([con EXCEPT ![me] = x], brief, queue, s)
  BY <1>3, <1>4, PartsTyped
<1> QED BY <1>2, <1>5, BecomesTyped DEF Typed, x

LEMMA FilePromptTyped == Typed /\ FilePrompt => Typed2
BY GoesModal, BecomesTyped DEF FilePrompt, Typed

LEMMA OnConsoleResultTyped ==
    Typed /\ (\E d \in Consoles, given \in Giving : OnConsoleResult(d, given)) => Typed2
<1> SUFFICES ASSUME Typed, NEW d \in Consoles, NEW given \in Giving, OnConsoleResult(d, given)
             PROVE  Typed2
  OBVIOUS
<1>1. JSRunning
  BY DEF OnConsoleResult, JS
<1>2. PICK id \in FreeIds :
        LET cs == [con EXCEPT ![me] = AddEntry(con[me], NewEntry(id, "CB_CONSOLE"))]
            bf == [has |-> given, callbackId |-> id, caller |-> me,
                   given |-> given, request |-> id]
        IN  \/ Throws(cs) \/ Throws([cs EXCEPT ![d] = AskedBusy(cs[d])])
            \/ Becomes([cs EXCEPT ![d] = AskedBusy(cs[d])], brief,
                       [queue EXCEPT ![d] = Append(queue[d], bf)], stack)
  <2>1. PICK id \in FreeIds :
          LET cs == [con EXCEPT ![me] = AddEntry(con[me], NewEntry(id, "CB_CONSOLE"))]
              bf == [has |-> given, callbackId |-> id, caller |-> me,
                     given |-> given, request |-> id]
          IN  CASE d \notin exists -> Throws(cs)
               [] d \in exists /\ IsBusy(cs[d]) -> Throws([cs EXCEPT ![d] = AskedBusy(cs[d])])
               [] OTHER -> Becomes([cs EXCEPT ![d] = AskedBusy(cs[d])], brief,
                                   [queue EXCEPT ![d] = Append(queue[d], bf)], stack)
    BY DEF OnConsoleResult
  <2> QED BY <2>1
<1> DEFINE e  == AddEntry(con[me], NewEntry(id, "CB_CONSOLE"))
           cs == [con EXCEPT ![me] = e]
           k  == AskedBusy(cs[d])
           bf == [has |-> given, callbackId |-> id, caller |-> me,
                  given |-> given, request |-> id]
           q  == Append(queue[d], bf)
<1>3. Throws(cs) \/ Throws([cs EXCEPT ![d] = k])
        \/ Becomes([cs EXCEPT ![d] = k], brief, [queue EXCEPT ![d] = q], stack)
  BY <1>2
<1>4. e \in Console /\ bf \in Brief
  BY <1>1, GivingAssumption, NewEntryTypes
<1> HIDE DEF e, bf
<1>5. cs \in [Consoles -> Console]
  BY <1>4 DEF Typed, Typing
<1> HIDE DEF cs
<1>6. k \in Console
  BY <1>5, AskedBusyFields DEF Alike
<1> HIDE DEF k
<1>7. q \in Seq(Brief)
  BY <1>4, AppendProperties DEF Typed, Typing
<1> HIDE DEF q
<1>8. Typing([cs EXCEPT ![d] = k], brief, queue, stack)
  BY <1>5, <1>6, PartsTyped DEF Typed, Typing
<1>9. Typing([cs EXCEPT ![d] = k], brief, [queue EXCEPT ![d] = q], stack)
  BY <1>7, <1>8, PartsTyped
<1>10. [cs EXCEPT ![d] = k] \in [Consoles -> Console]
  BY <1>8 DEF Typing
<1> QED BY <1>1, <1>3, <1>5, <1>9, <1>10, BecomesTyped, ThrowsTyped DEF Typed

LEMMA ConsoleRunTyped ==
    Typed /\ (\E d \in Consoles, given \in Giving : ConsoleRun(d, given)) => Typed2
<1> SUFFICES ASSUME Typed, NEW d \in Consoles, NEW given \in Giving, ConsoleRun(d, given)
             PROVE  Typed2
  OBVIOUS
<1> DEFINE f == [brief[d] EXCEPT !.has = @ \/ given, !.given = given, !.request = NoId]
           q == Append(queue[d], f)
<1>1. JSRunning
  BY DEF ConsoleRun, JS
<1>2. \/ Fails("noConsole") \/ Throws(con)
      \/ Becomes(con, [brief EXCEPT ![d] = f], [queue EXCEPT ![d] = q], stack)
  BY DEF ConsoleRun, Typed, Typing
<1>3. brief[d] \in Brief /\ queue[d] \in Seq(Brief) /\ given \in BOOLEAN
  BY GivingAssumption DEF Typed, Typing
<1>4. f \in Brief
  BY <1>3 DEF Brief
<1> HIDE DEF f
<1>5. q \in Seq(Brief)
  BY <1>3, <1>4, AppendProperties
<1> HIDE DEF q
<1>6. Typing(con, [brief EXCEPT ![d] = f], queue, stack)
  BY <1>4, PartsTyped DEF Typed
<1>7. Typing(con, [brief EXCEPT ![d] = f], [queue EXCEPT ![d] = q], stack)
  BY <1>5, <1>6, PartsTyped
<1>8. con \in [Consoles -> Console]
  BY DEF Typed, Typing
<1> QED BY <1>1, <1>2, <1>7, <1>8, BecomesTyped, ThrowsTyped, FailsTyped DEF Typed, Faults

LEMMA ConsoleBusyTyped == Typed /\ (\E d \in Consoles : ConsoleBusy(d)) => Typed2
<1> SUFFICES ASSUME Typed, NEW d \in Consoles, ConsoleBusy(d) PROVE Typed2
  OBVIOUS
<1>1. Becomes([con EXCEPT ![d] = AskedBusy(con[d])], brief, queue, stack)
  BY DEF ConsoleBusy, Sets
<1>2. AskedBusy(con[d]) \in Console
  BY AskedBusyFields DEF Typed, Typing, Alike
<1>3. Typing([con EXCEPT ![d] = AskedBusy(con[d])], brief, queue, stack)
  BY <1>2, PartsTyped DEF Typed
<1> QED BY <1>1, <1>3, BecomesTyped DEF Typed

LEMMA ConsoleAddTyped == Typed /\ (\E d \in Consoles : ConsoleAdd(d)) => Typed2
BY DEF ConsoleAdd, Typed, Typed2, Typing

LEMMA DeletedTyped ==
    ASSUME Typed, NEW cs \in [Consoles -> Console], NEW d \in Consoles, Deleted(cs, d)
    PROVE  Typed2 /\ exists' = exists \ {d}
<1>1. Typing(cs, brief, queue, stack)
  BY DEF Typed, Typing
<1>2. Typing([cs EXCEPT ![d] = NewConsole], brief, queue, stack)
  BY <1>1, NewConsoleFields, PartsTyped
<1>3. Typing([cs EXCEPT ![d] = NewConsole], [brief EXCEPT ![d] = NoBrief], queue, stack)
  BY <1>2, NoBriefType, PartsTyped
<1>4. <<>> \in Seq(Brief)
  BY EmptySeq
<1>5. Typing([cs EXCEPT ![d] = NewConsole], [brief EXCEPT ![d] = NoBrief],
             [queue EXCEPT ![d] = <<>>], stack)
  BY <1>3, <1>4, PartsTyped
<1> QED BY <1>5, BecomesTyped DEF Deleted, Typed

LEMMA CloseBoxTyped == Typed /\ (\E d \in Consoles : CloseBox(d)) => Typed2
<1> SUFFICES ASSUME Typed, NEW d \in Consoles, CloseBox(d) PROVE Typed2
  OBVIOUS
<1>1. \/ Becomes([con EXCEPT ![d] = AskedBusy(con[d])], brief, queue, stack)
      \/ Deleted(con, d)
  BY DEF CloseBox, Sets
<1>2. AskedBusy(con[d]) \in Console
  BY AskedBusyFields DEF Typed, Typing, Alike
<1>3. Typing([con EXCEPT ![d] = AskedBusy(con[d])], brief, queue, stack)
  BY <1>2, PartsTyped DEF Typed
<1> QED BY <1>1, <1>3, BecomesTyped, DeletedTyped DEF Typed, Typing

LEMMA ConsoleCloseTyped == Typed /\ (\E d \in Consoles : ConsoleClose(d)) => Typed2
<1> SUFFICES ASSUME Typed, NEW d \in Consoles, ConsoleClose(d) PROVE Typed2
  OBVIOUS
<1> DEFINE boxed == con[d].dialog # 0
           cs == IF boxed THEN con ELSE [con EXCEPT ![d] = ClearCallbacks(@)]
           n  == con[d].dialog
           s  == IF boxed THEN [stack EXCEPT ![n].answer = "closed"] ELSE stack
           x  == AskedBusy(cs[d])
           cs1 == [cs EXCEPT ![d] = x]
           y  == PrepForThrow(cs1[me])
<1>1. JSRunning
  BY DEF ConsoleClose
<1>2. ClearCallbacks(con[d]) \in Console
  BY ClearedFields DEF Typed, Typing
<1>3. cs \in [Consoles -> Console]
  BY <1>2 DEF Typed, Typing
<1>4. s \in Seq(Frame)
  <2>1. CASE n \in DOMAIN stack
    <3>1. stack[n] \in Frame
      BY <2>1, ElementOfSeq, LenProperties DEF Typed, Typing
    <3>2. [stack[n] EXCEPT !.answer = "closed"] \in Frame
      BY <3>1, FrameFields
    <3>3. [stack EXCEPT ![n] = [stack[n] EXCEPT !.answer = "closed"]] \in Seq(Frame)
      BY <2>1, <3>2, FrameChanged DEF Typed, Typing
    <3> QED BY <3>3 DEF Typed, Typing
  <2>2. CASE n \notin DOMAIN stack
    <3>1. stack \in [DOMAIN stack -> Frame]
      BY ElementOfSeq, LenProperties DEF Typed, Typing
    <3>2. [stack EXCEPT ![n].answer = "closed"] = stack
      BY <2>2, <3>1
    <3> QED BY <3>2 DEF Typed, Typing
  <2> QED BY <2>1, <2>2
<1>5. \/ CallEnds([cs EXCEPT ![d] = AskedBusy(@), ![me] = PrepForThrow(@)], brief, s, TRUE)
      \/ Deleted(cs, d) \/ Fails("consoleInUse")
  BY DEF ConsoleClose
<1> HIDE DEF cs, s
<1>6. x \in Console
  BY <1>3, AskedBusyFields DEF Alike
<1>7. cs1 \in [Consoles -> Console]
  BY <1>3, <1>6
<1>8. y \in Console
  BY <1>1, <1>7, RunTypes, RunningFields DEF PrepForThrow, Alike
<1>9. [cs EXCEPT ![d] = AskedBusy(@), ![me] = PrepForThrow(@)] = [cs1 EXCEPT ![me] = y]
  <2>1. d # me
    BY DEF ConsoleClose
  <2>2. cs1[me] = cs[me] /\ me \in Consoles
    BY <1>1, <1>3, <2>1, RunTypes
  <2> QED BY <1>3, <2>1, <2>2
<1> HIDE DEF cs1, y, x
<1>10. [cs1 EXCEPT ![me] = y] \in [Consoles -> Console]
  BY <1>7, <1>8
<1>11. Typing([cs1 EXCEPT ![me] = y], brief, queue, s)
  BY <1>4, <1>10 DEF Typed, Typing
<1> QED BY <1>1, <1>3, <1>5, <1>9, <1>11, CallEndsTyped, DeletedTyped, FailsTyped, RunTypes
        DEF Faults

LEMMA RunScriptTyped ==
    ASSUME Typed, NEW c \in Consoles, NEW f \in Brief, NEW qs \in [Consoles -> Seq(Brief)],
           RunScript(c, [brief EXCEPT ![c] = f], qs)
    PROVE  Typed2
<1> DEFINE k == BeforeMain(con[c], c)
<1>1. k \in Console
  BY BeforeMainFields DEF Typed, Typing
<1> HIDE DEF k
<1>2. Timed(con, c, k) \in [Consoles -> Console]
  BY <1>1, TimedTyped DEF Typed, Typing
<1>3. Append(stack, NewFrame(c, "main")) \in Seq(Frame)
  BY FrameTypes, AppendProperties DEF Typed, Typing
<1>4. Typing(Timed(con, c, k), brief, qs, Append(stack, NewFrame(c, "main")))
  BY <1>2, <1>3 DEF Typed, Typing
<1>5. Typing(Timed(con, c, k), [brief EXCEPT ![c] = f], qs, Append(stack, NewFrame(c, "main")))
  BY <1>4, PartsTyped
<1> QED BY <1>5, BecomesTyped DEF RunScript, Typed, k

LEMMA StopRunTyped ==
    ASSUME Typed, NEW c \in Consoles, NEW bs \in [Consoles -> Brief],
           NEW qs \in [Consoles -> Seq(Brief)], StopRun(c, bs, qs)
    PROVE  Typed2
<1> DEFINE k == [con[c] EXCEPT !.status = {}]
<1>1. k \in Console
  BY StatusFields DEF Typed, Typing, Alike
<1>2. WrapUp([con EXCEPT ![c] = k], bs, qs, stack, c, "STOPPED")
  BY DEF StopRun
<1> HIDE DEF k
<1>3. Typing(con, bs, qs, stack)
  BY DEF Typed, Typing
<1>4. Typing([con EXCEPT ![c] = k], bs, qs, stack)
  BY <1>1, <1>3, PartsTyped
<1> QED BY <1>2, <1>4, WrapUpTyped DEF Completions

LEMMA RunClickedTyped == Typed /\ (\E c \in Consoles : RunClicked(c)) => Typed2
<1> SUFFICES ASSUME Typed, NEW c \in Consoles, RunClicked(c) PROVE Typed2
  OBVIOUS
<1> DEFINE f == [brief[c] EXCEPT !.has = FALSE]
           g == [f EXCEPT !.given = FALSE, !.request = NoId]
<1>1. RunScript(c, [brief EXCEPT ![c] = g], queue) \/ StopRun(c, [brief EXCEPT ![c] = f], queue)
  BY DEF RunClicked
<1>2. f \in Brief
  BY DEF Typed, Typing, Brief
<1> HIDE DEF f
<1>3. g \in Brief
  BY <1>2 DEF Brief
<1> HIDE DEF g
<1>4. [brief EXCEPT ![c] = f] \in [Consoles -> Brief] /\ queue \in [Consoles -> Seq(Brief)]
  BY <1>2 DEF Typed, Typing
<1> QED BY <1>1, <1>3, <1>4, RunScriptTyped, StopRunTyped

LEMMA RunQueuedTyped == Typed /\ (\E c \in Consoles : RunQueued(c)) => Typed2
<1> SUFFICES ASSUME Typed, NEW c \in Consoles, RunQueued(c) PROVE Typed2
  OBVIOUS
<1> DEFINE qs == [queue EXCEPT ![c] = Tail(queue[c])]
<1>1. \/ RunScript(c, [brief EXCEPT ![c] = Head(queue[c])], qs)
      \/ StopRun(c, brief, qs)
  BY DEF RunQueued
<1>2. Head(queue[c]) \in Brief /\ Tail(queue[c]) \in Seq(Brief)
  BY HeadTailProperties DEF RunQueued, Typed, Typing
<1>3. qs \in [Consoles -> Seq(Brief)]
  BY <1>2 DEF Typed, Typing
<1> QED BY <1>1, <1>2, <1>3, RunScriptTyped, StopRunTyped DEF Typed, Typing

LEMMA TimerFiresTyped == Typed /\ (\E c \in Consoles : TimerFires(c)) => Typed2
<1> SUFFICES ASSUME Typed, NEW c \in Consoles, TimerFires(c) PROVE Typed2
  OBVIOUS
<1>1. PICK e \in con[c].callbacks :
        Becomes(Timed(con, c, BeforeCall(TakeEntry(con[c], e))), brief, queue,
                Append(stack, NewFrame(c, "callback")))
  BY DEF TimerFires
<1> DEFINE k == BeforeCall(TakeEntry(con[c], e))
<1>2. TakeEntry(con[c], e) \in Console
  BY EntriesFields DEF TakeEntry, Typed, Typing
<1>3. k \in Console
  BY <1>2, BeforeCallFields DEF Alike
<1> HIDE DEF k
<1>4. Timed(con, c, k) \in [Consoles -> Console]
  BY <1>3, TimedTyped DEF Typed, Typing
<1>5. Append(stack, NewFrame(c, "callback")) \in Seq(Frame)
  BY FrameTypes, AppendProperties DEF Typed, Typing
<1>6. Typing(Timed(con, c, k), brief, queue, Append(stack, NewFrame(c, "callback")))
  BY <1>4, <1>5 DEF Typed, Typing
<1> QED BY <1>1, <1>6, BecomesTyped DEF Typed, k

LEMMA MessageButtonTyped ==
    Typed /\ (\E a \in {"ok", "cancel"} : MessageButton(a)) => Typed2
<1> SUFFICES ASSUME Typed, NEW a \in {"ok", "cancel"}, MessageButton(a) PROVE Typed2
  OBVIOUS
<1> DEFINE f == [Top EXCEPT !.answer = a]
<1>1. stack # <<>> /\ Becomes(con, brief, queue, [stack EXCEPT ![Len(stack)] = f])
  BY DEF MessageButton, Top
<1>2. Top \in Frame /\ Len(stack) \in DOMAIN stack
  BY <1>1, TopType DEF Typed, Typing
<1>3. f \in Frame
  BY <1>2, FrameFields
<1>4. Typing(con, brief, queue, [stack EXCEPT ![Len(stack)] = f])
  BY <1>2, <1>3, PartsTyped DEF Typed
<1> QED BY <1>1, <1>4, BecomesTyped DEF Typed

LEMMA DialogueButtonTyped == Typed /\ DialogueButton => Typed2
<1> SUFFICES ASSUME Typed, DialogueButton PROVE Typed2
  OBVIOUS
<1> DEFINE f == [Top EXCEPT !.answer = "ok"]
           x == RemoveEntries(con[me], {e \in con[me].callbacks : e.type = "CB_DIALOGUE"})
<1>1. stack # <<>>
  BY DEF DialogueButton
<1>2. Top \in Frame /\ Len(stack) \in DOMAIN stack /\ me \in Consoles /\ con[me] \in Console
  BY <1>1, TopType DEF Typed, Typing
<1>3. \/ Fails("noEntry")
      \/ Becomes([con EXCEPT ![me] = x], brief, queue, [stack EXCEPT ![Len(stack)] = f])
  BY <1>2 DEF DialogueButton, Top, Typed, Typing
<1>4. f \in Frame /\ x \in Console
  BY <1>2, FrameFields, EntriesFields
<1> HIDE DEF f, x
<1>5. Typing([con EXCEPT ![me] = x], brief, queue, stack)
  BY <1>4, PartsTyped DEF Typed
<1>6. Typing([con EXCEPT ![me] = x], brief, queue, [stack EXCEPT ![Len(stack)] = f])
  BY <1>2, <1>4, <1>5, PartsTyped
<1> QED BY <1>3, <1>6, BecomesTyped, FailsTyped DEF Typed, Faults

LEMMA BoxReturnsTyped == Typed /\ BoxReturns => Typed2
<1> SUFFICES ASSUME Typed, BoxReturns PROVE Typed2
  OBVIOUS
<1> DEFINE c == IF Top.modal = "file" THEN con[me] ELSE Closed(con[me])
           f == Back(Top)
           s == [stack EXCEPT ![Len(stack)] = f]
           closing == IF Top.answer = "closed" THEN {"CLOSING"} ELSE {}
           S == c.status \cup closing
           d == [c EXCEPT !.status = S]
           x == StartTimeout([c EXCEPT !.dialog = 0])
           y == PrepForThrow(d)
<1>1. \/ Becomes(Timed(con, me, x), brief, queue, s)
      \/ Becomes([con EXCEPT ![me] = c], brief, queue, s)
      \/ CallEnds([con EXCEPT ![me] = y], brief, s, TRUE)
  BY DEF BoxReturns, Top, Closed, Back
<1>2. /\ stack # <<>> /\ me \in Consoles /\ Top \in Frame /\ Len(stack) \in DOMAIN stack
      /\ con[me] \in Console /\ stack \in Seq(Frame)
  BY TopType DEF BoxReturns, Typed, Typing
<1>3. f \in Frame
  BY <1>2, FrameFields
<1>4. s \in Seq(Frame)
  BY <1>2, <1>3, FrameChanged
<1>5. c \in Console
  BY <1>2, BoxClosed
<1> HIDE DEF c, f, s
<1>6. S \in SUBSET Completions
  BY <1>5 DEF Console, Completions
<1> HIDE DEF S
<1>7. d \in Console
  BY <1>5, <1>6, StatusFields DEF Alike
<1> HIDE DEF d
<1>8. y \in Console
  BY <1>7, RunningFields DEF PrepForThrow, Alike
<1>9. x \in Console
  BY <1>5, DialogFields, TimeoutFields DEF Alike
<1> HIDE DEF x, y
<1>10. Timed(con, me, x) \in [Consoles -> Console]
  BY <1>9, TimedTyped DEF Typed, Typing
<1>11. Typing(Timed(con, me, x), brief, queue, s) /\ Typing(con, brief, queue, s)
  BY <1>4, <1>10 DEF Typed, Typing
<1>12. Typing([con EXCEPT ![me] = y], brief, queue, s)
       /\ Typing([con EXCEPT ![me] = c], brief, queue, s)
  BY <1>5, <1>8, <1>11, PartsTyped
<1> QED BY <1>1, <1>2, <1>11, <1>12, BecomesTyped, CallEndsTyped DEF Typed

-----------------------------------------------------------------------------
\* Nothing but consoles is ever added to the consoles.
LEMMA ExistsTyped == Typed /\ Next => exists' \subseteq Consoles
<1> SUFFICES ASSUME Typed, Next PROVE exists' \subseteq Consoles
  OBVIOUS
<1>1. exists \subseteq Consoles
  BY DEF Typed
<1>2. CASE UNCHANGED exists
  BY <1>1, <1>2
<1>3. ASSUME NEW d \in Consoles, exists' = exists \ {d} \/ exists' = exists \cup {d}
      PROVE  exists' \subseteq Consoles
  BY <1>1, <1>3
<1>4. \/ UNCHANGED exists
      \/ \E d \in Consoles : exists' = exists \ {d} \/ exists' = exists \cup {d}
  BY DEF Next, Return, Error, Timeout, StopScript, OnSeconds, GetBrief, CancelRequest,
         MessageBox, ModalDialogue, FilePrompt, MayGoModal, ChainScript, OnConsoleResult,
         ConsoleRun, ConsoleBusy, ConsoleAdd, ConsoleClose, CloseBox, RunClicked, RunQueued,
         TimerFires, MessageButton, DialogueButton, BoxReturns, JS, Event, Deleted
<1> QED BY <1>2, <1>3, <1>4

LEMMA InitTyped == Init => Typed
<1> SUFFICES ASSUME Init PROVE Typed
  OBVIOUS
<1>1. con \in [Consoles -> Console]
  BY NewConsoleFields DEF Init
<1>2. brief \in [Consoles -> Brief]
  BY NoBriefType DEF Init
<1>3. <<>> \in Seq(Brief) /\ <<>> \in Seq(Frame)
  BY EmptySeq
<1> QED BY <1>1, <1>2, <1>3 DEF Init, Typed, Typing, Faults

\* Every step keeps the types, whatever scripts do.
LEMMA NextTyped == Typed /\ [Next]_vars => Typed'
<1> SUFFICES ASSUME Typed, [Next]_vars PROVE Typed'
  OBVIOUS
<1>1. CASE UNCHANGED vars
  BY <1>1 DEF vars, Typed, Typing
<1>2. ASSUME Next PROVE Typed2
  <2>1. CASE Return \/ Error \/ Timeout \/ StopScript \/ OnSeconds
    BY <2>1, ReturnTyped, ErrorTyped, TimeoutTyped, StopScriptTyped, OnSecondsTyped
  <2>2. CASE GetBrief \/ CancelRequest \/ MessageBox \/ BoxReturns
    BY <2>2, GetBriefTyped, CancelRequestTyped, MessageBoxTyped, BoxReturnsTyped
  <2>3. CASE \E given \in Giving : ChainScript(given)
    BY <2>3, ChainScriptTyped
  <2>4. CASE \E d \in Consoles, given \in Giving : OnConsoleResult(d, given)
    BY <2>4, OnConsoleResultTyped
  <2>5. CASE \E d \in Consoles, given \in Giving : ConsoleRun(d, given)
    BY <2>5, ConsoleRunTyped
  <2>6. CASE \E d \in Consoles : ConsoleBusy(d)
    BY <2>6, ConsoleBusyTyped
  <2>7. CASE \E d \in Consoles : ConsoleAdd(d)
    BY <2>7, ConsoleAddTyped
  <2>8. CASE \E d \in Consoles : ConsoleClose(d)
    BY <2>8, ConsoleCloseTyped
  <2>9. CASE \E d \in Consoles : CloseBox(d)
    BY <2>9, CloseBoxTyped
  <2>10. CASE \E c \in Consoles : RunClicked(c)
    BY <2>10, RunClickedTyped
  <2>11. CASE \E c \in Consoles : RunQueued(c)
    BY <2>11, RunQueuedTyped
  <2>12. CASE \E c \in Consoles : TimerFires(c)
    BY <2>12, TimerFiresTyped
  <2>13. CASE MessageButton("ok") \/ MessageButton("cancel")
    BY <2>13, MessageButtonTyped
  <2>14. CASE ModalDialogue \/ FilePrompt \/ DialogueButton
    BY <2>14, ModalDialogueTyped, FilePromptTyped, DialogueButtonTyped
  <2> QED BY <1>2, <2>1, <2>2, <2>3, <2>4, <2>5, <2>6, <2>7, <2>8, <2>9, <2>10, <2>11,
             <2>12, <2>13, <2>14 DEF Next
<1>3. ASSUME Next PROVE Typed'
  <2>1. exists' \subseteq Consoles
    BY <1>3, ExistsTyped
  <2> QED BY <1>2, <1>3, <2>1 DEF Typed, Typed2, Typing
<1> QED BY <1>1, <1>3

\* Whatever the scripts do, and however they are interrupted, the consoles,
\* briefs, queues and calls have their types.
THEOREM AlwaysTyped == Spec => []Typed
BY InitTyped, NextTyped, PTL DEF Spec

-----------------------------------------------------------------------------
(***************************************************************************)
(* Requests.  A step changes what is awaited, aw, the scripts that live,   *)
(* lv, the briefs, bs, and the queues, qs, and keeps Requests because it   *)
(* adds no request, or one with an id that nothing has, of a console that  *)
(* awaits nothing itself.                                                  *)
(***************************************************************************)

\* No entry that is awaited has the id.
Unawaited(aw, id) == \A a \in Consoles : \A e \in aw[a] : e.id # id

\* Each brief is one there was, or one that answers nobody.
BriefsStay(aw2, bs, qs, bs2, qs2) ==
    \A b \in Consoles : \A f2 \in BriefsOf(bs2, qs2, b) :
        \/ f2.callbackId = NoId
        \/ \E f \in BriefsOf(bs, qs, b) :
             /\ f.callbackId = f2.callbackId /\ f.caller = f2.caller
             /\ f.request = f2.request \/ Unawaited(aw2, f2.callbackId)

\* The same consoles will answer what is still awaited.
DebtsStay(aw2, lv, bs, qs, lv2, bs2, qs2) ==
    \A a, b \in Consoles : \A e \in aw2[a] :
        OwesIn(lv2, bs2, qs2, b, a, e.id) <=> OwesIn(lv, bs, qs, b, a, e.id)

\* What is awaited, and owed, is some of what was.
NothingAsked(aw, lv, bs, qs, aw2, lv2, bs2, qs2) ==
    /\ \A a \in Consoles : aw2[a] \subseteq aw[a]
    /\ BriefsStay(aw2, bs, qs, bs2, qs2)
    /\ DebtsStay(aw2, lv, bs, qs, lv2, bs2, qs2)

\* Requests survive entries and briefs that go, and briefs that move.
LEMMA RequestsStay ==
    ASSUME NEW aw \in [Consoles -> SUBSET Entry], NEW lv, NEW bs, NEW qs,
           NEW aw2, NEW lv2, NEW bs2, NEW qs2,
           Requests(aw, lv, bs, qs), NothingAsked(aw, lv, bs, qs, aw2, lv2, bs2, qs2)
    PROVE  Requests(aw2, lv2, bs2, qs2)
<1> USE DEF Requests, NothingAsked
<1>1. IdsAreUnique(aw2)
  BY DEF IdsAreUnique
<1>2. OneIsAsked(bs2, qs2)
  <2> SUFFICES ASSUME NEW b1 \in Consoles, NEW b2 \in Consoles,
                      NEW f1 \in BriefsOf(bs2, qs2, b1), NEW f2 \in BriefsOf(bs2, qs2, b2),
                      f1.callbackId = f2.callbackId, f1.callbackId # NoId
               PROVE  b1 = b2
    BY DEF OneIsAsked
  <2>1. PICK g1 \in BriefsOf(bs, qs, b1) : g1.callbackId = f1.callbackId
    BY DEF BriefsStay
  <2>2. PICK g2 \in BriefsOf(bs, qs, b2) : g2.callbackId = f2.callbackId
    BY DEF BriefsStay
  <2> QED BY <2>1, <2>2 DEF OneIsAsked
<1>3. BriefsAreOwed(aw2, lv2, bs2, qs2)
  <2> SUFFICES ASSUME NEW b \in Consoles, NEW f2 \in BriefsOf(bs2, qs2, b),
                      NEW a \in Consoles, NEW e \in aw2[a], f2.callbackId = e.id
               PROVE  /\ e.type = "CB_CONSOLE" /\ f2.caller = a /\ f2.request = e.id
                      /\ OwesIn(lv2, bs2, qs2, b, a, e.id)
    BY DEF BriefsAreOwed
  <2>1. e \in aw[a] /\ e.id # NoId
    BY ConsolesAssumption DEF Entry
  <2>2. ~Unawaited(aw2, f2.callbackId)
    BY DEF Unawaited
  <2>3. PICK f \in BriefsOf(bs, qs, b) :
          f.callbackId = f2.callbackId /\ f.caller = f2.caller /\ f.request = f2.request
    BY <2>1, <2>2 DEF BriefsStay
  <2>4. /\ e.type = "CB_CONSOLE" /\ f.caller = a /\ f.request = e.id
        /\ OwesIn(lv, bs, qs, b, a, e.id)
    BY <2>1, <2>3 DEF BriefsAreOwed
  <2> QED BY <2>3, <2>4 DEF DebtsStay
<1>4. SomebodyOwes(aw2, lv2, bs2, qs2)
  <2> SUFFICES ASSUME NEW a \in Consoles, NEW e \in aw2[a], e.type = "CB_CONSOLE"
               PROVE  \E b \in Consoles : OwesIn(lv2, bs2, qs2, b, a, e.id)
    BY DEF SomebodyOwes
  <2>1. PICK b \in Consoles : OwesIn(lv, bs, qs, b, a, e.id)
    BY DEF SomebodyOwes
  <2> QED BY <2>1 DEF DebtsStay
<1>5. NoCircle(aw2, lv2, bs2, qs2)
  <2>1. ASSUME NEW a \in Consoles, NEW b \in Consoles, AwaitsIn(aw2, lv2, bs2, qs2, a, b)
        PROVE  AwaitsIn(aw, lv, bs, qs, a, b)
    BY <2>1 DEF AwaitsIn, DebtsStay
  <2> SUFFICES ASSUME NEW S \in (SUBSET Consoles) \ {{}}
               PROVE  \E a \in S : \A b \in S : ~AwaitsIn(aw2, lv2, bs2, qs2, a, b)
    BY DEF NoCircle
  <2>2. PICK a \in S : \A b \in S : ~AwaitsIn(aw, lv, bs, qs, a, b)
    BY DEF NoCircle
  <2> QED BY <2>1, <2>2
<1> QED BY <1>1, <1>2, <1>3, <1>4, <1>5

\* A timer, or a modal dialogue, is asked of nobody.
LEMMA TimerAdded ==
    ASSUME NEW aw \in [Consoles -> SUBSET Entry], NEW lv, NEW bs, NEW qs,
           Requests(aw, lv, bs, qs), NEW c \in Consoles, NEW e \in Entry,
           e.type # "CB_CONSOLE", Unawaited(aw, e.id),
           \A b \in Consoles : \A f \in BriefsOf(bs, qs, b) : f.callbackId # e.id,
           NEW aw2, aw2 = [aw EXCEPT ![c] = @ \cup {e}]
    PROVE  Requests(aw2, lv, bs, qs)
<1> USE DEF Requests
<1>1. \A a \in Consoles : aw2[a] = IF a = c THEN aw[a] \cup {e} ELSE aw[a]
  OBVIOUS
<1>2. \A a \in Consoles : \A x \in aw2[a] : x \in aw[a] \/ (a = c /\ x = e)
  BY <1>1
<1>3. IdsAreUnique(aw2)
  BY <1>2 DEF IdsAreUnique, Unawaited
<1>4. OneIsAsked(bs, qs)
  OBVIOUS
<1>5. BriefsAreOwed(aw2, lv, bs, qs)
  BY <1>2 DEF BriefsAreOwed
<1>6. SomebodyOwes(aw2, lv, bs, qs)
  BY <1>2 DEF SomebodyOwes
<1>7. NoCircle(aw2, lv, bs, qs)
  <2>1. \A a, b \in Consoles : AwaitsIn(aw2, lv, bs, qs, a, b) => AwaitsIn(aw, lv, bs, qs, a, b)
    BY <1>2 DEF AwaitsIn
  <2> QED BY <2>1 DEF NoCircle
<1> QED BY <1>3, <1>4, <1>5, <1>6, <1>7

\* c asks d, which awaits nothing, for e with the brief f.
NewRequest(aw, lv, bs, qs, c, d, e, f, aw2, qs2) ==
    /\ aw \in [Consoles -> SUBSET Entry] /\ Requests(aw, lv, bs, qs)
    /\ c \in Consoles /\ d \in Consoles /\ c # d /\ aw[d] = {}
    /\ e \in Entry /\ e.type = "CB_CONSOLE" /\ Unawaited(aw, e.id)
    /\ \A b \in Consoles : \A g \in BriefsOf(bs, qs, b) : g.callbackId # e.id
    /\ f \in Brief /\ f.callbackId = e.id /\ f.caller = c /\ f.request = e.id
    /\ aw2 = [aw EXCEPT ![c] = @ \cup {e}]
    /\ qs \in [Consoles -> Seq(Brief)] /\ qs2 = [qs EXCEPT ![d] = Append(@, f)]

\* A new request is asked of a console that awaits nothing, and closes no circle.
LEMMA RequestAdded ==
    ASSUME NEW aw, NEW lv, NEW bs, NEW qs, NEW c, NEW d, NEW e, NEW f, NEW aw2, NEW qs2,
           NewRequest(aw, lv, bs, qs, c, d, e, f, aw2, qs2)
    PROVE  Requests(aw2, lv, bs, qs2)
<1> USE DEF Requests, NewRequest
<1>1. \A a \in Consoles : aw2[a] = IF a = c THEN aw[a] \cup {e} ELSE aw[a]
  OBVIOUS
<1>2. \A a \in Consoles : \A x \in aw2[a] : x \in aw[a] \/ (a = c /\ x = e)
  BY <1>1
<1>3. /\ qs2[d] = Append(qs[d], f)
      /\ \A b \in Consoles : b # d => qs2[b] = qs[b]
  OBVIOUS
<1>4. /\ DOMAIN qs[d] = 1..Len(qs[d]) /\ DOMAIN qs2[d] = 1..(Len(qs[d]) + 1)
      /\ Len(qs[d]) \in Nat /\ qs2[d][Len(qs[d]) + 1] = f
      /\ \A i \in DOMAIN qs[d] : qs2[d][i] = qs[d][i]
  BY <1>3, AppendProperties, LenProperties
<1>5. \A i \in DOMAIN qs2[d] : qs2[d][i] = f \/ (i \in DOMAIN qs[d] /\ qs2[d][i] = qs[d][i])
  BY <1>4
<1>6. \A i \in DOMAIN qs[d] : i \in DOMAIN qs2[d]
  BY <1>4
<1>7. \A b \in Consoles : \A g \in BriefsOf(bs, qs2, b) :
        g \in BriefsOf(bs, qs, b) \/ (b = d /\ g = f)
  BY <1>3, <1>5 DEF BriefsOf
<1>8. \E i \in DOMAIN qs2[d] : qs2[d][i] = f
  <2>1. Len(qs[d]) + 1 \in DOMAIN qs2[d]
    BY <1>4
  <2> QED BY <1>4, <2>1
<1>9. \A a, b \in Consoles : \A id :
        /\ OwesIn(lv, bs, qs, b, a, id) => OwesIn(lv, bs, qs2, b, a, id)
        /\ OwesIn(lv, bs, qs2, b, a, id) =>
             OwesIn(lv, bs, qs, b, a, id) \/ (b = d /\ id = e.id)
  <2> SUFFICES ASSUME NEW a \in Consoles, NEW b \in Consoles, NEW id
               PROVE  /\ OwesIn(lv, bs, qs, b, a, id) => OwesIn(lv, bs, qs2, b, a, id)
                      /\ OwesIn(lv, bs, qs2, b, a, id) =>
                           OwesIn(lv, bs, qs, b, a, id) \/ (b = d /\ id = e.id)
    OBVIOUS
  <2>1. CASE b # d
    BY <1>3, <2>1 DEF OwesIn
  <2>2. CASE b = d
    BY <1>4, <1>5, <1>6, <2>2 DEF OwesIn
  <2> QED BY <2>1, <2>2
<1>10. OwesIn(lv, bs, qs2, d, c, e.id)
  BY <1>8 DEF OwesIn
<1>11. \A a, b \in Consoles : ~OwesIn(lv, bs, qs, b, a, e.id)
  BY DEF OwesIn, BriefsOf
<1>12. IdsAreUnique(aw2)
  BY <1>2 DEF IdsAreUnique, Unawaited
<1>13. OneIsAsked(bs, qs2)
  BY <1>7 DEF OneIsAsked
<1>14. BriefsAreOwed(aw2, lv, bs, qs2)
  <2> SUFFICES ASSUME NEW b \in Consoles, NEW g \in BriefsOf(bs, qs2, b),
                      NEW a \in Consoles, NEW x \in aw2[a], g.callbackId = x.id
               PROVE  /\ x.type = "CB_CONSOLE" /\ g.caller = a /\ g.request = x.id
                      /\ OwesIn(lv, bs, qs2, b, a, x.id)
    BY DEF BriefsAreOwed
  <2>1. CASE x \in aw[a] /\ g \in BriefsOf(bs, qs, b)
    <3>1. /\ x.type = "CB_CONSOLE" /\ g.caller = a /\ g.request = x.id
          /\ OwesIn(lv, bs, qs, b, a, x.id)
      BY <2>1 DEF BriefsAreOwed
    <3> QED BY <1>9, <3>1
  <2>2. CASE x \in aw[a] /\ g = f
    BY <2>2 DEF Unawaited
  <2>3. CASE a = c /\ x = e
    BY <1>7, <1>10, <2>3
  <2> QED BY <1>2, <1>7, <2>1, <2>2, <2>3
<1>15. SomebodyOwes(aw2, lv, bs, qs2)
  <2> SUFFICES ASSUME NEW a \in Consoles, NEW x \in aw2[a], x.type = "CB_CONSOLE"
               PROVE  \E b \in Consoles : OwesIn(lv, bs, qs2, b, a, x.id)
    BY DEF SomebodyOwes
  <2>1. CASE x \in aw[a]
    <3>1. PICK b \in Consoles : OwesIn(lv, bs, qs, b, a, x.id)
      BY <2>1 DEF SomebodyOwes
    <3> QED BY <1>9, <3>1
  <2>2. CASE a = c /\ x = e
    BY <1>10, <2>2
  <2> QED BY <1>2, <2>1, <2>2
<1>16. NoCircle(aw2, lv, bs, qs2)
  <2> SUFFICES ASSUME NEW S \in (SUBSET Consoles) \ {{}}
               PROVE  \E a \in S : \A b \in S : ~AwaitsIn(aw2, lv, bs, qs2, a, b)
    BY DEF NoCircle
  <2>1. CASE d \in S
    <3>1. \A b \in S : ~AwaitsIn(aw2, lv, bs, qs2, d, b)
      BY <1>1 DEF AwaitsIn
    <3> QED BY <2>1, <3>1
  <2>2. CASE d \notin S
    <3>1. PICK a \in S : \A b \in S : ~AwaitsIn(aw, lv, bs, qs, a, b)
      BY DEF NoCircle
    <3>2. ASSUME NEW b \in S, AwaitsIn(aw2, lv, bs, qs2, a, b) PROVE FALSE
      <4>1. PICK x \in aw2[a] : x.type = "CB_CONSOLE" /\ OwesIn(lv, bs, qs2, b, a, x.id)
        BY <3>2 DEF AwaitsIn
      <4>2. OwesIn(lv, bs, qs, b, a, x.id)
        BY <1>9, <2>2, <4>1
      <4>3. x \in aw[a]
        BY <1>2, <1>11, <4>2
      <4> QED BY <3>1, <4>1, <4>2, <4>3 DEF AwaitsIn
    <3> QED BY <3>1, <3>2
  <2> QED BY <2>1, <2>2
<1> QED BY <1>12, <1>13, <1>14, <1>15, <1>16
=============================================================================
