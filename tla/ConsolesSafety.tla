--------------------------- MODULE ConsolesSafety ---------------------------
(***************************************************************************)
(* The inductive invariant of Consoles, step by step, and the safety that  *)
(* follows from it, for every number of consoles and of ids, for scripts   *)
(* that follow none of the hazardous practices.                            *)
(***************************************************************************)
EXTENDS ConsolesProofs

-----------------------------------------------------------------------------
(* Consoles that a step leaves as they were *)

\* What Sound says of a console is the same of another, asked or timed since.
Steady(c, c2) ==
    /\ c2.ctx = c.ctx /\ c2.alert = c.alert /\ c2.callbacks = c.callbacks
    /\ c2.dialog = c.dialog /\ c2.label = c.label
    /\ c2.runningMain = c.runningMain /\ c2.modalCount = c.modalCount
    /\ c2.status \cap Interrupts \subseteq c.status
    /\ Unheard(c2) => c.ctx = NoConsole \/ Unheard(c) \/ Unasking(c)

\* The calls of console d are as they were.
SameFrames(s, s2, d) ==
    \A i : /\ (i \in DOMAIN s /\ s[i].con = d) <=> (i \in DOMAIN s2 /\ s2[i].con = d)
           /\ i \in DOMAIN s /\ s[i].con = d =>
                /\ s2[i].kind = s[i].kind /\ s2[i].box = s[i].box /\ s2[i].modal = s[i].modal
                /\ s2[i].answer = "none" => s[i].answer = "none"

AllBoxed(s) == \A i \in DOMAIN s : s[i].box /\ s[i].kind = "main" /\ s[i].modal # "no"

Untimed(cs) == \A d \in Consoles : ~cs[d].timed

LEMMA SameHas ==
    ASSUME NEW s, NEW s2, NEW d, SameFrames(s, s2, d)
    PROVE  /\ HasFrame(s, d) <=> HasFrame(s2, d)
           /\ HasMain(s, d) <=> HasMain(s2, d)
           /\ HasBox(s, d) <=> HasBox(s2, d)
           /\ HasCounted(s, d) <=> HasCounted(s2, d)
           /\ \A c : BoxIsRecorded(c, s, d) <=> BoxIsRecorded(c, s2, d)
           /\ \A c : DialogueHasEntry(c, s, d) => DialogueHasEntry(c, s2, d)
<1>1. HasFrame(s, d) <=> HasFrame(s2, d)
  BY DEF SameFrames, HasFrame
<1>2. HasMain(s, d) <=> HasMain(s2, d)
  BY DEF SameFrames, HasMain
<1>3. HasBox(s, d) <=> HasBox(s2, d)
  BY DEF SameFrames, HasBox
<1>4. ASSUME NEW c PROVE BoxIsRecorded(c, s, d) <=> BoxIsRecorded(c, s2, d)
  <2>1. CASE c.dialog = 0
    BY <1>3, <2>1 DEF BoxIsRecorded
  <2>2. CASE c.dialog # 0
    BY <2>2 DEF BoxIsRecorded, SameFrames
  <2> QED BY <2>1, <2>2
<1>5. HasCounted(s, d) <=> HasCounted(s2, d)
  BY DEF SameFrames, HasCounted
<1>6. ASSUME NEW c, DialogueHasEntry(c, s, d) PROVE DialogueHasEntry(c, s2, d)
  BY <1>6 DEF SameFrames, DialogueHasEntry
<1> QED BY <1>1, <1>2, <1>3, <1>4, <1>5, <1>6

LEMMA SoundStays ==
    ASSUME NEW c, NEW c2, NEW s, NEW s2, NEW d,
           Sound(c, s, d), Steady(c, c2), SameFrames(s, s2, d)
    PROVE  Sound(c2, s2, d)
<1>1. c2.ctx \in {NoConsole, d} /\ ~c2.alert
  BY DEF Sound, Steady
<1>2. DeadIsClear(c2)
  BY DEF Sound, Steady, DeadIsClear
<1>3. LiveIsBusy(c2, s2, d)
  <2> SUFFICES ASSUME c2.ctx # NoConsole
               PROVE  /\ c2.label = "Stop" /\ c2.status \cap Interrupts = {}
                      /\ Unheard(c2) => Unasking(c2)
                      /\ ~HasFrame(s2, d) => c2.callbacks # {}
    BY DEF LiveIsBusy
  <2>1. /\ c.label = "Stop" /\ c.status \cap Interrupts = {}
        /\ Unheard(c) => Unasking(c)
        /\ ~HasFrame(s, d) => c.callbacks # {}
    BY DEF Sound, Steady, LiveIsBusy
  <2>2. c2.status \cap Interrupts = {}
    BY <2>1 DEF Steady
  <2>3. Unasking(c) => Unasking(c2)
    BY DEF Unasking, Steady
  <2> QED BY <2>1, <2>2, <2>3, SameHas DEF Steady
<1>4. BoxIsRecorded(c2, s2, d)
  <2>1. BoxIsRecorded(c2, s, d)
    BY DEF Sound, Steady, BoxIsRecorded
  <2> QED BY <2>1, SameHas
<1>5. c2.runningMain <=> HasMain(s2, d)
  BY SameHas DEF Sound, Steady
<1>6. c2.modalCount = IF HasCounted(s2, d) THEN 1 ELSE 0
  BY SameHas DEF Sound, Steady
<1>7. HasFrame(s2, d) => c2.ctx # NoConsole
  BY SameHas DEF Sound, Steady
<1>8. DialogueHasEntry(c2, s2, d)
  <2>1. DialogueHasEntry(c2, s, d)
    BY DEF Sound, Steady, DialogueHasEntry
  <2> QED BY <2>1, SameHas
<1> QED BY <1>1, <1>2, <1>3, <1>4, <1>5, <1>6, <1>7, <1>8 DEF Sound

LEMMA SameIsSame == \A s, d : SameFrames(s, s, d)
BY DEF SameFrames

LEMMA SteadyIsSteady == \A c : Steady(c, c)
BY DEF Steady

LEMMA AlikeIsSteady ==
    ASSUME NEW c, NEW c2, Alike(c, c2), c2.runningMain = c.runningMain,
           c2.status \subseteq c.status,
           c2.waitingCached = c.waitingCached, c2.waiting = c.waiting
    PROVE  Steady(c, c2)
BY DEF Alike, Steady, Unheard

\* A call ends, begins, or has its box opened, closed or answered.
LEMMA FramesOfOthers ==
    ASSUME NEW s \in Seq(Frame), NEW d
    PROVE  /\ \A f \in Frame : f.con # d => SameFrames(s, Append(s, f), d)
           /\ s # <<>> /\ s[Len(s)].con # d => SameFrames(s, Below(s), d)
<1>1. ASSUME NEW f \in Frame, f.con # d PROVE SameFrames(s, Append(s, f), d)
  <2>1. /\ DOMAIN s = 1..Len(s) /\ Len(s) \in Nat
        /\ DOMAIN Append(s, f) = 1..(Len(s) + 1)
        /\ \A i \in 1..Len(s) : Append(s, f)[i] = s[i]
        /\ Append(s, f)[Len(s) + 1] = f
    BY AppendProperties, LenProperties
  <2>2. \A i : i \in DOMAIN Append(s, f) <=> i \in DOMAIN s \/ i = Len(s) + 1
    BY <2>1
  <2> HIDE <1>1
  <2>3. \A i \in DOMAIN s : Append(s, f)[i] = s[i]
    BY <2>1
  <2> QED BY <1>1, <2>1, <2>2, <2>3 DEF SameFrames
<1>2. ASSUME s # <<>>, s[Len(s)].con # d PROVE SameFrames(s, Below(s), d)
  <2> DEFINE b == Below(s)
             n == Len(s)
  <2>1. /\ n \in Nat \ {0} /\ DOMAIN s = 1..n /\ DOMAIN b = 1..(n - 1)
        /\ \A i \in DOMAIN b : b[i] = s[i]
    BY <1>2, BelowProperties
  <2>2. s[n].con # d
    BY <1>2
  <2> HIDE DEF b, n
  <2>3. \A i : i \in DOMAIN s <=> i \in DOMAIN b \/ i = n
    BY <2>1
  <2>4. n \notin DOMAIN b
    BY <2>1
  <2>5. SameFrames(s, b, d)
    BY <2>1, <2>2, <2>3, <2>4 DEF SameFrames
  <2> QED BY <2>5 DEF b
<1> QED BY <1>1, <1>2

LEMMA FramesChanged ==
    ASSUME NEW s \in Seq(Frame), NEW i \in DOMAIN s, NEW f \in Frame, f.con = s[i].con, NEW d,
           s[i].con = d => /\ f.kind = s[i].kind /\ f.box = s[i].box /\ f.modal = s[i].modal
                           /\ f.answer = "none" => s[i].answer = "none"
    PROVE  SameFrames(s, [s EXCEPT ![i] = f], d)
<1> DEFINE s2 == [s EXCEPT ![i] = f]
<1>1. DOMAIN s2 = DOMAIN s /\ \A j \in DOMAIN s : s2[j] = IF j = i THEN f ELSE s[j]
  BY FrameChanged
<1> HIDE DEF s2
<1>2. SameFrames(s, s2, d)
  BY <1>1 DEF SameFrames
<1> QED BY <1>2 DEF s2

\* Where every call is in a modal call, none replies, and none need be timed.
LEMMA AllBoxedFacts ==
    ASSUME NEW s \in Seq(Frame), AllBoxed(s)
    PROVE  /\ BoxesBelow(s) /\ \A cs : Untimed(cs) => OnlyTimed(cs, s)
           /\ \A aw, bs : RepliesMatch(aw, bs, s)
           /\ \A d : HasFrame(s, d) => HasMain(s, d)
<1>1. s # <<>> => Len(s) \in DOMAIN s
  BY EmptySeq, LenProperties
<1>2. \A i \in DOMAIN s : s[i].kind # "reply"
  BY DEF AllBoxed
<1>3. \A cs : Untimed(cs) => OnlyTimed(cs, s)
  BY <1>1 DEF AllBoxed, OnlyTimed, Untimed
<1> QED BY <1>2, <1>3 DEF AllBoxed, BoxesBelow, RepliesMatch, HasFrame, HasMain

LEMMA BoxedBelow ==
    ASSUME NEW s \in Seq(Frame), BoxesBelow(s), MainIsOne(s)
    PROVE  /\ AllBoxed(Below(s)) /\ MainIsOne(Below(s))
           /\ s = <<>> \/ s[Len(s)].box => AllBoxed(s)
<1>1. CASE s = <<>>
  <2>1. Below(s) = <<>>
    BY <1>1, SubSeqEmpty DEF Below
  <2>2. DOMAIN s = {}
    BY <1>1
  <2> QED BY <1>1, <2>1, <2>2 DEF AllBoxed, MainIsOne
<1>2. CASE s # <<>>
  <2> DEFINE b == Below(s)
             n == Len(s)
  <2>1. /\ n \in Nat \ {0} /\ DOMAIN s = 1..n /\ DOMAIN b = 1..(n - 1)
        /\ \A i \in DOMAIN b : b[i] = s[i]
    BY <1>2, BelowProperties
  <2>2. /\ \A i \in DOMAIN s : s[i].box => s[i].kind = "main" /\ s[i].modal # "no"
        /\ \A i \in DOMAIN s : i # n => s[i].box
    BY DEF BoxesBelow
  <2>3. s[n].box => AllBoxed(s)
    BY <2>2 DEF AllBoxed
  <2> HIDE DEF b, n
  <2>4. \A i \in DOMAIN b : i \in DOMAIN s /\ i # n
    BY <2>1
  <2>5. AllBoxed(b)
    BY <2>1, <2>2, <2>4 DEF AllBoxed
  <2>6. MainIsOne(b)
    BY <2>1, <2>4 DEF MainIsOne
  <2> QED BY <1>2, <2>3, <2>5, <2>6 DEF b, n
<1> QED BY <1>1, <1>2

\* A call starts over others that are modal.
LEMMA BoxedAppend ==
    ASSUME NEW s \in Seq(Frame), AllBoxed(s), MainIsOne(s), NEW f \in Frame, ~f.box,
           f.modal = "no", f.kind = "main" => ~HasMain(s, f.con)
    PROVE  LET s2 == Append(s, f)
           IN  /\ BoxesBelow(s2) /\ MainIsOne(s2) /\ s2 # <<>> /\ s2[Len(s2)] = f
               /\ HasFrame(s2, f.con) /\ (HasMain(s2, f.con) <=> HasMain(s, f.con) \/ f.kind = "main")
               /\ HasCounted(s2, f.con) <=> HasCounted(s, f.con)
               /\ \A c : BoxIsRecorded(c, s, f.con) => BoxIsRecorded(c, s2, f.con)
               /\ \A c : DialogueHasEntry(c, s, f.con) => DialogueHasEntry(c, s2, f.con)
<1> DEFINE s2 == Append(s, f)
           n  == Len(s2)
<1>1. /\ s2 \in Seq(Frame) /\ s2 # <<>> /\ n = Len(s) + 1 /\ s2[n] = f
      /\ DOMAIN s = 1..Len(s) /\ DOMAIN s2 = 1..n /\ Len(s) \in Nat
      /\ \A i \in 1..Len(s) : s2[i] = s[i]
  BY AppendProperties, LenProperties
<1> HIDE DEF s2, n
<1>2. /\ \A i : i \in DOMAIN s2 <=> i \in DOMAIN s \/ i = n
      /\ n \notin DOMAIN s /\ \A i \in DOMAIN s : s2[i] = s[i]
  BY <1>1
<1>3. BoxesBelow(s2)
  BY <1>1, <1>2 DEF BoxesBelow, AllBoxed, n
<1>4. MainIsOne(s2)
  BY <1>1, <1>2 DEF MainIsOne, HasMain
<1>5. HasFrame(s2, f.con)
  BY <1>1, <1>2 DEF HasFrame
<1>6. HasMain(s2, f.con) <=> HasMain(s, f.con) \/ f.kind = "main"
  BY <1>1, <1>2 DEF HasMain
<1>7. HasBox(s2, f.con) <=> HasBox(s, f.con)
  BY <1>1, <1>2 DEF HasBox
<1>8. ASSUME NEW c, BoxIsRecorded(c, s, f.con) PROVE BoxIsRecorded(c, s2, f.con)
  BY <1>2, <1>7, <1>8 DEF BoxIsRecorded
<1>9. s2[Len(s2)] = f
  BY <1>1 DEF n
<1>10. HasCounted(s2, f.con) <=> HasCounted(s, f.con)
  BY <1>1, <1>2 DEF HasCounted
<1>11. ASSUME NEW c, DialogueHasEntry(c, s, f.con) PROVE DialogueHasEntry(c, s2, f.con)
  BY <1>1, <1>2, <1>11 DEF DialogueHasEntry
<1> QED BY <1>1, <1>3, <1>4, <1>5, <1>6, <1>8, <1>9, <1>10, <1>11 DEF s2

-----------------------------------------------------------------------------
(* Asking, and finishing *)

\* A live console, asked where its callbacks and replies do not run, finds that
\* it waits, unless its main runs and awaits no reply.
LEMMA LiveWaits ==
    ASSUME NEW c, NEW s, NEW d, Sound(c, s, d), c.ctx # NoConsole,
           HasFrame(s, d) => HasMain(s, d), ~IsWaiting(c)
    PROVE  Unasking(c)
<1>1. c.waitingCached => Unasking(c)
  BY DEF Sound, LiveIsBusy, IsWaiting, Unheard
<1>2. CASE ~c.waitingCached
  <2>1. c.callbacks = {}
    BY <1>2 DEF IsWaiting, SomethingAwaited
  <2>2. c.runningMain
    BY <2>1 DEF Sound, LiveIsBusy
  <2> QED BY <2>1, <2>2 DEF Unasking
<1> QED BY <1>1, <1>2

\* Where the console does not run JavaScript, being asked makes no difference.
LEMMA AskedSound ==
    ASSUME NEW c \in Console, NEW s, NEW d, Sound(c, s, d), HasFrame(s, d) => HasMain(s, d)
    PROVE  Sound(AskedBusy(c), s, d)
<1> DEFINE e == AskedBusy(c)
<1>1. /\ Alike(c, e) /\ e.runningMain = c.runningMain /\ e.status = c.status
      /\ e = c \/ (e.waitingCached /\ e.waiting = IsWaiting(c) /\ ~c.runningMain)
  BY AskedBusyFields DEF AskedBusy
<1> HIDE DEF e
<1>2. CASE e = c
  BY <1>2 DEF e
<1>3. CASE e # c
  <2>1. c.ctx # NoConsole => IsWaiting(c) \/ Unasking(c)
    BY LiveWaits
  <2>2. Steady(c, e)
    BY <1>1, <1>3, <2>1 DEF Alike, Steady, Unheard
  <2>3. Sound(e, s, d)
    BY <2>2, SameIsSame, SoundStays
  <2> QED BY <2>3 DEF e
<1> QED BY <1>2, <1>3

LEMMA WaitingSound ==
    ASSUME NEW c \in Console, NEW s, NEW d, Sound(c, s, d), HasFrame(s, d) => HasMain(s, d)
    PROVE  /\ Sound(Asked(c), s, d)
           /\ c.ctx # NoConsole => IsWaiting(c) \/ Unasking(c)
<1> DEFINE e == Asked(c)
<1>1. /\ Alike(c, e) /\ e.runningMain = c.runningMain /\ e.status = c.status
      /\ e.waitingCached /\ e.waiting = IsWaiting(c)
  BY AskedFields
<1> HIDE DEF e
<1>2. c.ctx # NoConsole => IsWaiting(c) \/ Unasking(c)
  BY LiveWaits
<1>3. Steady(c, e)
  BY <1>1, <1>2 DEF Alike, Steady, Unheard
<1>4. Sound(e, s, d)
  BY <1>3, SameIsSame, SoundStays
<1> QED BY <1>2, <1>4 DEF e

\* A console found idle, other than by its own script, has none.
LEMMA IdleIsDead ==
    ASSUME NEW c, NEW s, NEW d, Sound(c, s, d), HasFrame(s, d) => HasMain(s, d), ~IsBusy(c)
    PROVE  c.ctx = NoConsole
<1> SUFFICES ASSUME c.ctx # NoConsole PROVE FALSE
  OBVIOUS
<1>1. ~c.runningMain /\ ~IsWaiting(c)
  BY DEF IsBusy
<1> QED BY <1>1, LiveWaits DEF Unasking

Finished(k) ==
    /\ k \in Console /\ k.ctx = NoConsole /\ k.callbacks = {} /\ ~k.alert /\ k.dialog = 0
    /\ k.label = "Run" /\ ~k.runningMain /\ k.modalCount = 0 /\ ~k.timed

LEMMA FinishedFacts ==
    ASSUME NEW k, Finished(k)
    PROVE  /\ Finished(AskedBusy(k)) /\ Finished(Asked(k)) /\ Finished(ClearTimeout(k))
           /\ \A S \in SUBSET Completions : Finished([k EXCEPT !.status = S])
           /\ \A s, d : ~HasFrame(s, d) => Sound(k, s, d)
<1>1. Finished(AskedBusy(k))
  BY AskedBusyFields DEF Finished, Alike
<1>2. Finished(Asked(k))
  BY AskedFields DEF Finished, Alike
<1>3. Finished(ClearTimeout(k))
  BY TimeoutFields DEF Finished, Alike
<1>4. \A S \in SUBSET Completions : Finished([k EXCEPT !.status = S])
  BY StatusFields DEF Finished, Alike
<1>5. ASSUME NEW s, NEW d, ~HasFrame(s, d) PROVE Sound(k, s, d)
  <2>1. ~HasMain(s, d) /\ ~HasBox(s, d) /\ ~HasCounted(s, d)
    BY <1>5 DEF HasFrame, HasMain, HasBox, HasCounted
  <2>2. DialogueHasEntry(k, s, d)
    BY <1>5 DEF HasFrame, DialogueHasEntry
  <2> QED BY <1>5, <2>1, <2>2 DEF Finished, Sound, DeadIsClear, LiveIsBusy, BoxIsRecorded
<1> QED BY <1>1, <1>2, <1>3, <1>4, <1>5

LEMMA CleanupFinishes ==
    ASSUME NEW c \in Console, c.modalCount = 0, ~c.timed
    PROVE  Finished(Cleanup(c))
BY ClearedFields DEF Finished

-----------------------------------------------------------------------------
(***************************************************************************)
(* wrapUp() and the reply it makes.  Ending is what its callers have made  *)
(* of the state: c is about to lose its heap, and its entries with it.     *)
(***************************************************************************)

LivesExist(ex, cs, qs) ==
    \A d \in Consoles : /\ cs[d].ctx # NoConsole => d \in ex /\ qs[d] = <<>>
                        /\ qs[d] # <<>> => d \in ex /\ Len(qs[d]) = 1

Ending(ex, cs, bs, qs, s, c) ==
    /\ AllBoxed(s) /\ MainIsOne(s) /\ ~HasFrame(s, c)
    /\ \A d \in Consoles : d # c => Sound(cs[d], s, d)
    /\ cs[c].ctx = c /\ ~cs[c].alert /\ cs[c].modalCount = 0
    /\ LivesExist(ex, cs, qs)
    /\ Requests([Awaited(cs) EXCEPT ![c] = {}], Lives(cs), bs, qs)
    /\ BriefsAreGiven(bs, qs)

LEMMA GoodBoxed ==
    ASSUME NEW ex, NEW cs, NEW bs, NEW qs, NEW s \in Seq(Frame),
           AllBoxed(s), MainIsOne(s), \A d \in Consoles : Sound(cs[d], s, d),
           LivesExist(ex, cs, qs), Requests(Awaited(cs), Lives(cs), bs, qs),
           BriefsAreGiven(bs, qs), OnlyTimed(cs, s)
    PROVE  Good(ex, cs, bs, qs, s)
<1>1. ConsolesSound(ex, cs, qs, s)
  BY AllBoxedFacts DEF ConsolesSound, LivesExist
<1> QED BY <1>1, AllBoxedFacts DEF Good

LEMMA AwaitedType ==
    ASSUME NEW cs \in [Consoles -> Console]
    PROVE  /\ Awaited(cs) \in [Consoles -> SUBSET Entry]
           /\ \A c : [Awaited(cs) EXCEPT ![c] = {}] \in [Consoles -> SUBSET Entry]
<1>1. \A d \in Consoles : cs[d].callbacks \in SUBSET Entry
  BY DEF Console
<1>2. Awaited(cs) \in [Consoles -> SUBSET Entry]
  BY <1>1 DEF Awaited
<1> QED BY <1>2

\* The brief of a script that chains waits in the queue instead.
LEMMA ChainedGood ==
    ASSUME NEW ex, NEW cs, NEW bs, NEW qs, NEW s, NEW c \in Consoles, Typing(cs, bs, qs, s),
           Ending(ex, cs, bs, qs, s, c), NEW k, Finished(k), Untimed(cs),
           NEW cs2, cs2 = [cs EXCEPT ![c] = k],
           NEW qs2, qs2 = [qs EXCEPT ![c] = Append(@, bs[c])]
    PROVE  Good(ex, cs2, bs, qs2, s)
<1> DEFINE aw == [Awaited(cs) EXCEPT ![c] = {}]
<1>1. /\ cs2[c] = k /\ \A d \in Consoles : d # c => cs2[d] = cs[d]
      /\ qs[c] = <<>> /\ \A d \in Consoles : d # c => qs2[d] = qs[d]
      /\ c \in ex
  BY ConsolesAssumption DEF Typing, Ending, LivesExist
<1>2. qs2[c] = Append(qs[c], bs[c]) /\ bs[c] \in Brief /\ qs[c] \in Seq(Brief)
  BY DEF Typing
<1>3. DOMAIN qs2[c] = {1} /\ qs2[c][1] = bs[c] /\ DOMAIN qs[c] = {}
  <2>1. Len(qs[c]) = 0 /\ DOMAIN qs[c] = 1..0
    BY <1>1, <1>2, EmptySeq, LenProperties
  <2>2. Len(qs2[c]) = 1 /\ qs2[c][1] = bs[c] /\ qs2[c] \in Seq(Brief)
    BY <1>2, <2>1, AppendProperties
  <2>3. DOMAIN qs2[c] = 1..1
    BY <2>2, LenProperties
  <2> QED BY <2>1, <2>2, <2>3
<1>4. \A d \in Consoles : Awaited(cs2)[d] = aw[d]
  <2>1. \A d \in Consoles : aw[d] = IF d = c THEN {} ELSE cs[d].callbacks
    BY DEF Awaited
  <2>2. \A d \in Consoles : Awaited(cs2)[d] = cs2[d].callbacks
    BY DEF Awaited
  <2>3. k.callbacks = {}
    BY DEF Finished
  <2> HIDE DEF aw
  <2> QED BY <1>1, <2>1, <2>2, <2>3
<1>5. \A b \in Consoles : \A f \in BriefsOf(bs, qs2, b) : f \in BriefsOf(bs, qs, b)
  BY <1>1, <1>3 DEF BriefsOf
<1>6. \A b, a \in Consoles : \A id :
        OwesIn(Lives(cs2), bs, qs2, b, a, id) <=> OwesIn(Lives(cs), bs, qs, b, a, id)
  <2> SUFFICES ASSUME NEW b \in Consoles, NEW a \in Consoles, NEW id
               PROVE  OwesIn(Lives(cs2), bs, qs2, b, a, id) <=> OwesIn(Lives(cs), bs, qs, b, a, id)
    OBVIOUS
  <2>1. CASE b # c
    <3>1. Lives(cs2)[b] = Lives(cs)[b] /\ qs2[b] = qs[b]
      BY <1>1, <2>1 DEF Lives
    <3> QED BY <3>1 DEF OwesIn
  <2>2. CASE b = c
    <3>1. Lives(cs)[c] /\ ~Lives(cs2)[c]
      BY <1>1, ConsolesAssumption DEF Lives, Ending, Finished
    <3> QED BY <1>3, <2>2, <3>1 DEF OwesIn
  <2> QED BY <2>1, <2>2
<1>7. Requests(Awaited(cs2), Lives(cs2), bs, qs2)
  <2>1. aw \in [Consoles -> SUBSET Entry]
    BY AwaitedType DEF Typing
  <2>2. Requests(aw, Lives(cs), bs, qs)
    BY DEF Ending
  <2>3. \A a \in Consoles : Awaited(cs2)[a] \subseteq aw[a]
    BY <1>4
  <2> HIDE DEF aw
  <2>4. BriefsStay(Awaited(cs2), bs, qs, bs, qs2)
    BY <1>5 DEF BriefsStay
  <2>5. DebtsStay(Awaited(cs2), Lives(cs), bs, qs, Lives(cs2), bs, qs2)
    BY <1>6 DEF DebtsStay
  <2>6. NothingAsked(aw, Lives(cs), bs, qs, Awaited(cs2), Lives(cs2), bs, qs2)
    BY <2>3, <2>4, <2>5 DEF NothingAsked
  <2> QED BY <2>1, <2>2, <2>6, RequestsStay
<1>8. BriefsAreGiven(bs, qs2)
  BY <1>5 DEF Ending, BriefsAreGiven
<1>9. \A d \in Consoles : Sound(cs2[d], s, d)
  BY <1>1, FinishedFacts DEF Ending
<1>10. LivesExist(ex, cs2, qs2)
  BY <1>1 DEF Ending, LivesExist, Finished
<1>11. OnlyTimed(cs2, s)
  <2>1. Untimed(cs2)
    BY <1>1 DEF Untimed, Finished
  <2> QED BY <2>1, AllBoxedFacts DEF Ending, Typing
<1> QED BY <1>7, <1>8, <1>9, <1>10, <1>11, GoodBoxed DEF Ending, Typing

\* What the others await is what it was; c awaits nothing.
LEMMA EndedAwaited ==
    ASSUME NEW cs, NEW c \in Consoles
    PROVE  \A d \in Consoles :
             [Awaited(cs) EXCEPT ![c] = {}][d] = IF d = c THEN {} ELSE cs[d].callbacks
BY DEF Awaited

\* Without its heap c owes nothing, and nothing that it owed is awaited any more.
NothingOwed(cs, bs, c, cs2) ==
    /\ \A d \in Consoles : cs2[d].ctx = IF d = c THEN NoConsole ELSE cs[d].ctx
    /\ \A d \in Consoles : Awaited(cs2)[d] \subseteq [Awaited(cs) EXCEPT ![c] = {}][d]
    /\ Unawaited(Awaited(cs2), bs[c].callbackId)

LEMMA EndedRequests ==
    ASSUME NEW ex, NEW cs, NEW bs, NEW qs, NEW s, NEW c \in Consoles, Typing(cs, bs, qs, s),
           Ending(ex, cs, bs, qs, s, c), NEW cs2, NothingOwed(cs, bs, c, cs2)
    PROVE  Requests(Awaited(cs2), Lives(cs2), bs, qs)
<1> USE DEF NothingOwed
<1> DEFINE aw == [Awaited(cs) EXCEPT ![c] = {}]
<1>1. aw \in [Consoles -> SUBSET Entry]
  BY AwaitedType DEF Typing
<1>2. Requests(aw, Lives(cs), bs, qs)
  BY DEF Ending
<1>3. \A a \in Consoles : Awaited(cs2)[a] \subseteq aw[a]
  OBVIOUS
<1> HIDE DEF aw
<1>4. BriefsStay(Awaited(cs2), bs, qs, bs, qs)
  BY DEF BriefsStay
<1>5. DebtsStay(Awaited(cs2), Lives(cs), bs, qs, Lives(cs2), bs, qs)
  <2> SUFFICES ASSUME NEW a \in Consoles, NEW b \in Consoles, NEW e \in Awaited(cs2)[a]
               PROVE  OwesIn(Lives(cs2), bs, qs, b, a, e.id) <=> OwesIn(Lives(cs), bs, qs, b, a, e.id)
    BY DEF DebtsStay
  <2>1. CASE b # c
    <3>1. Lives(cs2)[b] = Lives(cs)[b]
      BY <2>1 DEF Lives
    <3> QED BY <3>1 DEF OwesIn
  <2>2. CASE b = c
    <3>1. bs[c].callbackId # e.id
      BY DEF Unawaited
    <3> QED BY <2>2, <3>1 DEF OwesIn
  <2> QED BY <2>1, <2>2
<1>6. NothingAsked(aw, Lives(cs), bs, qs, Awaited(cs2), Lives(cs2), bs, qs)
  BY <1>3, <1>4, <1>5 DEF NothingAsked
<1> QED BY <1>1, <1>2, <1>6, RequestsStay

LEMMA EndedGood ==
    ASSUME NEW ex, NEW cs, NEW bs, NEW qs, NEW s, NEW c \in Consoles, Typing(cs, bs, qs, s),
           Ending(ex, cs, bs, qs, s, c), NEW cs2, Finished(cs2[c]),
           Untimed(cs2),
           \A d \in Consoles : d # c => /\ cs2[d].ctx = cs[d].ctx
                                        /\ cs2[d].callbacks = cs[d].callbacks
                                        /\ Sound(cs2[d], s, d),
           Unawaited([Awaited(cs) EXCEPT ![c] = {}], bs[c].callbackId)
    PROVE  Good(ex, cs2, bs, qs, s)
<1> DEFINE aw == [Awaited(cs) EXCEPT ![c] = {}]
<1>1. \A d \in Consoles : aw[d] = IF d = c THEN {} ELSE cs[d].callbacks
  BY EndedAwaited
<1>2. \A d \in Consoles : Awaited(cs2)[d] = cs2[d].callbacks
  BY DEF Awaited
<1> HIDE DEF aw
<1>3. \A d \in Consoles : Awaited(cs2)[d] = aw[d]
  BY <1>1, <1>2 DEF Finished
<1>4. Unawaited(Awaited(cs2), bs[c].callbackId)
  BY <1>3 DEF Unawaited, aw
<1>5. \A d \in Consoles : cs2[d].ctx = IF d = c THEN NoConsole ELSE cs[d].ctx
  BY DEF Finished
<1>6. Requests(Awaited(cs2), Lives(cs2), bs, qs)
  <2>1. \A d \in Consoles : Awaited(cs2)[d] \subseteq [Awaited(cs) EXCEPT ![c] = {}][d]
    BY <1>3 DEF aw
  <2>2. NothingOwed(cs, bs, c, cs2)
    BY <1>4, <1>5, <2>1 DEF NothingOwed
  <2> QED BY <2>2, EndedRequests
<1>7. \A d \in Consoles : Sound(cs2[d], s, d)
  BY FinishedFacts DEF Ending
<1>8. LivesExist(ex, cs2, qs)
  BY <1>5 DEF Ending, LivesExist
<1>9. OnlyTimed(cs2, s)
  BY AllBoxedFacts DEF Ending, Typing
<1> QED BY <1>6, <1>7, <1>8, <1>9, GoodBoxed DEF Ending, Typing

\* The handler of the caller is called, whose entry has gone.
LEMMA MadeGood ==
    ASSUME NEW ex, NEW cs, NEW bs, NEW qs, NEW s, NEW c \in Consoles, Typing(cs, bs, qs, s),
           Ending(ex, cs, bs, qs, s, c), NEW k, Finished(k),
           NEW a \in Consoles, a # c, NEW e \in cs[a].callbacks, e.id = bs[c].callbackId,
           NEW cs3, cs3 = Timed([cs EXCEPT ![c] = k], a,
                                BeforeCall(RemoveEntries(Asked(cs[a]), {e}))),
           NEW f \in Frame, f.con = a, f.kind = "reply", ~f.box, f.modal = "no",
           f.from = c, f.entry = e.id, f.request = bs[c].request
    PROVE  Good(ex, cs3, bs, qs, Append(s, f))
<1> DEFINE aw == [Awaited(cs) EXCEPT ![c] = {}]
           x1 == Asked(cs[a])
           x2 == RemoveEntries(x1, {e})
           x  == BeforeCall(x2)
           s3 == Append(s, f)
<1>1. cs[a] \in Console /\ cs[c] \in Console /\ s \in Seq(Frame) /\ k \in Console
  BY DEF Typing, Finished
<1>2. /\ x1 \in Console /\ x1.ctx = cs[a].ctx /\ x1.callbacks = cs[a].callbacks
      /\ x1.alert = cs[a].alert /\ x1.dialog = cs[a].dialog /\ x1.label = cs[a].label
      /\ x1.modalCount = cs[a].modalCount /\ x1.runningMain = cs[a].runningMain
      /\ x1.status = cs[a].status
  BY <1>1, AskedFields DEF Alike
<1> HIDE DEF x1
<1>3. /\ x2 \in Console /\ x2.ctx = cs[a].ctx /\ x2.callbacks = cs[a].callbacks \ {e}
      /\ x2.alert = cs[a].alert /\ x2.dialog = cs[a].dialog /\ x2.label = cs[a].label
      /\ x2.modalCount = cs[a].modalCount /\ x2.runningMain = cs[a].runningMain
      /\ x2.status = cs[a].status
  BY <1>2, EntriesFields
<1> HIDE DEF x2
<1>4. /\ x \in Console /\ x.ctx = cs[a].ctx /\ x.callbacks = cs[a].callbacks \ {e}
      /\ x.alert = cs[a].alert /\ x.dialog = cs[a].dialog /\ x.label = cs[a].label
      /\ x.modalCount = cs[a].modalCount /\ x.runningMain = cs[a].runningMain
      /\ x.status \subseteq cs[a].status /\ ~x.waitingCached /\ x.timed
  BY <1>3, BeforeCallFields DEF Alike
<1>5. /\ cs3[a] = x /\ cs3[c] = ClearTimeout(k)
      /\ \A d \in Consoles : d # a /\ d # c => cs3[d] = ClearTimeout(cs[d])
  BY <1>1 DEF Timed, Typing, x, x2, x1
<1> HIDE DEF x
<1>6. Sound(cs[a], s, a)
  BY DEF Ending
<1>7. cs[a].ctx = a
  BY <1>6, <1>1 DEF Sound, DeadIsClear
<1>8. /\ BoxesBelow(s3) /\ MainIsOne(s3) /\ s3 # <<>> /\ s3[Len(s3)] = f
      /\ HasFrame(s3, a) /\ (HasMain(s3, a) <=> HasMain(s, a))
      /\ HasCounted(s3, a) <=> HasCounted(s, a)
      /\ \A r : BoxIsRecorded(r, s, a) => BoxIsRecorded(r, s3, a)
      /\ \A r : DialogueHasEntry(r, s, a) => DialogueHasEntry(r, s3, a)
  BY <1>1, BoxedAppend DEF Ending
<1>9. Sound(x, s3, a)
  <2>1. BoxIsRecorded(x, s3, a)
    <3>1. BoxIsRecorded(x, s, a)
      BY <1>4, <1>6 DEF Sound, BoxIsRecorded
    <3> QED BY <1>8, <3>1
  <2>2. DeadIsClear(x)
    BY <1>4, <1>7, ConsolesAssumption DEF DeadIsClear
  <2>3. LiveIsBusy(x, s3, a)
    <3>1. cs[a].label = "Stop" /\ cs[a].status \cap Interrupts = {}
      BY <1>6, <1>7, ConsolesAssumption DEF Sound, LiveIsBusy
    <3>2. x.status \cap Interrupts = {}
      BY <1>4, <3>1
    <3> QED BY <1>4, <1>8, <3>1, <3>2 DEF LiveIsBusy, Unheard
  <2>4. x.ctx = a /\ ~x.alert
    BY <1>4, <1>6, <1>7 DEF Sound
  <2>5. x.runningMain <=> HasMain(s3, a)
    BY <1>4, <1>6, <1>8 DEF Sound
  <2>6. x.modalCount = IF HasCounted(s3, a) THEN 1 ELSE 0
    BY <1>4, <1>6, <1>8 DEF Sound
  <2>7. DialogueHasEntry(x, s3, a)
    <3>1. e.type = "CB_CONSOLE"
      <4>1. bs[c] \in BriefsOf(bs, qs, c)
        BY DEF BriefsOf
      <4>2. e \in aw[a] /\ BriefsAreOwed(aw, Lives(cs), bs, qs)
        BY EndedAwaited DEF Ending, Requests
      <4> QED BY <4>1, <4>2 DEF BriefsAreOwed
    <3>2. DialogueHasEntry(x, s, a)
      BY <1>4, <1>6, <3>1 DEF Sound, DialogueHasEntry
    <3> QED BY <1>8, <3>2
  <2> QED BY <2>1, <2>2, <2>3, <2>4, <2>5, <2>6, <2>7, ConsolesAssumption DEF Sound
<1>10. ASSUME NEW d \in Consoles, d # a, d # c
       PROVE  /\ Sound(cs3[d], s3, d) /\ cs3[d].ctx = cs[d].ctx
              /\ cs3[d].callbacks = cs[d].callbacks /\ ~cs3[d].timed
  <2>1. cs[d] \in Console /\ cs3[d] = ClearTimeout(cs[d])
    BY <1>5, <1>10 DEF Typing
  <2>2. /\ Steady(cs[d], cs3[d]) /\ cs3[d].ctx = cs[d].ctx
        /\ cs3[d].callbacks = cs[d].callbacks /\ ~cs3[d].timed
    BY <2>1, TimeoutFields, AlikeIsSteady DEF Alike
  <2>3. SameFrames(s, s3, d)
    BY <1>1, <1>10, FramesOfOthers
  <2>4. Sound(cs[d], s, d)
    BY <1>10 DEF Ending
  <2> QED BY <2>2, <2>3, <2>4, SoundStays
<1>11. Finished(cs3[c]) /\ ~cs3[c].timed
  BY <1>1, <1>5, FinishedFacts, TimeoutFields
<1>12. ~HasFrame(s3, c)
  <2>1. SameFrames(s, s3, c)
    BY <1>1, FramesOfOthers
  <2> QED BY <2>1, SameHas DEF Ending
<1>13. Sound(cs3[c], s3, c)
  BY <1>11, <1>12, FinishedFacts
<1>14. \A d \in Consoles : cs3[d].ctx = IF d = c THEN NoConsole ELSE cs[d].ctx
  BY <1>4, <1>5, <1>10, <1>11 DEF Finished
<1>15. \A d \in Consoles : cs3[d].timed <=> d = a
  BY <1>4, <1>5, <1>10, <1>11
<1>16. \A d \in Consoles : aw[d] = IF d = c THEN {} ELSE cs[d].callbacks
  BY EndedAwaited
<1> HIDE DEF aw
<1>17. \A d \in Consoles : Awaited(cs3)[d] =
         IF d = c THEN {} ELSE IF d = a THEN aw[a] \ {e} ELSE aw[d]
  <2>1. \A d \in Consoles : Awaited(cs3)[d] = cs3[d].callbacks
    BY DEF Awaited
  <2>2. cs3[c].callbacks = {} /\ cs3[a].callbacks = cs[a].callbacks \ {e}
    BY <1>4, <1>5, <1>11 DEF Finished
  <2>3. \A d \in Consoles : d # a /\ d # c => cs3[d].callbacks = cs[d].callbacks
    BY <1>10
  <2> SUFFICES ASSUME NEW d \in Consoles
               PROVE  Awaited(cs3)[d] =
                        IF d = c THEN {} ELSE IF d = a THEN aw[a] \ {e} ELSE aw[d]
    OBVIOUS
  <2>4. Awaited(cs3)[d] = cs3[d].callbacks /\ (d # c => aw[d] = cs[d].callbacks)
    BY <1>16, <2>1
  <2>5. CASE d = c
    BY <2>2, <2>4, <2>5
  <2>6. CASE d = a
    BY <2>2, <2>4, <2>6
  <2>7. CASE d # a /\ d # c
    BY <2>3, <2>4, <2>7
  <2> QED BY <2>5, <2>6, <2>7
<1>18. IdsAreUnique(aw) /\ BriefsAreOwed(aw, Lives(cs), bs, qs) /\ e \in aw[a]
  BY <1>16 DEF Ending, Requests, aw
<1>19. Unawaited(Awaited(cs3), bs[c].callbackId)
  <2> SUFFICES ASSUME NEW d \in Consoles, NEW y \in Awaited(cs3)[d], y.id = bs[c].callbackId
               PROVE  FALSE
    BY DEF Unawaited
  <2>1. y \in aw[d] /\ d # c /\ (d = a => y # e)
    BY <1>17
  <2>2. d = a /\ y = e
    BY <1>18, <2>1 DEF IdsAreUnique
  <2> QED BY <2>1, <2>2
<1>20. Requests(Awaited(cs3), Lives(cs3), bs, qs)
  <2>1. \A d \in Consoles : Awaited(cs3)[d] \subseteq [Awaited(cs) EXCEPT ![c] = {}][d]
    BY <1>16, <1>17 DEF aw
  <2>2. NothingOwed(cs, bs, c, cs3)
    BY <1>14, <1>19, <2>1 DEF NothingOwed
  <2> QED BY <2>2, EndedRequests
<1>21. bs[c].request = e.id
  <2>1. bs[c] \in BriefsOf(bs, qs, c)
    BY DEF BriefsOf
  <2> QED BY <1>18, <2>1 DEF BriefsAreOwed
<1>22. RepliesMatch(Awaited(cs3), bs, s3)
  <2> SUFFICES ASSUME NEW i \in DOMAIN s3, s3[i].kind = "reply"
               PROVE  s3[i] = f
    BY <1>19, <1>21 DEF RepliesMatch, Unawaited
  <2>1. CASE i = Len(s3)
    BY <1>8, <2>1
  <2>2. CASE i # Len(s3)
    BY <1>8, <2>2 DEF BoxesBelow
  <2> QED BY <2>1, <2>2
<1>23. ConsolesSound(ex, cs3, qs, s3)
  <2>1. OnlyTimed(cs3, s3)
    BY <1>8, <1>15 DEF OnlyTimed
  <2>2. \A d \in Consoles : Sound(cs3[d], s3, d)
    BY <1>5, <1>9, <1>10, <1>13
  <2>3. LivesExist(ex, cs3, qs)
    BY <1>14 DEF Ending, LivesExist
  <2> QED BY <1>8, <2>1, <2>2, <2>3 DEF ConsolesSound, LivesExist
<1> QED BY <1>20, <1>22, <1>23 DEF Good, Ending

\* What a step has arrived at, where it keeps the invariant.
GoodNow(ex) == Good(ex, con', brief', queue', stack') /\ UNCHANGED fault

LEMMA BecomesGood ==
    ASSUME NEW ex, NEW cs, NEW bs, NEW qs, NEW s, Becomes(cs, bs, qs, s), Good(ex, cs, bs, qs, s)
    PROVE  GoodNow(ex)
BY DEF Becomes, GoodNow

\* An answer that is still awaited is given; another is not.
LEMMA ReplyGood ==
    ASSUME NEW cs, NEW bs, NEW qs, NEW s, NEW c \in Consoles, Typing(cs, bs, qs, s), Typed,
           Ending(exists, cs, bs, qs, s, c), NEW k, Finished(k), Practices = {}, Untimed(cs),
           ReplyToConsole([cs EXCEPT ![c] = k], bs, qs, s, c)
    PROVE  GoodNow(exists)
<1> DEFINE aw  == [Awaited(cs) EXCEPT ![c] = {}]
           cs2 == [cs EXCEPT ![c] = k]
           id  == bs[c].callbackId
           a   == bs[c].caller
           asked == Asked(cs2[a])
           Answer(e) == Becomes(Timed(cs2, a, BeforeCall(RemoveEntries(asked, {e}))), bs, qs,
                                Append(s, [NewFrame(a, "reply") EXCEPT
                                             !.from = c, !.entry = e.id,
                                             !.request = bs[c].request]))
<1>1. /\ cs2[c] = k /\ \A d \in Consoles : d # c => cs2[d] = cs[d]
      /\ cs2 \in [Consoles -> Console] /\ exists \subseteq Consoles
  BY DEF Typing, Typed, Finished
<1>0. Untimed(cs2)
  BY <1>1 DEF Untimed, Finished
<1>2. \/ (id = NoId \/ a \notin exists) /\ Becomes(cs2, bs, qs, s)
      \/ /\ id # NoId /\ a \in exists /\ (~asked.waiting \/ EntriesOf(asked, id) = {})
         /\ Becomes([cs2 EXCEPT ![a] = asked], bs, qs, s)
      \/ /\ id # NoId /\ a \in exists
         /\ \E e \in EntriesOf(asked, id) : Answer(e)
  BY DEF ReplyToConsole
<1> HIDE DEF cs2, asked, Answer
<1>3. \A d \in Consoles : aw[d] = IF d = c THEN {} ELSE cs[d].callbacks
  BY EndedAwaited
<1>4. /\ BriefsAreOwed(aw, Lives(cs), bs, qs)
      /\ \A d \in Consoles : d # c => Sound(cs[d], s, d) /\ cs[d] \in Console
  BY DEF Ending, Requests, Typing
<1>5. aw \in [Consoles -> SUBSET Entry]
  BY AwaitedType DEF Typing
<1> HIDE DEF aw
<1>6. \A d \in Consoles : HasFrame(s, d) => HasMain(s, d)
  BY AllBoxedFacts DEF Ending, Typing
<1>7. ASSUME a \in exists
      PROVE  /\ a \in Consoles /\ asked.callbacks = cs2[a].callbacks
             /\ asked.ctx = cs2[a].ctx /\ asked.waiting = IsWaiting(cs2[a])
  BY <1>1, <1>7, AskedFields DEF asked, Alike
<1>8. CASE Unawaited(aw, id)
  <2>1. Unawaited([Awaited(cs) EXCEPT ![c] = {}], bs[c].callbackId)
    BY <1>8 DEF aw
  <2>2. CASE Becomes(cs2, bs, qs, s)
    <3>1. Finished(cs2[c])
      BY <1>1
    <3>2. \A d \in Consoles : d # c => /\ cs2[d].ctx = cs[d].ctx
                                       /\ cs2[d].callbacks = cs[d].callbacks
                                       /\ Sound(cs2[d], s, d)
      BY <1>1, <1>4
    <3>3. Good(exists, cs2, bs, qs, s)
      BY <1>0, <2>1, <3>1, <3>2, EndedGood
    <3> QED BY <2>2, <3>3, BecomesGood
  <2>3. CASE a \in exists /\ Becomes([cs2 EXCEPT ![a] = asked], bs, qs, s)
    <3> DEFINE cs3 == [cs2 EXCEPT ![a] = asked]
    <3>1. cs3[a] = asked /\ a \in Consoles /\ \A d \in Consoles : d # a => cs3[d] = cs2[d]
      BY <1>1, <1>7, <2>3
    <3> HIDE DEF cs3
    <3>2. Finished(cs3[c])
      <4>1. CASE a = c
        BY <1>1, <3>1, <4>1, FinishedFacts DEF asked
      <4>2. CASE a # c
        BY <1>1, <3>1, <4>2
      <4> QED BY <4>1, <4>2
    <3>3. ASSUME NEW d \in Consoles, d # c
          PROVE  /\ cs3[d].ctx = cs[d].ctx /\ cs3[d].callbacks = cs[d].callbacks
                 /\ Sound(cs3[d], s, d)
      <4>1. CASE d = a
        <5>1. cs3[d] = Asked(cs[d])
          BY <1>1, <3>1, <3>3, <4>1 DEF asked
        <5>2. Sound(Asked(cs[d]), s, d)
          BY <1>4, <1>6, <3>3, WaitingSound
        <5>3. Asked(cs[d]).ctx = cs[d].ctx /\ Asked(cs[d]).callbacks = cs[d].callbacks
          BY <1>4, <3>3, AskedFields DEF Alike
        <5> QED BY <5>1, <5>2, <5>3
      <4>2. CASE d # a
        BY <1>1, <1>4, <3>1, <3>3, <4>2
      <4> QED BY <4>1, <4>2
    <3>4. Untimed(cs3)
      <4>1. ~asked.timed
        BY <1>0, <1>1, <3>1, AskedFields DEF asked, Untimed
      <4> QED BY <1>0, <3>1, <4>1 DEF Untimed
    <3>5. Good(exists, cs3, bs, qs, s)
      BY <2>1, <3>2, <3>3, <3>4, EndedGood
    <3> QED BY <2>3, <3>5, BecomesGood DEF cs3
  <2>4. ASSUME a \in exists, NEW e \in EntriesOf(asked, id) PROVE FALSE
    <3>1. e \in cs2[a].callbacks /\ e.id = id /\ a \in Consoles
      BY <1>7, <2>4 DEF EntriesOf
    <3>2. e \in aw[a]
      BY <1>1, <1>3, <3>1 DEF Finished
    <3> QED BY <1>8, <3>1, <3>2 DEF Unawaited
  <2> QED BY <1>2, <2>2, <2>3, <2>4
<1>9. CASE ~Unawaited(aw, id)
  <2>1. PICK x \in Consoles : \E e \in aw[x] : e.id = id
    BY <1>9 DEF Unawaited
  <2>2. PICK e \in aw[x] : e.id = id
    BY <2>1
  <2>3. x = a /\ a \in Consoles /\ a # c /\ e \in cs[a].callbacks /\ id # NoId
    <3>1. bs[c] \in BriefsOf(bs, qs, c)
      BY DEF BriefsOf
    <3>2. x = a
      BY <1>4, <2>1, <2>2, <3>1 DEF BriefsAreOwed
    <3>3. e.id \in Ids
      BY <1>5, <2>1, <2>2 DEF Entry
    <3> QED BY <1>3, <2>1, <2>2, <3>2, <3>3, ConsolesAssumption
  <2>4. a \in exists /\ IsWaiting(cs[a])
    <3>1. cs[a].ctx # NoConsole
      BY <1>4, <2>3 DEF Sound, DeadIsClear
    <3>2. bs[c] \in BriefsOf(bs, qs, c)
      BY DEF BriefsOf
    <3>3. e.type = "CB_CONSOLE"
      BY <1>4, <2>1, <2>2, <3>2 DEF BriefsAreOwed
    <3>4. ~Unasking(cs[a])
      BY <2>3, <3>3 DEF Unasking
    <3> QED BY <1>4, <1>6, <2>3, <3>1, <3>4, WaitingSound DEF Ending, LivesExist
  <2>5. cs2[a] = cs[a] /\ asked = Asked(cs[a])
    BY <1>1, <2>3 DEF asked
  <2>6. asked.waiting /\ e \in EntriesOf(asked, id)
    BY <1>7, <2>2, <2>3, <2>4, <2>5 DEF EntriesOf
  <2>7. PICK y \in EntriesOf(asked, id) : Answer(y)
    BY <1>2, <2>3, <2>4, <2>6
  <2>8. y \in cs[a].callbacks /\ y.id = id
    BY <1>7, <2>4, <2>5, <2>7 DEF EntriesOf
  <2> DEFINE f == [NewFrame(a, "reply") EXCEPT !.from = c, !.entry = y.id,
                                               !.request = bs[c].request]
             cs3 == Timed(cs2, a, BeforeCall(RemoveEntries(asked, {y})))
  <2>9. f \in Frame
    <3>1. y.id \in Ids
      BY <1>3, <1>5, <2>3, <2>8 DEF Entry
    <3>2. bs[c].request \in Ids \cup {NoId}
      BY DEF Typing, Brief
    <3> QED BY <2>3, <3>1, <3>2, FrameTypes
  <2>10. /\ f.con = a /\ f.kind = "reply" /\ ~f.box /\ f.modal = "no"
         /\ f.from = c /\ f.entry = y.id /\ f.request = bs[c].request
    BY DEF NewFrame
  <2>11. Becomes(cs3, bs, qs, Append(s, f))
    BY <2>7 DEF Answer
  <2>12. cs3 = Timed([cs EXCEPT ![c] = k], a, BeforeCall(RemoveEntries(Asked(cs[a]), {y})))
    BY <2>5 DEF cs2
  <2> HIDE DEF f, cs3
  <2>13. Good(exists, cs3, bs, qs, Append(s, f))
    BY <2>3, <2>8, <2>9, <2>10, <2>12, MadeGood
  <2> QED BY <2>11, <2>13, BecomesGood
<1> QED BY <1>8, <1>9

\* A script that is wrapped up gives its brief to the next in the chain, or
\* answers whom it owes.
LEMMA WrapUpGood ==
    ASSUME NEW cs0, NEW bs, NEW qs, NEW s, NEW c \in Consoles, NEW reason \in Completions,
           reason # "MORETODO", Typing(cs0, bs, qs, s), Typed,
           Ending(exists, cs0, bs, qs, s, c), WrapUp(cs0, bs, qs, s, c, reason), Practices = {},
           Untimed(cs0)
    PROVE  GoodNow(exists)
<1> DEFINE S  == (cs0[c].status \ {"MORETODO"}) \cup {reason}
           k  == [cs0[c] EXCEPT !.status = S]
           cs == [cs0 EXCEPT ![c] = k]
           k1 == Cleanup(k)
           k2 == AskedBusy(k1)
           S3 == k2.status \ {"TOCHAIN"}
           k3 == [k2 EXCEPT !.status = S3]
<1>1. /\ cs0[c] \in Console /\ S \in SUBSET Completions /\ cs0[c].modalCount = 0
      /\ ~cs0[c].timed
  BY DEF Typing, Console, Ending, Untimed
<1> HIDE DEF S
<1>2. k \in Console /\ k.modalCount = 0 /\ ~k.timed
  BY <1>1, StatusFields DEF Alike
<1> HIDE DEF k
<1>3. Finished(k1)
  BY <1>2, CleanupFinishes
<1> HIDE DEF k1
<1>4. Finished(k2)
  BY <1>3, FinishedFacts
<1> HIDE DEF k2
<1>5. Finished(k3)
  <2>1. S3 \in SUBSET Completions
    BY <1>4 DEF Finished, Console
  <2> QED BY <1>4, <2>1, FinishedFacts
<1> HIDE DEF S3, k3
<1>6. cs[c] = k /\ \A x : [cs EXCEPT ![c] = x] = [cs0 EXCEPT ![c] = x]
  BY DEF Typing
<1>7. cs = [cs0 EXCEPT ![c].status = (@ \ {"MORETODO"}) \cup {reason}]
  BY DEF cs, k, S
<1> HIDE DEF cs
<1>8. ~(\E i \in DOMAIN s : s[i].con = c)
  BY DEF Ending, HasFrame
<1>9. \/ Chained(cs, bs, qs, s, c)
      \/ ReplyToConsole([cs EXCEPT ![c] = Cleanup(cs[c])], bs, qs, s, c)
      \/ ReplyToConsole([cs EXCEPT ![c] = AskedBusy(Cleanup(cs[c]))], bs, qs, s, c)
  BY <1>7, <1>8 DEF WrapUp, Suspended
<1>10. CASE Chained(cs, bs, qs, s, c)
  <2> DEFINE qs2 == [qs EXCEPT ![c] = Append(qs[c], bs[c])]
             cs2 == [cs0 EXCEPT ![c] = k3]
  <2>1. Becomes(cs2, bs, qs2, s)
    <3>1. [AskedBusy(Cleanup(cs[c])) EXCEPT !.status = @ \ {"TOCHAIN"}] = k3
      BY <1>6 DEF k1, k2, k3, S3
    <3>2. Becomes([cs EXCEPT ![c] = k3], bs, qs2, s)
      BY <1>10, <3>1 DEF Chained
    <3> QED BY <1>6, <3>2
  <2>2. Good(exists, cs2, bs, qs2, s)
    BY <1>5, ChainedGood
  <2> QED BY <2>1, <2>2, BecomesGood
<1>11. CASE ReplyToConsole([cs EXCEPT ![c] = Cleanup(cs[c])], bs, qs, s, c)
  <2>1. ReplyToConsole([cs0 EXCEPT ![c] = k1], bs, qs, s, c)
    BY <1>6, <1>11 DEF k1
  <2> QED BY <1>3, <2>1, ReplyGood
<1>12. CASE ReplyToConsole([cs EXCEPT ![c] = AskedBusy(Cleanup(cs[c]))], bs, qs, s, c)
  <2>1. ReplyToConsole([cs0 EXCEPT ![c] = k2], bs, qs, s, c)
    BY <1>6, <1>12 DEF k1, k2
  <2> QED BY <1>4, <2>1, ReplyGood
<1> QED BY <1>9, <1>10, <1>11, <1>12

-----------------------------------------------------------------------------
(* The call that runs, and those below it *)

\* All of IInv but what a step of a script or of the event loop keeps anyway.
Safe == Typed /\ Good(exists, con, brief, queue, stack)

LEMMA TopAndBelow ==
    ASSUME NEW s \in Seq(Frame), s # <<>>, NEW d
    PROVE  LET f == s[Len(s)]
               b == Below(s)
           IN  /\ HasFrame(s, d) <=> HasFrame(b, d) \/ f.con = d
               /\ HasMain(s, d) <=> HasMain(b, d) \/ (f.con = d /\ f.kind = "main")
               /\ ~f.box => (HasCounted(s, d) <=> HasCounted(b, d))
               /\ \A c : BoxIsRecorded(c, s, d) /\ ~f.box => BoxIsRecorded(c, b, d)
               /\ \A c : DialogueHasEntry(c, s, d) => DialogueHasEntry(c, b, d)
               /\ MainIsOne(s) /\ f.kind = "main" => ~HasMain(b, f.con)
<1> DEFINE b == Below(s)
           n == Len(s)
           f == s[n]
<1>1. /\ n \in Nat \ {0} /\ DOMAIN s = 1..n /\ DOMAIN b = 1..(n - 1)
      /\ \A i \in DOMAIN b : b[i] = s[i]
  BY BelowProperties
<1> HIDE DEF b, n
<1>2. /\ \A i : i \in DOMAIN s <=> i \in DOMAIN b \/ i = n
      /\ n \notin DOMAIN b
  BY <1>1
<1>3. HasFrame(s, d) <=> HasFrame(b, d) \/ f.con = d
  BY <1>1, <1>2 DEF HasFrame
<1>4. HasMain(s, d) <=> HasMain(b, d) \/ (f.con = d /\ f.kind = "main")
  BY <1>1, <1>2 DEF HasMain
<1>5. ~f.box => (HasCounted(s, d) <=> HasCounted(b, d))
  BY <1>1, <1>2 DEF HasCounted
<1>6. ASSUME NEW c, BoxIsRecorded(c, s, d), ~f.box PROVE BoxIsRecorded(c, b, d)
  <2>1. CASE c.dialog = 0
    BY <1>1, <1>2, <1>6, <2>1 DEF BoxIsRecorded, HasBox
  <2>2. CASE c.dialog # 0
    BY <1>1, <1>2, <1>6, <2>2 DEF BoxIsRecorded
  <2> QED BY <2>1, <2>2
<1>7. MainIsOne(s) /\ f.kind = "main" => ~HasMain(b, f.con)
  BY <1>1, <1>2 DEF MainIsOne, HasMain
<1>8. \A c : DialogueHasEntry(c, s, d) => DialogueHasEntry(c, b, d)
  BY <1>1, <1>2 DEF DialogueHasEntry
<1> QED BY <1>3, <1>4, <1>5, <1>6, <1>7, <1>8 DEF b, n, f

LEMMA SafeFacts ==
    ASSUME Safe
    PROVE  /\ BoxesBelow(stack) /\ MainIsOne(stack) /\ OnlyTimed(con, stack)
           /\ \A d \in Consoles : Sound(con[d], stack, d) /\ con[d] \in Console
           /\ LivesExist(exists, con, queue)
           /\ Requests(Awaited(con), Lives(con), brief, queue)
           /\ RepliesMatch(Awaited(con), brief, stack) /\ BriefsAreGiven(brief, queue)
           /\ Typing(con, brief, queue, stack) /\ stack \in Seq(Frame)
           /\ Awaited(con) \in [Consoles -> SUBSET Entry]
<1>1. Awaited(con) \in [Consoles -> SUBSET Entry]
  BY AwaitedType DEF Safe, Typed, Typing
<1> QED BY <1>1 DEF Safe, Typed, Typing, Good, ConsolesSound, LivesExist

\* The console whose script runs, over the boxes of others, or of its own main.
LEMMA RunningFacts ==
    ASSUME Safe, JSRunning
    PROVE  /\ stack # <<>> /\ ~Top.box /\ Top \in Frame /\ me \in Consoles /\ me \in exists
           /\ con[me] \in Console /\ con[me].ctx = me /\ me # NoConsole
           /\ queue[me] = <<>> /\ ~con[me].alert
           /\ con[me].label = "Stop" /\ con[me].status \cap Interrupts = {}
           /\ Unheard(con[me]) => Unasking(con[me])
           /\ AllBoxed(Below(stack)) /\ MainIsOne(Below(stack))
           /\ \A d \in Consoles : d # me =>
                /\ Sound(con[d], Below(stack), d)
                /\ HasFrame(stack, d) => HasMain(stack, d)
<1>1. stack # <<>> /\ ~Top.box /\ Top \in Frame /\ me \in Consoles /\ Top = stack[Len(stack)]
      /\ me = Top.con /\ stack \in Seq(Frame)
  BY TopType, SafeFacts DEF JSRunning, Top, me
<1>2. con[me] \in Console /\ me # NoConsole /\ Sound(con[me], stack, me)
  BY <1>1, SafeFacts, ConsolesAssumption
<1>3. con[me].ctx = me /\ ~con[me].alert
  <2>1. HasFrame(stack, me)
    BY <1>1, TopAndBelow
  <2> QED BY <1>2, <2>1 DEF Sound
<1>4. /\ con[me].label = "Stop" /\ con[me].status \cap Interrupts = {}
      /\ Unheard(con[me]) => Unasking(con[me])
  BY <1>2, <1>3 DEF Sound, LiveIsBusy
<1>5. me \in exists /\ queue[me] = <<>>
  BY <1>1, <1>2, <1>3, SafeFacts DEF LivesExist
<1>7. AllBoxed(Below(stack)) /\ MainIsOne(Below(stack)) /\ Below(stack) \in Seq(Frame)
  BY <1>1, SafeFacts, BoxedBelow, BelowType
<1>8. ASSUME NEW d \in Consoles, d # me
      PROVE  /\ Sound(con[d], Below(stack), d)
             /\ HasFrame(stack, d) => HasMain(stack, d)
  <2>1. SameFrames(stack, Below(stack), d)
    BY <1>1, <1>8, FramesOfOthers
  <2>2. Sound(con[d], Below(stack), d)
    BY <2>1, SafeFacts, SteadyIsSteady, SoundStays
  <2>3. HasFrame(Below(stack), d) => HasMain(Below(stack), d)
    BY <1>7, AllBoxedFacts
  <2> QED BY <2>1, <2>2, <2>3, SameHas
<1> QED BY <1>1, <1>2, <1>3, <1>4, <1>5, <1>7, <1>8

\* Without a modal call of its own below, its main runs if it is what runs.
LEMMA AloneFacts ==
    ASSUME Safe, JSRunning, Alone
    PROVE  /\ ~HasFrame(Below(stack), me) /\ con[me].modalCount = 0 /\ con[me].dialog = 0
           /\ con[me].runningMain <=> Top.kind = "main"
<1>1. /\ stack # <<>> /\ ~Top.box /\ Top = stack[Len(stack)] /\ me = Top.con
      /\ me \in Consoles /\ stack \in Seq(Frame) /\ Sound(con[me], stack, me)
  BY RunningFacts, SafeFacts DEF Top, me
<1>2. /\ DOMAIN Below(stack) = 1..(Len(stack) - 1)
      /\ \A i \in DOMAIN Below(stack) : Below(stack)[i] = stack[i]
  BY <1>1, BelowProperties
<1>3. ~HasFrame(Below(stack), me)
  BY <1>2 DEF HasFrame, Alone
<1>4. ~HasCounted(stack, me) /\ (HasMain(stack, me) <=> Top.kind = "main")
  <2>1. ~HasCounted(Below(stack), me) /\ ~HasMain(Below(stack), me)
    BY <1>3 DEF HasFrame, HasCounted, HasMain
  <2> QED BY <1>1, <2>1, TopAndBelow
<1>5. con[me].dialog = 0
  BY <1>1, <1>4 DEF Sound, BoxIsRecorded, HasCounted
<1> QED BY <1>1, <1>3, <1>4, <1>5 DEF Sound

-----------------------------------------------------------------------------
(* A call ends *)

\* Briefs that answer whom they answered.
SameDebts(bs, bs2) ==
    \A b \in Consoles : /\ bs2[b].callbackId = bs[b].callbackId
                        /\ bs2[b].caller = bs[b].caller /\ bs2[b].request = bs[b].request

\* When a handler is back its request is closed, and nothing else.
LEMMA RepliedFields ==
    ASSUME NEW bs \in [Consoles -> Brief], NEW f
    PROVE  \A b \in Consoles :
             /\ Replied(bs, f)[b].caller = bs[b].caller
             /\ Replied(bs, f)[b].request = bs[b].request
             /\ Replied(bs, f)[b].has = bs[b].has /\ Replied(bs, f)[b].given = bs[b].given
             /\ Replied(bs, f)[b].callbackId =
                  IF f.kind = "reply" /\ b = f.from THEN NoId ELSE bs[b].callbackId
<1>1. \A g \in Brief :
        LET h == [g EXCEPT !.callbackId = NoId]
        IN  /\ h.caller = g.caller /\ h.request = g.request /\ h.has = g.has
            /\ h.given = g.given /\ h.callbackId = NoId
  BY DEF Brief
<1>2. \A b \in Consoles :
        Replied(bs, f)[b] = IF f.kind = "reply" /\ b = f.from
                            THEN [bs[b] EXCEPT !.callbackId = NoId] ELSE bs[b]
  BY DEF Replied
<1> DEFINE h(b) == [bs[b] EXCEPT !.callbackId = NoId]
<1>3. \A b \in Consoles :
        /\ h(b).caller = bs[b].caller /\ h(b).request = bs[b].request
        /\ h(b).has = bs[b].has /\ h(b).given = bs[b].given /\ h(b).callbackId = NoId
  BY <1>1
<1>4. \A b \in Consoles :
        Replied(bs, f)[b] = IF f.kind = "reply" /\ b = f.from THEN h(b) ELSE bs[b]
  BY <1>2
<1> HIDE DEF h
<1> QED BY <1>3, <1>4

LEMMA RepliedRequests ==
    ASSUME Safe, stack # <<>>, NEW bs \in [Consoles -> Brief], SameDebts(brief, bs),
           NEW aw2, \A a \in Consoles : aw2[a] \subseteq con[a].callbacks,
           NEW lv2, \A a \in Consoles : lv2[a] <=> con[a].ctx # NoConsole
    PROVE  Requests(aw2, lv2, Replied(bs, Top), queue)
<1> DEFINE r == Replied(bs, Top)
<1>1. /\ Requests(Awaited(con), Lives(con), brief, queue)
      /\ Awaited(con) \in [Consoles -> SUBSET Entry]
      /\ RepliesMatch(Awaited(con), brief, stack)
  BY SafeFacts
<1>2. \A a \in Consoles : Awaited(con)[a] = con[a].callbacks
  BY DEF Awaited
<1>3. \A b \in Consoles : /\ r[b].caller = brief[b].caller /\ r[b].request = brief[b].request
                          /\ r[b].callbackId = IF Top.kind = "reply" /\ b = Top.from
                                               THEN NoId ELSE brief[b].callbackId
  BY RepliedFields DEF SameDebts
<1>4. Top.kind = "reply" => Top.from \in Consoles /\ Unawaited(Awaited(con), brief[Top.from].callbackId)
  BY <1>1, SafeFacts, TopType DEF RepliesMatch, Unawaited, Top
<1> HIDE DEF r
<1>5. BriefsStay(aw2, brief, queue, r, queue)
  <2> SUFFICES ASSUME NEW b \in Consoles, NEW f2 \in BriefsOf(r, queue, b)
               PROVE  \/ f2.callbackId = NoId
                      \/ \E f \in BriefsOf(brief, queue, b) :
                           /\ f.callbackId = f2.callbackId /\ f.caller = f2.caller
                           /\ f.request = f2.request \/ Unawaited(aw2, f2.callbackId)
    BY DEF BriefsStay
  <2>1. CASE f2 = r[b]
    <3>1. brief[b] \in BriefsOf(brief, queue, b)
      BY DEF BriefsOf
    <3> QED BY <1>3, <2>1, <3>1
  <2>2. CASE f2 # r[b]
    <3>1. f2 \in BriefsOf(brief, queue, b)
      BY <2>2 DEF BriefsOf
    <3> QED BY <3>1
  <2> QED BY <2>1, <2>2
<1>6. DebtsStay(aw2, Lives(con), brief, queue, lv2, r, queue)
  <2> SUFFICES ASSUME NEW a \in Consoles, NEW b \in Consoles, NEW e \in aw2[a]
               PROVE  OwesIn(lv2, r, queue, b, a, e.id) <=>
                        OwesIn(Lives(con), brief, queue, b, a, e.id)
    BY DEF DebtsStay
  <2>1. lv2[b] <=> Lives(con)[b]
    BY DEF Lives
  <2>2. e \in Awaited(con)[a] /\ e.id # NoId
    BY <1>1, <1>2, ConsolesAssumption DEF Entry
  <2>3. r[b].callbackId = e.id <=> brief[b].callbackId = e.id
    BY <1>3, <1>4, <2>2 DEF Unawaited
  <2> QED BY <1>3, <2>1, <2>3 DEF OwesIn
<1>7. NothingAsked(Awaited(con), Lives(con), brief, queue, aw2, lv2, r, queue)
  BY <1>2, <1>5, <1>6 DEF NothingAsked
<1>8. Requests(aw2, lv2, r, queue)
  BY <1>1, <1>7, RequestsStay
<1> QED BY <1>8 DEF r

LEMMA RepliedGiven ==
    ASSUME NEW bs \in [Consoles -> Brief], BriefsAreGiven(bs, queue)
    PROVE  BriefsAreGiven(Replied(bs, Top), queue)
<1> DEFINE r == Replied(bs, Top)
<1>1. \A b \in Consoles : r[b].has = bs[b].has /\ r[b].given = bs[b].given
  BY RepliedFields
<1> HIDE DEF r
<1>2. BriefsAreGiven(r, queue)
  <2> SUFFICES ASSUME NEW b \in Consoles, NEW f \in BriefsOf(r, queue, b), f.has PROVE f.given
    BY DEF BriefsAreGiven
  <2>1. CASE f = r[b]
    <3>1. bs[b] \in BriefsOf(bs, queue, b)
      BY DEF BriefsOf
    <3> QED BY <1>1, <2>1, <3>1 DEF BriefsAreGiven
  <2>2. CASE f # r[b]
    <3>1. f \in BriefsOf(bs, queue, b)
      BY <2>2 DEF BriefsOf
    <3> QED BY <3>1 DEF BriefsAreGiven
  <2> QED BY <2>1, <2>2
<1> QED BY <1>2 DEF r

\* A call that ends what its console does: main, or a last callback, that
\* returns with nothing to wait for, or is interrupted, or throws.
LEMMA CallWrapsUp ==
    ASSUME Safe, stack # <<>>, NEW cs0, NEW bs, NEW s, NEW threw \in BOOLEAN,
           Typing(cs0, bs, queue, s), CallEnds(cs0, bs, s, threw),
           Ending(exists, cs0, Replied(bs, Top), queue, Below(s), me),
           cs0[me].runningMain => Top.kind = "main",
           threw \/ ~SomethingAwaited(cs0[me]), Practices = {}
    PROVE  GoodNow(exists)
<1> DEFINE notMain == Top.kind # "main"
           c1 == [ClearTimeout(cs0[me]) EXCEPT !.runningMain = @ /\ notMain]
           c  == Afterwards(c1, threw)
           e  == AskedBusy(c)
           cs == [Timed(cs0, me, c) EXCEPT ![me] = AskedBusy(@)]
<1>1. me \in Consoles /\ notMain \in BOOLEAN /\ cs0[me] \in Console
  BY SafeFacts, TopType DEF Typing
<1>2. ~(cs0[me].runningMain /\ notMain)
  OBVIOUS
<1> HIDE DEF notMain
<1>3. /\ c1 \in Console /\ Alike(cs0[me], c)
      /\ c.runningMain = (cs0[me].runningMain /\ notMain) /\ c.waitingCached
      /\ c.waiting = (~Interrupted(cs0[me]) /\ ~threw /\ SomethingAwaited(cs0[me]))
      /\ SomethingAwaited(c1) <=> SomethingAwaited(cs0[me])
      /\ ~c.timed
  BY <1>1, CallEndFields
<1>4. CallEnds(cs0, bs, s, threw) <=>
        IF IsBusy(c) THEN Becomes(cs, Replied(bs, Top), queue, Below(s))
        ELSE WrapUp(cs, Replied(bs, Top), queue, Below(s), me, Outcome(c1, threw))
  BY DEF CallEnds, notMain
<1>5. Outcome(c1, threw) \in Completions /\ Outcome(c1, threw) # "MORETODO"
  BY <1>3, OutcomeCases
<1> HIDE DEF c1
<1>6. Timed(cs0, me, c)[me] = c
  BY <1>1 DEF Timed
<1>7. Timed(cs0, me, c) \in [Consoles -> Console]
  BY <1>3, TimedTyped DEF Typing, Alike
<1>8. ~IsBusy(c)
  BY <1>2, <1>3 DEF IsBusy, IsWaiting
<1>9. \A d \in Consoles : d # me => Timed(cs0, me, c)[d] = ClearTimeout(cs0[d])
  BY DEF Timed
<1> HIDE DEF c
<1>10. /\ e \in Console /\ e.ctx = cs0[me].ctx /\ e.alert = cs0[me].alert
       /\ e.modalCount = cs0[me].modalCount /\ ~e.timed
  BY <1>3, AskedBusyFields DEF Alike
<1>11. /\ cs \in [Consoles -> Console] /\ cs[me] = e
       /\ \A d \in Consoles : d # me => cs[d] = ClearTimeout(cs0[d])
  BY <1>1, <1>6, <1>7, <1>9, <1>10
<1> HIDE DEF cs, e
<1>12. ASSUME NEW d \in Consoles, d # me
       PROVE  /\ Sound(cs[d], Below(s), d) /\ cs[d].ctx = cs0[d].ctx
              /\ cs[d].callbacks = cs0[d].callbacks /\ ~cs[d].timed
  <2>1. cs0[d] \in Console /\ cs[d] = ClearTimeout(cs0[d])
    BY <1>11, <1>12 DEF Typing
  <2>2. /\ Steady(cs0[d], cs[d]) /\ cs[d].ctx = cs0[d].ctx
        /\ cs[d].callbacks = cs0[d].callbacks /\ ~cs[d].timed
    BY <2>1, TimeoutFields, AlikeIsSteady DEF Alike
  <2>3. Sound(cs0[d], Below(s), d)
    BY <1>12 DEF Ending
  <2> QED BY <2>2, <2>3, SameIsSame, SoundStays
<1>13. Lives(cs) = Lives(cs0)
  <2>1. \A d \in Consoles : cs[d].ctx = cs0[d].ctx
    BY <1>10, <1>11, <1>12
  <2> QED BY <2>1 DEF Lives
<1>14. [Awaited(cs) EXCEPT ![me] = {}] = [Awaited(cs0) EXCEPT ![me] = {}]
  <2>1. /\ [Awaited(cs) EXCEPT ![me] = {}] \in [Consoles -> SUBSET Entry]
        /\ [Awaited(cs0) EXCEPT ![me] = {}] \in [Consoles -> SUBSET Entry]
    BY <1>11, AwaitedType DEF Typing
  <2>2. \A d \in Consoles :
          [Awaited(cs) EXCEPT ![me] = {}][d] = [Awaited(cs0) EXCEPT ![me] = {}][d]
    BY <1>1, <1>12, EndedAwaited
  <2> QED BY <2>1, <2>2
<1>15. Ending(exists, cs, Replied(bs, Top), queue, Below(s), me)
  <2>1. LivesExist(exists, cs, queue)
    BY <1>10, <1>11, <1>12 DEF Ending, LivesExist
  <2> QED BY <1>10, <1>11, <1>12, <1>13, <1>14, <2>1 DEF Ending
<1>16. Typing(cs, Replied(bs, Top), queue, Below(s))
  BY <1>11, RepliedTyped, BelowType DEF Typing
<1>17. Untimed(cs)
  BY <1>10, <1>11, <1>12 DEF Untimed
<1> QED BY <1>1, <1>4, <1>5, <1>8, <1>15, <1>16, <1>17, WrapUpGood DEF Safe

\* What a call that throws leaves of its console, and what it leaves alone.
Throwing(cs0, bs, s) ==
    /\ Typing(cs0, bs, queue, s)
    /\ AllBoxed(Below(s)) /\ MainIsOne(Below(s)) /\ ~HasFrame(Below(s), me)
    /\ \A d \in Consoles : d # me => /\ Sound(cs0[d], Below(s), d) /\ cs0[d].ctx = con[d].ctx
                                     /\ cs0[d].callbacks = con[d].callbacks
    /\ cs0[me].ctx = me /\ ~cs0[me].alert /\ cs0[me].modalCount = 0
    /\ cs0[me].runningMain => Top.kind = "main"
    /\ SameDebts(brief, bs) /\ BriefsAreGiven(bs, queue)

LEMMA ThrowingGood ==
    ASSUME Safe, stack # <<>>, con[me].ctx = me, NEW cs0, NEW bs, NEW s,
           Throwing(cs0, bs, s), CallEnds(cs0, bs, s, TRUE), Practices = {}
    PROVE  GoodNow(exists)
<1>1. me \in Consoles /\ me # NoConsole
  BY SafeFacts, TopType, ConsolesAssumption
<1>2. LivesExist(exists, cs0, queue)
  BY SafeFacts DEF Throwing, LivesExist
<1>3. Requests([Awaited(cs0) EXCEPT ![me] = {}], Lives(cs0), Replied(bs, Top), queue)
  <2> DEFINE aw2 == [Awaited(cs0) EXCEPT ![me] = {}]
             lv2 == Lives(cs0)
  <2>1. \A a \in Consoles : aw2[a] = IF a = me THEN {} ELSE cs0[a].callbacks
    BY <1>1, EndedAwaited
  <2> HIDE DEF aw2
  <2>2. \A a \in Consoles : aw2[a] \subseteq con[a].callbacks
    BY <2>1 DEF Throwing
  <2>3. \A a \in Consoles : lv2[a] <=> con[a].ctx # NoConsole
    BY DEF Lives, Throwing
  <2> HIDE DEF lv2
  <2>4. Requests(aw2, lv2, Replied(bs, Top), queue)
    BY <2>2, <2>3, RepliedRequests DEF Throwing, Typing
  <2> QED BY <2>4 DEF aw2, lv2
<1>4. BriefsAreGiven(Replied(bs, Top), queue)
  BY RepliedGiven DEF Throwing, Typing
<1>5. Ending(exists, cs0, Replied(bs, Top), queue, Below(s), me)
  BY <1>2, <1>3, <1>4 DEF Ending, Throwing
<1> QED BY <1>5, CallWrapsUp DEF Throwing

LEMMA SameDebtsSame == \A bs : SameDebts(bs, bs)
BY DEF SameDebts

\* A throw from JavaScript that is not over a modal call of its own.
LEMMA AloneThrowsGood ==
    ASSUME Safe, JSRunning, Alone, NEW x \in Console, NEW bs \in [Consoles -> Brief],
           x.ctx = me, ~x.alert, x.modalCount = 0, x.runningMain => Top.kind = "main",
           SameDebts(brief, bs), BriefsAreGiven(bs, queue), Practices = {},
           CallEnds([con EXCEPT ![me] = x], bs, stack, TRUE)
    PROVE  GoodNow(exists)
<1> DEFINE cs0 == [con EXCEPT ![me] = x]
<1>1. /\ cs0 \in [Consoles -> Console] /\ cs0[me] = x
      /\ \A d \in Consoles : d # me => cs0[d] = con[d]
  BY RunningFacts, SafeFacts DEF Typing
<1> HIDE DEF cs0
<1>2. Throwing(cs0, bs, stack)
  BY <1>1, RunningFacts, AloneFacts, SafeFacts DEF Throwing, Typing
<1>3. CallEnds(cs0, bs, stack, TRUE)
  BY DEF cs0
<1> QED BY <1>2, <1>3, RunningFacts, ThrowingGood

\* An error that is thrown there.
LEMMA ThrowsGood ==
    ASSUME Practices = {}, Safe, JSRunning, NEW cs \in [Consoles -> Console], Throws(cs),
           \A d \in Consoles : d # me => cs[d] = con[d],
           cs[me].ctx = me, ~cs[me].alert, cs[me].modalCount = con[me].modalCount
    PROVE  GoodNow(exists)
<1> DEFINE x == PrepForThrow(cs[me])
<1>1. Alone /\ CallEnds([cs EXCEPT ![me] = x], brief, stack, TRUE)
  BY RunningFacts DEF Throws
<1>2. x \in Console /\ x.ctx = me /\ ~x.alert /\ x.modalCount = 0 /\ ~x.runningMain
  BY <1>1, RunningFacts, AloneFacts, RunningFields DEF PrepForThrow, Alike
<1> HIDE DEF x
<1>3. [cs EXCEPT ![me] = x] = [con EXCEPT ![me] = x]
  BY SafeFacts DEF Typing
<1>4. brief \in [Consoles -> Brief] /\ BriefsAreGiven(brief, queue)
  BY SafeFacts DEF Typing
<1>5. CallEnds([con EXCEPT ![me] = x], brief, stack, TRUE)
  BY <1>1, <1>3
<1> QED BY <1>1, <1>2, <1>4, <1>5, SameDebtsSame, AloneThrowsGood

\* A call that returns leaves its console waiting for what there is.
LEMMA ReturnGood ==
    ASSUME Practices = {}, Safe, Return
    PROVE  GoodNow(exists)
<1> DEFINE notMain == Top.kind # "main"
           c1 == [ClearTimeout(con[me]) EXCEPT !.runningMain = @ /\ notMain]
           c  == Afterwards(c1, FALSE)
           e  == AskedBusy(c)
           cs == [Timed(con, me, c) EXCEPT ![me] = AskedBusy(@)]
           b  == Below(stack)
           bs == Replied(brief, Top)
           s  == stack
<1>1. JSRunning /\ CallEnds(con, brief, stack, FALSE)
  BY DEF Return, JS
<1>2. /\ stack # <<>> /\ ~Top.box /\ Top = stack[Len(stack)] /\ me = Top.con /\ me \in Consoles
      /\ con[me] \in Console /\ con[me].ctx = me /\ me # NoConsole /\ ~con[me].alert
      /\ con[me].label = "Stop" /\ con[me].status \cap Interrupts = {}
      /\ AllBoxed(b) /\ MainIsOne(b) /\ b \in Seq(Frame) /\ stack \in Seq(Frame)
      /\ Sound(con[me], stack, me) /\ MainIsOne(stack) /\ me \in exists /\ queue[me] = <<>>
  BY <1>1, RunningFacts, SafeFacts, BelowType DEF Top, me
<1>3. /\ HasMain(b, me) <=> con[me].runningMain /\ notMain
      /\ BoxIsRecorded(con[me], b, me) /\ DialogueHasEntry(con[me], b, me)
      /\ con[me].modalCount = IF HasCounted(b, me) THEN 1 ELSE 0
      /\ HasFrame(b, me) => HasMain(b, me)
  BY <1>2, TopAndBelow, AllBoxedFacts DEF Sound
<1>4. notMain \in BOOLEAN
  OBVIOUS
<1> HIDE DEF notMain, b
<1>5. CallEnds(con, brief, stack, FALSE) <=>
        IF IsBusy(c) THEN Becomes(cs, bs, queue, b)
        ELSE WrapUp(cs, bs, queue, b, me, Outcome(c1, FALSE))
  BY DEF CallEnds, notMain, b
<1>6. /\ Alike(con[me], c) /\ c.runningMain = (con[me].runningMain /\ notMain)
      /\ c.waitingCached /\ c.waiting = (~Interrupted(con[me]) /\ SomethingAwaited(con[me]))
      /\ c.status = con[me].status /\ c \in Console /\ ~c.timed
  <2>1. con[me] \in Console
    BY <1>2
  <2> QED BY <1>4, <2>1, CallEndFields DEF Alike
<1>7. ~Interrupted(con[me])
  BY <1>2 DEF Interrupted
<1>8. IsBusy(c) <=> HasMain(b, me) \/ SomethingAwaited(con[me])
  BY <1>3, <1>6, <1>7 DEF IsBusy, IsWaiting
<1>10. bs \in [Consoles -> Brief] /\ BriefsAreGiven(bs, queue)
  BY SafeFacts, RepliedTyped, RepliedGiven DEF Typing
<1>11. CASE IsBusy(c)
  <2>1. HasFrame(b, me) \/ con[me].callbacks # {}
    <3>1. HasMain(b, me) => HasFrame(b, me)
      BY DEF HasMain, HasFrame
    <3>2. con[me].dialog # 0 => HasFrame(b, me)
      BY <1>3 DEF BoxIsRecorded, HasFrame
    <3>3. HasMain(b, me) \/ con[me].callbacks # {} \/ con[me].dialog # 0
      BY <1>2, <1>8, <1>11 DEF SomethingAwaited
    <3> QED BY <3>1, <3>2, <3>3
  <2>2. c.waiting \/ (c.runningMain /\ con[me].callbacks = {})
    <3>1. CASE SomethingAwaited(con[me])
      BY <1>6, <1>7, <3>1
    <3>2. CASE ~SomethingAwaited(con[me])
      BY <1>3, <1>6, <1>8, <1>11, <3>2 DEF SomethingAwaited
    <3> QED BY <3>1, <3>2
  <2>3. /\ Timed(con, me, c) \in [Consoles -> Console] /\ Timed(con, me, c)[me] = c
        /\ \A d \in Consoles : d # me => Timed(con, me, c)[d] = ClearTimeout(con[d])
    <3>1. Timed(con, me, c) \in [Consoles -> Console]
      BY <1>6, SafeFacts, TimedTyped DEF Typing
    <3> HIDE DEF c
    <3> QED BY <1>2, <3>1 DEF Timed
  <2> HIDE DEF c
  <2>4. /\ Alike(c, e) /\ e.runningMain = c.runningMain /\ e.status = c.status
        /\ e = c \/ (e.waitingCached /\ e.waiting = IsWaiting(c))
        /\ ~e.timed
    BY <1>6, AskedBusyFields
  <2>5. /\ e \in Console /\ e.ctx = me /\ ~e.alert /\ e.label = "Stop"
        /\ e.callbacks = con[me].callbacks
        /\ e.dialog = con[me].dialog /\ e.modalCount = con[me].modalCount
        /\ e.runningMain = (con[me].runningMain /\ notMain)
        /\ e.waiting \/ (e.runningMain /\ e.callbacks = {})
        /\ e.status = con[me].status /\ ~e.timed
    BY <1>2, <1>6, <2>2, <2>4 DEF Alike, IsWaiting
  <2>6. cs[me] = e /\ \A d \in Consoles : d # me => cs[d] = ClearTimeout(con[d])
    BY <1>2, <2>3
  <2> HIDE DEF cs, e
  <2>7. Sound(cs[me], b, me)
    <3>1. BoxIsRecorded(e, b, me) /\ DialogueHasEntry(e, b, me)
      BY <1>3, <2>5 DEF BoxIsRecorded, DialogueHasEntry
    <3>2. DeadIsClear(e) /\ LiveIsBusy(e, b, me)
      BY <1>2, <2>1, <2>5 DEF DeadIsClear, LiveIsBusy, Unheard, Unasking
    <3> QED BY <1>2, <1>3, <2>5, <2>6, <3>1, <3>2 DEF Sound
  <2>8. ASSUME NEW d \in Consoles, d # me
        PROVE  /\ Sound(cs[d], b, d) /\ cs[d].ctx = con[d].ctx
               /\ cs[d].callbacks = con[d].callbacks /\ ~cs[d].timed
    <3>1. con[d] \in Console /\ Sound(con[d], b, d)
      BY <1>1, <2>8, SafeFacts, RunningFacts DEF b
    <3>2. /\ Steady(con[d], cs[d]) /\ cs[d].ctx = con[d].ctx
          /\ cs[d].callbacks = con[d].callbacks /\ ~cs[d].timed
      BY <2>6, <2>8, <3>1, TimeoutFields, AlikeIsSteady DEF Alike
    <3> QED BY <3>1, <3>2, SameIsSame, SoundStays
  <2>9. \A d \in Consoles : cs[d].ctx = con[d].ctx /\ cs[d].callbacks = con[d].callbacks
    BY <1>2, <2>5, <2>6, <2>8
  <2>10. Requests(Awaited(cs), Lives(cs), bs, queue)
    <3>1. \A a \in Consoles : Awaited(cs)[a] \subseteq con[a].callbacks
      BY <2>9 DEF Awaited
    <3>2. \A a \in Consoles : Lives(cs)[a] <=> con[a].ctx # NoConsole
      BY <2>9 DEF Lives
    <3> QED BY <1>2, <3>1, <3>2, SafeFacts, SameDebtsSame, RepliedRequests DEF Typing
  <2>11. LivesExist(exists, cs, queue)
    BY <2>9, SafeFacts DEF LivesExist
  <2>12. OnlyTimed(cs, b)
    <3>1. Untimed(cs)
      BY <2>5, <2>6, <2>8 DEF Untimed
    <3> QED BY <1>2, <3>1, AllBoxedFacts
  <2>13. Good(exists, cs, bs, queue, b)
    BY <1>2, <1>10, <2>7, <2>8, <2>10, <2>11, <2>12, GoodBoxed
  <2> QED BY <1>1, <1>5, <1>11, <2>13, BecomesGood DEF c, cs
<1>12. CASE ~IsBusy(c)
  <2>1. ~HasMain(b, me) /\ ~SomethingAwaited(con[me])
    BY <1>8, <1>12
  <2>2. ~HasFrame(b, me) /\ con[me].modalCount = 0
    BY <1>3, <2>1 DEF HasFrame, HasCounted
  <2>3. con[me].runningMain => Top.kind = "main"
    BY <1>3, <2>1 DEF notMain
  <2>4. Requests([Awaited(con) EXCEPT ![me] = {}], Lives(con), bs, queue)
    <3> DEFINE aw2 == [Awaited(con) EXCEPT ![me] = {}]
    <3>1. \A a \in Consoles : aw2[a] = IF a = me THEN {} ELSE con[a].callbacks
      BY <1>2, EndedAwaited
    <3> HIDE DEF aw2
    <3>2. \A a \in Consoles : aw2[a] \subseteq con[a].callbacks
      BY <3>1
    <3>3. \A a \in Consoles : Lives(con)[a] <=> con[a].ctx # NoConsole
      BY DEF Lives
    <3>4. Requests(aw2, Lives(con), bs, queue)
      BY <1>2, <3>2, <3>3, SafeFacts, SameDebtsSame, RepliedRequests DEF Typing
    <3> QED BY <3>4 DEF aw2
  <2>5. \A d \in Consoles : d # me => Sound(con[d], b, d)
    BY <1>1, RunningFacts DEF b
  <2>6. Ending(exists, con, bs, queue, b, me)
    BY <1>2, <1>10, <2>2, <2>4, <2>5, SafeFacts DEF Ending
  <2>7. Typing(con, brief, queue, stack)
    BY SafeFacts
  <2> HIDE DEF bs
  <2>8. Ending(exists, con, Replied(brief, Top), queue, Below(stack), me)
    BY <2>6 DEF bs, b
  <2> QED BY <1>1, <1>2, <2>1, <2>3, <2>7, <2>8, CallWrapsUp
<1> QED BY <1>11, <1>12

-----------------------------------------------------------------------------
(* What running JavaScript does *)

LEMMA PracticesOfNone ==
    ASSUME Practices = {}
    PROVE  /\ MayInterrupt => Alone
           /\ \A d : MayQueue(d) => queue[d] = <<>>
           /\ \A d : MayClose(d) => \A a \in exists : ~AwaitsReply(a, d)
BY DEF MayInterrupt, MayQueue, MayClose

LEMMA ErrorGood ==
    ASSUME Practices = {}, Safe, Error
    PROVE  GoodNow(exists)
<1>1. JSRunning /\ Throws(con)
  BY DEF Error, JS
<1> QED BY <1>1, RunningFacts, SafeFacts, ThrowsGood DEF Typing

LEMMA TimeoutGood ==
    ASSUME Practices = {}, Safe, Timeout
    PROVE  GoodNow(exists)
<1> DEFINE S == con[me].status \cup {"TIMEOUT"}
           x == [con[me] EXCEPT !.status = S]
<1>1. JSRunning /\ Alone /\ CallEnds([con EXCEPT ![me] = x], brief, stack, TRUE)
  BY PracticesOfNone DEF Timeout, JS
<1>2. con[me] \in Console
  BY <1>1, RunningFacts
<1>3. S \in SUBSET Completions
  BY <1>2 DEF Console, Completions
<1> HIDE DEF S
<1>4. /\ x \in Console /\ x.ctx = con[me].ctx /\ x.alert = con[me].alert
      /\ x.modalCount = con[me].modalCount /\ x.runningMain = con[me].runningMain
  BY <1>2, <1>3, StatusFields DEF Alike
<1> HIDE DEF x
<1>5. x.ctx = me /\ ~x.alert /\ x.modalCount = 0 /\ (x.runningMain => Top.kind = "main")
  BY <1>1, <1>4, RunningFacts, AloneFacts
<1>6. brief \in [Consoles -> Brief] /\ BriefsAreGiven(brief, queue)
  BY SafeFacts DEF Typing
<1> QED BY <1>1, <1>4, <1>5, <1>6, SameDebtsSame, AloneThrowsGood

LEMMA StopScriptGood ==
    ASSUME Practices = {}, Safe, StopScript
    PROVE  GoodNow(exists)
<1> DEFINE S == con[me].status \cup {"STOPPED"}
           x == [con[me] EXCEPT !.status = S]
           y == ClearCallbacks(x)
<1>1. /\ JSRunning /\ Alone
      /\ x.modalCount > 0 \/ CallEnds([con EXCEPT ![me] = y], brief, stack, TRUE)
  BY PracticesOfNone DEF StopScript, JS
<1>2. con[me] \in Console
  BY <1>1, RunningFacts
<1>3. S \in SUBSET Completions
  BY <1>2 DEF Console, Completions
<1> HIDE DEF S
<1>4. /\ x \in Console /\ x.ctx = con[me].ctx /\ x.alert = con[me].alert
      /\ x.modalCount = con[me].modalCount
  BY <1>2, <1>3, StatusFields DEF Alike
<1> HIDE DEF x
<1>5. y \in Console /\ y.ctx = me /\ ~y.alert /\ y.modalCount = 0 /\ ~y.runningMain
  BY <1>1, <1>4, RunningFacts, AloneFacts, ClearedFields
<1>6. ~(x.modalCount > 0)
  BY <1>1, <1>4, AloneFacts
<1> HIDE DEF y
<1>7. brief \in [Consoles -> Brief] /\ BriefsAreGiven(brief, queue)
  BY SafeFacts DEF Typing
<1> QED BY <1>1, <1>5, <1>6, <1>7, SameDebtsSame, AloneThrowsGood

\* A brief whose contents change is owed to the same caller.
LEMMA BriefChanged ==
    ASSUME Safe, NEW c \in Consoles, NEW f \in Brief,
           f.callbackId = brief[c].callbackId, f.caller = brief[c].caller,
           f.request = brief[c].request, f.has => f.given
    PROVE  /\ [brief EXCEPT ![c] = f] \in [Consoles -> Brief]
           /\ SameDebts(brief, [brief EXCEPT ![c] = f])
           /\ BriefsAreGiven([brief EXCEPT ![c] = f], queue)
<1> DEFINE bs == [brief EXCEPT ![c] = f]
<1>1. /\ bs \in [Consoles -> Brief] /\ bs[c] = f
      /\ \A b \in Consoles : b # c => bs[b] = brief[b]
  BY SafeFacts DEF Typing
<1> HIDE DEF bs
<1>2. SameDebts(brief, bs)
  BY <1>1 DEF SameDebts
<1>3. BriefsAreGiven(bs, queue)
  <2> SUFFICES ASSUME NEW b \in Consoles, NEW g \in BriefsOf(bs, queue, b), g.has PROVE g.given
    BY DEF BriefsAreGiven
  <2>1. g = f \/ g \in BriefsOf(brief, queue, b)
    BY <1>1 DEF BriefsOf
  <2> QED BY <2>1, SafeFacts DEF BriefsAreGiven
<1> QED BY <1>1, <1>2, <1>3 DEF bs

LEMMA ChainScriptGood ==
    ASSUME Practices = {}, Safe, NEW given \in Giving, ChainScript(given)
    PROVE  GoodNow(exists)
<1> DEFINE S == con[me].status \cup {"TOCHAIN"}
           x == [con[me] EXCEPT !.status = S]
           f == [brief[me] EXCEPT !.has = given, !.given = given]
<1>1. /\ JSRunning /\ Alone
      /\ CallEnds([con EXCEPT ![me] = x], [brief EXCEPT ![me] = f], stack, TRUE)
  BY PracticesOfNone DEF ChainScript, JS
<1>2. con[me] \in Console /\ me \in Consoles /\ brief[me] \in Brief
  BY <1>1, RunningFacts, SafeFacts DEF Typing
<1>3. S \in SUBSET Completions
  BY <1>2 DEF Console, Completions
<1> HIDE DEF S
<1>4. /\ x \in Console /\ x.ctx = con[me].ctx /\ x.alert = con[me].alert
      /\ x.modalCount = con[me].modalCount /\ x.runningMain = con[me].runningMain
  BY <1>2, <1>3, StatusFields DEF Alike
<1> HIDE DEF x
<1>5. x.ctx = me /\ ~x.alert /\ x.modalCount = 0 /\ (x.runningMain => Top.kind = "main")
  BY <1>1, <1>4, RunningFacts, AloneFacts
<1>6. /\ f \in Brief /\ f.callbackId = brief[me].callbackId /\ f.caller = brief[me].caller
      /\ f.request = brief[me].request /\ f.has = given /\ f.given = given
  BY <1>2, GivingAssumption DEF Brief
<1> HIDE DEF f
<1>7. /\ [brief EXCEPT ![me] = f] \in [Consoles -> Brief]
      /\ SameDebts(brief, [brief EXCEPT ![me] = f])
      /\ BriefsAreGiven([brief EXCEPT ![me] = f], queue)
  BY <1>2, <1>6, BriefChanged
<1> QED BY <1>1, <1>4, <1>5, <1>7, AloneThrowsGood

LEMMA SameDebtsRequests ==
    ASSUME Safe, NEW bs, SameDebts(brief, bs)
    PROVE  Requests(Awaited(con), Lives(con), bs, queue)
<1>1. BriefsStay(Awaited(con), brief, queue, bs, queue)
  <2> SUFFICES ASSUME NEW b \in Consoles, NEW f2 \in BriefsOf(bs, queue, b)
               PROVE  \E f \in BriefsOf(brief, queue, b) :
                        /\ f.callbackId = f2.callbackId /\ f.caller = f2.caller
                        /\ f.request = f2.request
    BY DEF BriefsStay
  <2>1. brief[b] \in BriefsOf(brief, queue, b)
    BY DEF BriefsOf
  <2>2. f2 = bs[b] \/ f2 \in BriefsOf(brief, queue, b)
    BY DEF BriefsOf
  <2> QED BY <2>1, <2>2 DEF SameDebts
<1>2. DebtsStay(Awaited(con), Lives(con), brief, queue, Lives(con), bs, queue)
  BY DEF DebtsStay, OwesIn, SameDebts
<1>3. NothingAsked(Awaited(con), Lives(con), brief, queue, Awaited(con), Lives(con), bs, queue)
  BY <1>1, <1>2 DEF NothingAsked
<1> QED BY <1>3, SafeFacts, RequestsStay

LEMMA GetBriefGood ==
    ASSUME Practices = {}, Safe, GetBrief
    PROVE  GoodNow(exists)
<1> DEFINE f == [brief[me] EXCEPT !.has = FALSE]
           bs == [brief EXCEPT ![me] = f]
<1>1. JSRunning /\ (Becomes(con, bs, queue, stack) \/ Throws(con))
  BY DEF GetBrief, JS
<1>2. CASE Throws(con)
  BY <1>1, <1>2, RunningFacts, SafeFacts, ThrowsGood DEF Typing
<1>3. CASE Becomes(con, bs, queue, stack)
  <2>1. me \in Consoles /\ brief[me] \in Brief
    BY <1>1, RunningFacts, SafeFacts DEF Typing
  <2>2. /\ f \in Brief /\ f.callbackId = brief[me].callbackId /\ f.caller = brief[me].caller
        /\ f.request = brief[me].request /\ f.has = FALSE
    BY <2>1 DEF Brief
  <2> HIDE DEF f
  <2>3. SameDebts(brief, bs) /\ BriefsAreGiven(bs, queue)
    BY <2>1, <2>2, BriefChanged
  <2> HIDE DEF bs
  <2>4. RepliesMatch(Awaited(con), bs, stack)
    BY <2>3, SafeFacts DEF RepliesMatch, SameDebts
  <2>5. Good(exists, con, bs, queue, stack)
    BY <2>3, <2>4, SameDebtsRequests DEF Safe, Good
  <2> QED BY <1>3, <2>5, BecomesGood
<1> QED BY <1>1, <1>2, <1>3

\* A console's own entries may change as its script runs.
LEMMA OwnEntries ==
    ASSUME NEW c, NEW x, NEW s, NEW d, Sound(c, s, d), HasFrame(s, d),
           x.ctx = c.ctx, x.alert = c.alert, x.dialog = c.dialog, x.label = c.label,
           x.modalCount = c.modalCount, x.runningMain = c.runningMain, x.status = c.status,
           Unheard(x) => Unasking(x),
           \A e \in c.callbacks : e.type = "CB_DIALOGUE" => e \in x.callbacks
    PROVE  Sound(x, s, d)
<1>1. c.ctx # NoConsole
  BY DEF Sound
<1>2. DeadIsClear(x) /\ LiveIsBusy(x, s, d) /\ BoxIsRecorded(x, s, d)
  BY <1>1 DEF Sound, DeadIsClear, LiveIsBusy, BoxIsRecorded
<1>3. DialogueHasEntry(x, s, d)
  BY DEF Sound, DialogueHasEntry
<1> QED BY <1>2, <1>3 DEF Sound

LEMMA TimedStays ==
    ASSUME Safe, NEW cs, \A d \in Consoles : cs[d].timed = con[d].timed
    PROVE  OnlyTimed(cs, stack)
<1>1. stack # <<>> => stack[Len(stack)].con \in Consoles
  BY TopType, SafeFacts DEF Top, me
<1> QED BY <1>1, SafeFacts DEF OnlyTimed

LEMMA SameFlow ==
    ASSUME Safe, NEW cs, \A d \in Consoles : Sound(cs[d], stack, d),
           \A d \in Consoles : cs[d].timed = con[d].timed /\ cs[d].ctx = con[d].ctx
    PROVE  ConsolesSound(exists, cs, queue, stack) /\ Lives(cs) = Lives(con)
<1>1. OnlyTimed(cs, stack)
  BY TimedStays
<1>2. Lives(cs) = Lives(con)
  BY DEF Lives
<1> QED BY <1>1, <1>2, SafeFacts DEF ConsolesSound, LivesExist

LEMMA FreeIdFacts ==
    ASSUME Typed, NEW id \in FreeIds
    PROVE  /\ id \in Ids /\ Unawaited(Awaited(con), id)
           /\ \A b \in Consoles : \A f \in BriefsOf(brief, queue, b) : f.callbackId # id
<1> DEFINE IdsOf(c)  == {e.id : e \in con[c].callbacks}
           QueuedIn(c) == {queue[c][i].callbackId : i \in DOMAIN queue[c]}
           Asked1 == {brief[c].callbackId : c \in Consoles}
           Given1 == UNION {IdsOf(c) : c \in Consoles}
           Queued1 == UNION {QueuedIn(c) : c \in Consoles}
<1>a. FreeIds = Ids \ (Asked1 \cup Given1 \cup Queued1)
  BY Zenon DEF FreeIds
<1>1. /\ id \in Ids /\ \A b \in Consoles : brief[b].callbackId # id
      /\ id \notin UNION {IdsOf(c) : c \in Consoles}
      /\ id \notin UNION {QueuedIn(c) : c \in Consoles}
  <2>1. id \in Ids /\ id \notin Asked1 /\ id \notin Given1 /\ id \notin Queued1
    <3> HIDE DEF Asked1, Given1, Queued1
    <3> QED BY <1>a
  <2> HIDE DEF IdsOf, QueuedIn
  <2>2. \A b \in Consoles : brief[b].callbackId # id
    BY <2>1
  <2> QED BY <2>1, <2>2
<1>2. \A c \in Consoles : id \notin IdsOf(c) /\ id \notin QueuedIn(c)
  <2> HIDE DEF IdsOf, QueuedIn
  <2> QED BY <1>1
<1>3. Unawaited(Awaited(con), id)
  BY <1>2 DEF Unawaited, Awaited
<1>4. \A b \in Consoles : \A f \in BriefsOf(brief, queue, b) : f.callbackId # id
  BY <1>1, <1>2 DEF BriefsOf
<1> QED BY <1>1, <1>3, <1>4

\* The entry that a script makes is its own.
LEMMA EntryAdded ==
    ASSUME Safe, JSRunning, NEW id \in FreeIds, NEW type \in {"CB_TIMER", "CB_CONSOLE"},
           type = "CB_CONSOLE" => ~Unheard(con[me]),
           NEW x, x = AddEntry(con[me], NewEntry(id, type))
    PROVE  /\ x \in Console /\ x.ctx = me /\ ~x.alert /\ x.modalCount = con[me].modalCount
           /\ x.timed = con[me].timed /\ x.callbacks = con[me].callbacks \cup {NewEntry(id, type)}
           /\ Sound(x, stack, me) /\ IsBusy(x)
           /\ NewEntry(id, type) \in Entry
           /\ NewEntry(id, type).id = id /\ NewEntry(id, type).type = type
<1> DEFINE e == NewEntry(id, type)
<1>1. e \in Entry /\ e.id = id /\ e.type = type
  <2>1. e.id = id /\ e.type = type
    BY DEF NewEntry
  <2> QED BY <2>1, NewEntryTypes DEF Safe
<1> HIDE DEF e
<1>2. con[me] \in Console /\ me \in Consoles /\ con[me].ctx = me /\ ~con[me].alert /\ me # NoConsole
      /\ (Unheard(con[me]) => Unasking(con[me]))
  BY RunningFacts
<1>3. /\ x \in Console /\ x.callbacks = con[me].callbacks \cup {e}
      /\ x.ctx = con[me].ctx /\ x.alert = con[me].alert /\ x.dialog = con[me].dialog
      /\ x.label = con[me].label /\ x.modalCount = con[me].modalCount
      /\ x.runningMain = con[me].runningMain /\ x.status = con[me].status
      /\ x.waitingCached => con[me].waitingCached
      /\ x.waiting = con[me].waiting /\ x.timed = con[me].timed
  BY <1>1, <1>2, EntriesFields DEF e
<1>4. Sound(con[me], stack, me) /\ HasFrame(stack, me)
  <2>1. me = stack[Len(stack)].con /\ stack # <<>> /\ stack \in Seq(Frame)
    BY RunningFacts, SafeFacts DEF me, Top
  <2>2. HasFrame(stack, me)
    BY <2>1, TopAndBelow
  <2> QED BY <1>2, <2>2, SafeFacts
<1>a. Unheard(x) => Unheard(con[me]) /\ Unasking(x)
  BY <1>1, <1>2, <1>3 DEF Unheard, Unasking
<1>5. Sound(x, stack, me)
  BY <1>3, <1>4, <1>a, OwnEntries
<1>6. IsBusy(x)
  BY <1>a, <1>3 DEF IsBusy, IsWaiting, SomethingAwaited, Unheard, Unasking
<1> QED BY <1>1, <1>2, <1>3, <1>5, <1>6 DEF e

LEMMA OnSecondsGood ==
    ASSUME Safe, OnSeconds
    PROVE  GoodNow(exists)
<1>1. JSRunning
  BY DEF OnSeconds, JS
<1>2. PICK id \in FreeIds :
        Becomes([con EXCEPT ![me] = AddEntry(con[me], NewEntry(id, "CB_TIMER"))],
                brief, queue, stack)
  BY DEF OnSeconds, Sets
<1> DEFINE e == NewEntry(id, "CB_TIMER")
           x == AddEntry(con[me], e)
           cs == [con EXCEPT ![me] = x]
<1>3. /\ x.ctx = con[me].ctx /\ x.timed = con[me].timed /\ x.callbacks = con[me].callbacks \cup {e}
      /\ Sound(x, stack, me) /\ e \in Entry /\ e.id = id /\ e.type = "CB_TIMER"
  BY <1>1, EntryAdded, RunningFacts
<1> HIDE DEF e, x
<1>4. /\ cs[me] = x /\ \A d \in Consoles : d # me => cs[d] = con[d]
      /\ me \in Consoles
  BY <1>1, RunningFacts, SafeFacts DEF Typing
<1>5. Becomes(cs, brief, queue, stack)
  BY <1>2 DEF x, e
<1> HIDE DEF cs
<1>6. ConsolesSound(exists, cs, queue, stack) /\ Lives(cs) = Lives(con)
  BY <1>3, <1>4, SafeFacts, SameFlow
<1>7. Awaited(cs) = [Awaited(con) EXCEPT ![me] = @ \cup {e}]
  <2>1. \A d \in Consoles : cs[d].callbacks = IF d = me THEN con[d].callbacks \cup {e}
                                                        ELSE con[d].callbacks
    BY <1>3, <1>4
  <2> HIDE DEF e
  <2> QED BY <1>4, <2>1 DEF Awaited
<1>8. Requests(Awaited(cs), Lives(cs), brief, queue)
  <2>1. /\ Unawaited(Awaited(con), e.id)
        /\ \A b \in Consoles : \A f \in BriefsOf(brief, queue, b) : f.callbackId # e.id
    BY <1>3, FreeIdFacts DEF Safe
  <2>2. Requests(Awaited(cs), Lives(con), brief, queue)
    BY <1>3, <1>4, <1>7, <2>1, SafeFacts, TimerAdded
  <2> QED BY <1>6, <2>2
<1>9. RepliesMatch(Awaited(cs), brief, stack)
  <2>1. \A d \in Consoles : Awaited(cs)[d] \subseteq Awaited(con)[d] \cup {e}
    BY <1>3, <1>4 DEF Awaited
  <2>2. \A b \in Consoles : brief[b].callbackId # e.id
    BY <1>3, FreeIdFacts DEF BriefsOf, Safe
  <2> QED BY <2>1, <2>2, SafeFacts DEF RepliesMatch
<1>10. Good(exists, cs, brief, queue, stack)
  BY <1>6, <1>8, <1>9, SafeFacts DEF Good
<1> QED BY <1>5, <1>10, BecomesGood

LEMMA CancelRequestGood ==
    ASSUME Safe, CancelRequest
    PROVE  GoodNow(exists)
<1>1. JSRunning
  BY DEF CancelRequest, JS
<1>2. PICK e \in con[me].callbacks :
        /\ e.type = "CB_CONSOLE"
        /\ Becomes([con EXCEPT ![me] = RemoveEntries(con[me], {e})], brief, queue, stack)
  BY DEF CancelRequest, Sets
<1> DEFINE x == RemoveEntries(con[me], {e})
           cs == [con EXCEPT ![me] = x]
<1>3. con[me] \in Console /\ me \in Consoles /\ con[me].ctx = me
  BY <1>1, RunningFacts
<1>4. /\ x \in Console /\ x.callbacks = con[me].callbacks \ {e}
      /\ x.ctx = con[me].ctx /\ x.alert = con[me].alert /\ x.dialog = con[me].dialog
      /\ x.label = con[me].label /\ x.modalCount = con[me].modalCount
      /\ x.runningMain = con[me].runningMain /\ x.status = con[me].status
      /\ x.waitingCached = con[me].waitingCached
      /\ x.waiting = con[me].waiting /\ x.timed = con[me].timed
  BY <1>3, EntriesFields
<1> HIDE DEF x
<1>5. Sound(con[me], stack, me) /\ HasFrame(stack, me)
  <2>1. me = stack[Len(stack)].con /\ stack # <<>> /\ stack \in Seq(Frame)
    BY <1>1, RunningFacts, SafeFacts DEF me, Top
  <2>2. HasFrame(stack, me)
    BY <2>1, TopAndBelow
  <2> QED BY <1>3, <2>2, SafeFacts
<1>6. Sound(x, stack, me)
  <2>1. Unheard(x) => Unasking(x)
    BY <1>1, <1>4, RunningFacts DEF Unheard, Unasking
  <2> QED BY <1>2, <1>4, <1>5, <2>1, OwnEntries
<1>7. cs[me] = x /\ \A d \in Consoles : d # me => cs[d] = con[d]
  BY <1>3, SafeFacts DEF Typing
<1>8. Becomes(cs, brief, queue, stack)
  BY <1>2 DEF x
<1> HIDE DEF cs
<1>9. ConsolesSound(exists, cs, queue, stack) /\ Lives(cs) = Lives(con)
  BY <1>4, <1>6, <1>7, SafeFacts, SameFlow
<1>10. \A d \in Consoles : Awaited(cs)[d] \subseteq Awaited(con)[d]
  BY <1>4, <1>7 DEF Awaited
<1>11. Requests(Awaited(cs), Lives(cs), brief, queue)
  <2>1. BriefsStay(Awaited(cs), brief, queue, brief, queue)
    BY DEF BriefsStay
  <2>2. DebtsStay(Awaited(cs), Lives(con), brief, queue, Lives(cs), brief, queue)
    BY <1>9 DEF DebtsStay
  <2>3. NothingAsked(Awaited(con), Lives(con), brief, queue, Awaited(cs), Lives(cs), brief, queue)
    BY <1>10, <2>1, <2>2 DEF NothingAsked
  <2> QED BY <2>3, SafeFacts, RequestsStay
<1>12. RepliesMatch(Awaited(cs), brief, stack)
  BY <1>10, SafeFacts DEF RepliesMatch
<1>13. Good(exists, cs, brief, queue, stack)
  BY <1>9, <1>11, <1>12, SafeFacts DEF Good
<1> QED BY <1>8, <1>13, BecomesGood

\* Consoles that are asked, or timed, or whose boxes are answered: what they
\* await is the same.
LEMMA OthersGood ==
    ASSUME Safe, NEW cs,
           \A d \in Consoles : /\ Sound(cs[d], stack, d) /\ cs[d].timed = con[d].timed
                               /\ cs[d].ctx = con[d].ctx /\ cs[d].callbacks = con[d].callbacks
    PROVE  Good(exists, cs, brief, queue, stack)
<1>1. ConsolesSound(exists, cs, queue, stack) /\ Lives(cs) = Lives(con)
  BY SameFlow
<1>2. Awaited(cs) = Awaited(con)
  BY DEF Awaited
<1> QED BY <1>1, <1>2, SafeFacts DEF Good

LEMMA ConsoleBusyGood ==
    ASSUME Practices = {}, Safe, NEW d \in Consoles, ConsoleBusy(d)
    PROVE  GoodNow(exists)
<1> DEFINE x  == AskedBusy(con[d])
           cs == [con EXCEPT ![d] = x]
<1>1. JSRunning /\ d # me /\ Becomes(cs, brief, queue, stack)
  BY DEF ConsoleBusy, JS, Sets
<1>2. con[d] \in Console /\ Sound(con[d], stack, d) /\ (HasFrame(stack, d) => HasMain(stack, d))
  BY <1>1, SafeFacts, RunningFacts
<1>3. Sound(x, stack, d)
  BY <1>2, AskedSound
<1>4. x.timed = con[d].timed /\ x.ctx = con[d].ctx /\ x.callbacks = con[d].callbacks
  BY <1>2, AskedBusyFields DEF Alike
<1> HIDE DEF x
<1>5. cs[d] = x /\ \A b \in Consoles : b # d => cs[b] = con[b]
  BY SafeFacts DEF Typing
<1> HIDE DEF cs
<1>6. Good(exists, cs, brief, queue, stack)
  BY <1>3, <1>4, <1>5, SafeFacts, OthersGood
<1> QED BY <1>1, <1>6, BecomesGood

\* Stacks that differ in what boxes were answered.
SameShape(s, s2) ==
    /\ DOMAIN s2 = DOMAIN s
    /\ \A i \in DOMAIN s : /\ s2[i].con = s[i].con /\ s2[i].kind = s[i].kind
                           /\ s2[i].box = s[i].box /\ s2[i].modal = s[i].modal
                           /\ s2[i].answer = "none" => s[i].answer = "none"

LEMMA SameShapeFacts ==
    ASSUME NEW s, NEW s2, SameShape(s, s2)
    PROVE  /\ \A d : SameFrames(s, s2, d)
           /\ AllBoxed(s) => AllBoxed(s2)
           /\ MainIsOne(s) => MainIsOne(s2)
BY DEF SameShape, SameFrames, AllBoxed, MainIsOne

\* A throw that comes of having asked another console.
LEMMA AskedThrowsGood ==
    ASSUME Safe, JSRunning, Alone, NEW cs0 \in [Consoles -> Console], NEW s \in Seq(Frame),
           SameShape(Below(stack), Below(s)),
           \A d \in Consoles : d # me => cs0[d] = con[d] \/ cs0[d] = AskedBusy(con[d]),
           cs0[me].ctx = me, ~cs0[me].alert, cs0[me].modalCount = 0, ~cs0[me].runningMain,
           CallEnds(cs0, brief, s, TRUE), Practices = {}
    PROVE  GoodNow(exists)
<1>1. AllBoxed(Below(s)) /\ MainIsOne(Below(s)) /\ ~HasFrame(Below(s), me)
  BY RunningFacts, AloneFacts, SameShapeFacts, SameHas
<1>2. ASSUME NEW d \in Consoles, d # me
      PROVE  /\ Sound(cs0[d], Below(s), d) /\ cs0[d].ctx = con[d].ctx
             /\ cs0[d].callbacks = con[d].callbacks
  <2>1. con[d] \in Console /\ Sound(con[d], Below(stack), d) /\ SameFrames(Below(stack), Below(s), d)
    BY <1>2, SafeFacts, RunningFacts, SameShapeFacts
  <2>2. Sound(con[d], Below(s), d)
    BY <2>1, SteadyIsSteady, SoundStays
  <2>3. HasFrame(Below(s), d) => HasMain(Below(s), d)
    BY <1>1 DEF AllBoxed, HasFrame, HasMain
  <2>4. Sound(AskedBusy(con[d]), Below(s), d)
    BY <2>1, <2>2, <2>3, AskedSound
  <2>5. AskedBusy(con[d]).ctx = con[d].ctx /\ AskedBusy(con[d]).callbacks = con[d].callbacks
    BY <2>1, AskedBusyFields DEF Alike
  <2> QED BY <1>2, <2>2, <2>4, <2>5
<1>3. Throwing(cs0, brief, s)
  BY <1>1, <1>2, SafeFacts, SameDebtsSame DEF Throwing, Typing
<1> QED BY <1>3, RunningFacts, ThrowingGood

\* The console asked has a queue of its own and no request but this one.
LEMMA RequestGood ==
    ASSUME Safe, JSRunning, NEW id \in FreeIds, NEW d \in Consoles, d \in exists, d # me,
           ~Unheard(con[me]), ~IsBusy(con[d]), queue[d] = <<>>, NEW given \in BOOLEAN,
           NEW e, e = NewEntry(id, "CB_CONSOLE"),
           NEW x, x = AddEntry(con[me], e),
           NEW f, f = [has |-> given, callbackId |-> id, caller |-> me,
                       given |-> given, request |-> id]
    PROVE  Good(exists, [con EXCEPT ![me] = x, ![d] = AskedBusy(con[d])],
                brief, [queue EXCEPT ![d] = Append(queue[d], f)], stack)
<1> DEFINE y  == AskedBusy(con[d])
           cs == [con EXCEPT ![me] = x, ![d] = y]
           qs == [queue EXCEPT ![d] = Append(queue[d], f)]
<1>1. /\ x.ctx = me /\ x.timed = con[me].timed /\ x.callbacks = con[me].callbacks \cup {e}
      /\ Sound(x, stack, me) /\ e \in Entry /\ e.id = id /\ e.type = "CB_CONSOLE"
  BY EntryAdded
<1>2. /\ me \in Consoles /\ me # NoConsole /\ con[me].ctx = me /\ con[d] \in Console
      /\ Sound(con[d], stack, d) /\ (HasFrame(stack, d) => HasMain(stack, d))
      /\ queue \in [Consoles -> Seq(Brief)] /\ brief \in [Consoles -> Brief]
  BY RunningFacts, SafeFacts DEF Typing
<1>3. f.has = given /\ f.callbackId = id /\ f.caller = me /\ f.given = given /\ f.request = id
  OBVIOUS
<1>4. f \in Brief
  BY NewEntryTypes DEF Safe
<1>5. con[d].ctx = NoConsole /\ con[d].callbacks = {}
  BY <1>2, IdleIsDead DEF Sound, DeadIsClear
<1>6. Sound(y, stack, d)
  BY <1>2, AskedSound
<1>7. y.timed = con[d].timed /\ y.ctx = con[d].ctx /\ y.callbacks = con[d].callbacks
  BY <1>2, AskedBusyFields DEF Alike
<1> HIDE DEF y
<1>8. cs[me] = x /\ cs[d] = y /\ \A b \in Consoles : b # d /\ b # me => cs[b] = con[b]
  BY <1>2, SafeFacts DEF Typing
<1>9. /\ qs[d] # <<>> /\ Len(qs[d]) = 1 /\ qs[d][1] = f /\ DOMAIN qs[d] = {1}
      /\ \A b \in Consoles : b # d => qs[b] = queue[b]
  <2>1. qs[d] = Append(<<>>, f) /\ \A b \in Consoles : b # d => qs[b] = queue[b]
    BY <1>2
  <2> HIDE DEF qs
  <2>2. qs[d] = <<f>>
    BY <2>1
  <2> QED BY <2>1, <2>2
<1> HIDE <1>3
<1> DEFINE aw2 == [Awaited(con) EXCEPT ![me] = @ \cup {e}]
<1>10. Awaited(cs) = aw2
  <2> HIDE DEF cs
  <2>1. \A b \in Consoles : cs[b].callbacks =
          IF b = me THEN con[b].callbacks \cup {e} ELSE con[b].callbacks
    BY <1>1, <1>7, <1>8
  <2> QED BY <1>2, <2>1 DEF Awaited
<1>11. Lives(cs) = Lives(con)
  <2>1. \A b \in Consoles : cs[b].ctx = con[b].ctx
    BY <1>1, <1>2, <1>7, <1>8
  <2> HIDE DEF cs
  <2> QED BY <2>1 DEF Lives
<1>12. Requests(aw2, Lives(con), brief, qs)
  <2>1. /\ Unawaited(Awaited(con), e.id)
        /\ \A b \in Consoles : \A g \in BriefsOf(brief, queue, b) : g.callbackId # e.id
    BY <1>1, FreeIdFacts DEF Safe
  <2>2. f.callbackId = e.id /\ f.caller = me /\ f.request = e.id
    BY <1>1, <1>3
  <2>3. Awaited(con)[d] = {}
    BY <1>5 DEF Awaited
  <2>4. NewRequest(Awaited(con), Lives(con), brief, queue, me, d, e, f, aw2, qs)
    <3> HIDE DEF aw2, qs
    <3>1. aw2 = [Awaited(con) EXCEPT ![me] = @ \cup {e}]
      BY DEF aw2
    <3>2. qs = [queue EXCEPT ![d] = Append(@, f)]
      BY DEF qs
    <3> QED BY <1>1, <1>2, <1>4, <2>1, <2>2, <2>3, <3>1, <3>2, SafeFacts DEF NewRequest
  <2> HIDE DEF aw2, qs
  <2> QED BY <2>4, RequestAdded
<1> HIDE DEF cs, qs, aw2
<1>13. ConsolesSound(exists, cs, qs, stack)
  <2>1. OnlyTimed(cs, stack)
    BY <1>1, <1>7, <1>8, TimedStays
  <2>2. \A b \in Consoles : Sound(cs[b], stack, b)
    BY <1>1, <1>6, <1>8, SafeFacts
  <2>3. LivesExist(exists, cs, qs)
    BY <1>1, <1>2, <1>5, <1>7, <1>8, <1>9, SafeFacts DEF LivesExist
  <2> QED BY <2>1, <2>2, <2>3, SafeFacts DEF ConsolesSound, LivesExist
<1>14. RepliesMatch(Awaited(cs), brief, stack)
  <2>1. \A b \in Consoles : Awaited(cs)[b] \subseteq Awaited(con)[b] \cup {e}
    BY <1>1, <1>7, <1>8 DEF Awaited
  <2>2. \A b \in Consoles : brief[b].callbackId # e.id
    BY <1>1, FreeIdFacts DEF BriefsOf, Safe
  <2> QED BY <2>1, <2>2, SafeFacts DEF RepliesMatch
<1>15. BriefsAreGiven(brief, qs)
  <2> SUFFICES ASSUME NEW b \in Consoles, NEW g \in BriefsOf(brief, qs, b), g.has PROVE g.given
    BY DEF BriefsAreGiven
  <2>1. g = f \/ g \in BriefsOf(brief, queue, b)
    BY <1>9 DEF BriefsOf
  <2> QED BY <1>3, <2>1, SafeFacts DEF BriefsAreGiven
<1>16. Good(exists, cs, brief, qs, stack)
  BY <1>10, <1>11, <1>12, <1>13, <1>14, <1>15 DEF Good
<1> QED BY <1>16 DEF cs, qs, y

LEMMA OnConsoleResultGood ==
    ASSUME Practices = {}, Safe, NEW d \in Consoles, NEW given \in Giving,
           OnConsoleResult(d, given)
    PROVE  GoodNow(exists)
<1>1. JSRunning /\ queue[d] = <<>> /\ given \in BOOLEAN /\ ~Unheard(con[me])
  BY PracticesOfNone, GivingAssumption DEF OnConsoleResult, JS
<1> DEFINE X(id)  == AddEntry(con[me], NewEntry(id, "CB_CONSOLE"))
           CS(id) == [con EXCEPT ![me] = X(id)]
           F(id)  == [has |-> given, callbackId |-> id, caller |-> me,
                      given |-> given, request |-> id]
<1>2. PICK id \in FreeIds :
        CASE d \notin exists -> Throws(CS(id))
          [] d \in exists /\ IsBusy(CS(id)[d]) ->
               Throws([CS(id) EXCEPT ![d] = AskedBusy(CS(id)[d])])
          [] OTHER -> Becomes([CS(id) EXCEPT ![d] = AskedBusy(CS(id)[d])], brief,
                              [queue EXCEPT ![d] = Append(queue[d], F(id))], stack)
  BY DEF OnConsoleResult
<1> DEFINE x  == X(id)
           cs == CS(id)
           y  == AskedBusy(cs[d])
           cs2 == [cs EXCEPT ![d] = y]
<1>3. \/ d \notin exists /\ Throws(cs)
      \/ d \in exists /\ IsBusy(cs[d]) /\ Throws(cs2)
      \/ /\ d \in exists /\ ~IsBusy(cs[d])
         /\ Becomes(cs2, brief, [queue EXCEPT ![d] = Append(queue[d], F(id))], stack)
  BY <1>2
<1>4. /\ me \in Consoles /\ con \in [Consoles -> Console]
  BY <1>1, RunningFacts, SafeFacts DEF Typing
<1>5. /\ x \in Console /\ x.ctx = me /\ ~x.alert /\ x.modalCount = con[me].modalCount
      /\ IsBusy(x)
  BY <1>1, EntryAdded
<1> HIDE DEF X, F
<1>6. cs[me] = x /\ cs \in [Consoles -> Console] /\ \A b \in Consoles : b # me => cs[b] = con[b]
  BY <1>4, <1>5
<1>7. [con EXCEPT ![me] = x, ![d] = y] = cs2
  BY <1>4
<1> HIDE DEF x, CS, cs
<1>8. CASE d \notin exists /\ Throws(cs)
  BY <1>1, <1>5, <1>6, <1>8, ThrowsGood
<1>9. CASE IsBusy(cs[d]) /\ Throws(cs2)
  <2>1. y \in Console /\ y.ctx = cs[d].ctx /\ y.alert = cs[d].alert
        /\ y.modalCount = cs[d].modalCount
    BY <1>6, AskedBusyFields DEF Alike
  <2>2. /\ cs2 \in [Consoles -> Console] /\ cs2[d] = y
        /\ \A b \in Consoles : b # d => cs2[b] = cs[b]
    BY <1>6, <2>1
  <2>3. y = AskedBusy(cs[d])
    OBVIOUS
  <2> HIDE DEF y, cs2
  <2> DEFINE z == PrepForThrow(cs2[me])
             cs0 == [cs2 EXCEPT ![me] = z]
  <2>4. Alone /\ CallEnds(cs0, brief, stack, TRUE)
    BY <1>4, <1>9 DEF Throws
  <2>5. cs2[me].ctx = me /\ ~cs2[me].alert /\ cs2[me].modalCount = 0 /\ cs2[me] \in Console
    BY <1>1, <1>4, <1>5, <1>6, <2>1, <2>2, <2>4, AloneFacts
  <2>6. z \in Console /\ z.ctx = me /\ ~z.alert /\ z.modalCount = 0 /\ ~z.runningMain
    BY <2>5, RunningFields DEF PrepForThrow, Alike
  <2> HIDE DEF z
  <2>7. cs0[me] = z /\ cs0 \in [Consoles -> Console] /\ \A b \in Consoles : b # me => cs0[b] = cs2[b]
    BY <1>4, <2>2, <2>6
  <2> HIDE DEF cs0
  <2>8. \A b \in Consoles : b # me => cs0[b] = con[b] \/ cs0[b] = AskedBusy(con[b])
    BY <1>6, <2>2, <2>3, <2>7
  <2>9. SameShape(Below(stack), Below(stack))
    BY DEF SameShape
  <2> QED BY <1>1, <2>4, <2>6, <2>7, <2>8, <2>9, SafeFacts, AskedThrowsGood
<1>10. CASE /\ d \in exists /\ ~IsBusy(cs[d])
            /\ Becomes(cs2, brief, [queue EXCEPT ![d] = Append(queue[d], F(id))], stack)
  <2>1. d # me /\ cs[d] = con[d]
    BY <1>5, <1>6, <1>10
  <2>2. Becomes([con EXCEPT ![me] = x, ![d] = AskedBusy(con[d])], brief,
                [queue EXCEPT ![d] = Append(queue[d], F(id))], stack)
    BY <1>7, <1>10, <2>1
  <2>3. Good(exists, [con EXCEPT ![me] = x, ![d] = AskedBusy(con[d])], brief,
             [queue EXCEPT ![d] = Append(queue[d], F(id))], stack)
    BY <1>1, <1>10, <2>1, RequestGood DEF x, X, F
  <2> QED BY <2>2, <2>3, BecomesGood
<1> QED BY <1>3, <1>8, <1>9, <1>10

\* Nobody awaits what a console without a heap, with nothing queued, owed.
LEMMA DeadOwesNothing ==
    ASSUME Safe, NEW d \in Consoles, con[d].ctx = NoConsole, queue[d] = <<>>
    PROVE  Unawaited(Awaited(con), brief[d].callbackId)
<1> SUFFICES ASSUME NEW a \in Consoles, NEW e \in Awaited(con)[a], e.id = brief[d].callbackId
             PROVE  FALSE
  BY DEF Unawaited
<1>1. brief[d] \in BriefsOf(brief, queue, d)
  BY DEF BriefsOf
<1>2. OwesIn(Lives(con), brief, queue, d, a, e.id)
  BY <1>1, SafeFacts DEF Requests, BriefsAreOwed
<1>3. ~Lives(con)[d]
  BY DEF Lives
<1>4. DOMAIN queue[d] = {}
  OBVIOUS
<1> QED BY <1>2, <1>3, <1>4 DEF OwesIn

\* The briefs that a run without a request leaves.
LEMMA Unanswered ==
    ASSUME Safe, NEW d \in Consoles, con[d].ctx = NoConsole, queue[d] = <<>>,
           NEW f \in Brief, f.callbackId = brief[d].callbackId, f.caller = brief[d].caller,
           NEW bs, bs = [brief EXCEPT ![d] = f],
           NEW qs, qs = queue \/ qs = [queue EXCEPT ![d] = Append(queue[d], f)],
           NEW lv, \A b \in Consoles : b # d => lv[b] = Lives(con)[b]
    PROVE  Requests(Awaited(con), lv, bs, qs)
<1>1. /\ brief \in [Consoles -> Brief] /\ queue \in [Consoles -> Seq(Brief)]
      /\ Awaited(con) \in [Consoles -> SUBSET Entry]
      /\ Unawaited(Awaited(con), brief[d].callbackId)
  BY SafeFacts, DeadOwesNothing DEF Typing
<1>2. bs[d] = f /\ \A b \in Consoles : b # d => bs[b] = brief[b] /\ qs[b] = queue[b]
  BY <1>1
<1>3. \A i \in DOMAIN qs[d] : qs[d][i] = f
  <2>1. CASE qs = queue
    <3>1. DOMAIN qs[d] = {}
      BY <2>1
    <3> QED BY <3>1
  <2>2. CASE qs = [queue EXCEPT ![d] = Append(queue[d], f)]
    <3>1. qs[d] = Append(<<>>, f)
      BY <1>1, <2>2
    <3> HIDE <2>2
    <3>2. qs[d] = <<f>>
      BY <3>1
    <3> QED BY <3>2
  <2> QED BY <2>1, <2>2
<1>4. BriefsStay(Awaited(con), brief, queue, bs, qs)
  <2> SUFFICES ASSUME NEW b \in Consoles, NEW f2 \in BriefsOf(bs, qs, b)
               PROVE  \E g \in BriefsOf(brief, queue, b) :
                        /\ g.callbackId = f2.callbackId /\ g.caller = f2.caller
                        /\ g.request = f2.request \/ Unawaited(Awaited(con), f2.callbackId)
    BY DEF BriefsStay
  <2>1. CASE b = d
    <3>1. f2 = f /\ brief[d] \in BriefsOf(brief, queue, d)
      BY <1>2, <1>3, <2>1 DEF BriefsOf
    <3> QED BY <1>1, <2>1, <3>1
  <2>2. CASE b # d
    <3>1. f2 \in BriefsOf(brief, queue, b)
      BY <1>2, <2>2 DEF BriefsOf
    <3> QED BY <3>1
  <2> QED BY <2>1, <2>2
<1>5. DebtsStay(Awaited(con), Lives(con), brief, queue, lv, bs, qs)
  <2> SUFFICES ASSUME NEW a \in Consoles, NEW b \in Consoles, NEW e \in Awaited(con)[a]
               PROVE  OwesIn(lv, bs, qs, b, a, e.id) <=>
                        OwesIn(Lives(con), brief, queue, b, a, e.id)
    BY DEF DebtsStay
  <2>1. CASE b = d
    <3>1. e.id # brief[d].callbackId
      BY <1>1 DEF Unawaited
    <3>2. ~OwesIn(lv, bs, qs, d, a, e.id)
      BY <1>2, <1>3, <3>1 DEF OwesIn
    <3>3. DOMAIN queue[d] = {}
      OBVIOUS
    <3>4. ~OwesIn(Lives(con), brief, queue, d, a, e.id)
      BY <3>1, <3>3 DEF OwesIn
    <3> QED BY <2>1, <3>2, <3>4
  <2>2. CASE b # d
    BY <1>2, <2>2 DEF OwesIn
  <2> QED BY <2>1, <2>2
<1>6. NothingAsked(Awaited(con), Lives(con), brief, queue, Awaited(con), lv, bs, qs)
  BY <1>4, <1>5 DEF NothingAsked
<1> HIDE <1>2
<1> QED BY <1>1, <1>6, SafeFacts, RequestsStay

\* The replies still to be given are to entries that nothing refers to again.
LEMMA RepliesStay ==
    ASSUME Safe, NEW bs, \A b \in Consoles : bs[b].callbackId = brief[b].callbackId
    PROVE  RepliesMatch(Awaited(con), bs, stack)
BY SafeFacts DEF RepliesMatch

LEMMA ConsoleRunGood ==
    ASSUME Practices = {}, Safe, NEW d \in Consoles, NEW given \in Giving, ConsoleRun(d, given)
    PROVE  GoodNow(exists)
<1> DEFINE f  == [brief[d] EXCEPT !.has = @ \/ given, !.given = given, !.request = NoId]
           bs == [brief EXCEPT ![d] = f]
           qs == [queue EXCEPT ![d] = Append(queue[d], f)]
<1>1. JSRunning /\ queue[d] = <<>> /\ given \in BOOLEAN
  BY PracticesOfNone, GivingAssumption DEF ConsoleRun, JS
<1>3. \/ d \in exists /\ con[d].ctx # NoConsole /\ Throws(con)
      \/ /\ d \in exists /\ con[d].ctx = NoConsole /\ (~given => ~brief[d].has)
         /\ Becomes(con, bs, qs, stack)
  BY DEF ConsoleRun
<1>4. CASE Throws(con)
  BY <1>1, <1>4, RunningFacts, SafeFacts, ThrowsGood DEF Typing
<1>5. CASE /\ d \in exists /\ con[d].ctx = NoConsole /\ (~given => ~brief[d].has)
           /\ Becomes(con, bs, qs, stack)
  <2>1. brief[d] \in Brief /\ queue \in [Consoles -> Seq(Brief)] /\ brief \in [Consoles -> Brief]
    BY SafeFacts DEF Typing
  <2>2. /\ f \in Brief /\ f.callbackId = brief[d].callbackId /\ f.caller = brief[d].caller
        /\ f.has => f.given
    BY <1>1, <1>5, <2>1 DEF Brief
  <2> HIDE DEF f
  <2>3. Requests(Awaited(con), Lives(con), bs, qs)
    BY <1>1, <1>5, <2>2, Unanswered
  <2>4. /\ bs[d] = f /\ \A b \in Consoles : b # d => bs[b] = brief[b] /\ qs[b] = queue[b]
        /\ qs[d] = Append(<<>>, f)
    BY <1>1, <2>1
  <2> HIDE DEF bs, qs
  <2>5. qs[d] # <<>> /\ Len(qs[d]) = 1 /\ qs[d][1] = f /\ DOMAIN qs[d] = {1}
    <3>1. qs[d] = <<f>>
      BY <2>4
    <3> QED BY <3>1
  <2>6. ConsolesSound(exists, con, qs, stack)
    <3>1. LivesExist(exists, con, qs)
      BY <1>5, <2>4, <2>5, SafeFacts DEF LivesExist
    <3> QED BY <3>1, SafeFacts DEF ConsolesSound, LivesExist
  <2>7. RepliesMatch(Awaited(con), bs, stack)
    BY <2>2, <2>4, RepliesStay
  <2>8. BriefsAreGiven(bs, qs)
    <3> SUFFICES ASSUME NEW b \in Consoles, NEW g \in BriefsOf(bs, qs, b), g.has PROVE g.given
      BY DEF BriefsAreGiven
    <3>1. g = f \/ g \in BriefsOf(brief, queue, b)
      BY <2>4, <2>5 DEF BriefsOf
    <3> QED BY <2>2, <3>1, SafeFacts DEF BriefsAreGiven
  <2>9. Good(exists, con, bs, qs, stack)
    BY <2>3, <2>6, <2>7, <2>8 DEF Good
  <2> QED BY <1>5, <2>9, BecomesGood
<1> QED BY <1>3, <1>4, <1>5

\* The innermost call goes into a modal call, or comes back from it.
LEMMA TopReplaced ==
    ASSUME NEW s \in Seq(Frame), s # <<>>, NEW f \in Frame,
           f.con = s[Len(s)].con, f.kind = s[Len(s)].kind
    PROVE  LET s2 == [s EXCEPT ![Len(s)] = f]
           IN  /\ s2 \in Seq(Frame) /\ s2 # <<>> /\ Len(s2) = Len(s) /\ s2[Len(s2)] = f
               /\ Len(s) \in DOMAIN s /\ DOMAIN s2 = DOMAIN s
               /\ \A i \in DOMAIN s : i # Len(s) => s2[i] = s[i]
               /\ MainIsOne(s) => MainIsOne(s2)
               /\ \A d : d # f.con => SameFrames(s, s2, d)
               /\ \A d : HasFrame(s, d) <=> HasFrame(s2, d)
               /\ \A d : HasMain(s, d) <=> HasMain(s2, d)
               /\ SameShape(Below(s), Below(s2))
<1> DEFINE n  == Len(s)
           s2 == [s EXCEPT ![n] = f]
<1>1. n \in DOMAIN s /\ n \in Nat \ {0} /\ DOMAIN s = 1..n
  BY EmptySeq, LenProperties
<1>2. s2 \in Seq(Frame) /\ DOMAIN s2 = DOMAIN s /\ \A i \in DOMAIN s : s2[i] = IF i = n THEN f ELSE s[i]
  BY <1>1, FrameChanged
<1>3. Len(s2) = n
  BY <1>1, <1>2, LenProperties
<1>4. s2 # <<>>
  BY <1>1, <1>3
<1> HIDE DEF s2
<1>5. \A d : d # f.con => SameFrames(s, s2, d)
  BY <1>1, <1>2 DEF SameFrames
<1>6. /\ MainIsOne(s) => MainIsOne(s2)
      /\ \A d : HasFrame(s, d) <=> HasFrame(s2, d)
      /\ \A d : HasMain(s, d) <=> HasMain(s2, d)
  BY <1>1, <1>2 DEF MainIsOne, HasFrame, HasMain
<1>7. SameShape(Below(s), Below(s2))
  <2> DEFINE b  == Below(s)
             b2 == Below(s2)
  <2>1. DOMAIN b = 1..(n - 1) /\ \A i \in DOMAIN b : b[i] = s[i]
    BY BelowProperties
  <2>2. DOMAIN b2 = 1..(n - 1) /\ \A i \in DOMAIN b2 : b2[i] = s2[i]
    BY <1>2, <1>3, <1>4, BelowProperties
  <2> HIDE DEF b, b2
  <2>3. \A i \in DOMAIN b : i \in DOMAIN s /\ i # n
    BY <1>1, <2>1
  <2>4. SameShape(b, b2)
    BY <1>2, <2>1, <2>2, <2>3 DEF SameShape
  <2> QED BY <2>4 DEF b, b2
<1> QED BY <1>1, <1>2, <1>3, <1>4, <1>5, <1>6, <1>7 DEF s2

\* A main that goes modal has no other modal call, and its console no other box.
LEMMA ModalAlone ==
    ASSUME Safe, NEW modal, MayGoModal(modal)
    PROVE  /\ JSRunning /\ Alone /\ con[me].dialog = 0 /\ con[me].modalCount = 0
           /\ \A i \in DOMAIN stack : stack[i].con = me => i = Len(stack)
<1>1. JSRunning /\ Top.kind = "main"
  BY DEF MayGoModal, JS
<1>2. /\ stack # <<>> /\ stack \in Seq(Frame) /\ Top = stack[Len(stack)] /\ me = Top.con
      /\ AllBoxed(Below(stack)) /\ Below(stack) \in Seq(Frame) /\ MainIsOne(stack)
  BY <1>1, RunningFacts, SafeFacts, BelowType DEF Top, me
<1>3. ~HasFrame(Below(stack), me)
  <2>1. ~HasMain(Below(stack), me)
    BY <1>1, <1>2, TopAndBelow
  <2> QED BY <1>2, <2>1, AllBoxedFacts
<1>4. \A i \in 1..Len(stack) - 1 : stack[i].con # me
  <2>1. /\ DOMAIN Below(stack) = 1..(Len(stack) - 1)
        /\ \A i \in DOMAIN Below(stack) : Below(stack)[i] = stack[i]
    BY <1>2, BelowProperties
  <2> QED BY <1>3, <2>1 DEF HasFrame
<1>5. DOMAIN stack = 1..Len(stack) /\ Len(stack) \in Nat \ {0}
  BY <1>2, BelowProperties
<1>6. \A i \in DOMAIN stack : stack[i].con = me => i = Len(stack)
  BY <1>4, <1>5
<1> QED BY <1>1, <1>4, <1>6, AloneFacts DEF Alone

\* Every call is in a modal call then, this one too.
LEMMA ModalSound ==
    ASSUME Safe, NEW modal \in {"message", "dialogue", "file"}, MayGoModal(modal),
           NEW x, x.ctx = me, ~x.alert, x.label = "Stop", x.status = con[me].status,
           x.runningMain = con[me].runningMain, Unheard(x) => Unasking(x),
           x.timed = con[me].timed,
           x.dialog = IF modal = "message" THEN Len(stack) ELSE 0,
           x.modalCount = IF modal = "file" THEN 0 ELSE 1,
           modal = "dialogue" => \E e \in x.callbacks : e.type = "CB_DIALOGUE",
           NEW cs, cs = [con EXCEPT ![me] = x]
    PROVE  LET s == InModal(modal)
           IN  /\ AllBoxed(s) /\ MainIsOne(s) /\ s \in Seq(Frame)
               /\ \A d \in Consoles : Sound(cs[d], s, d)
               /\ LivesExist(exists, cs, queue) /\ Lives(cs) = Lives(con)
               /\ OnlyTimed(cs, s)
<1> DEFINE n == Len(stack)
           s == InModal(modal)
           f == Went(Top, modal)
<1>1. /\ JSRunning /\ stack # <<>> /\ me \in Consoles /\ Top \in Frame /\ Top = stack[n]
      /\ me = Top.con /\ Top.kind = "main" /\ n \in Nat \ {0} /\ n \in DOMAIN stack
      /\ s = [stack EXCEPT ![n] = f] /\ stack \in Seq(Frame)
  BY GoesModal, SafeFacts, TopType DEF Safe, MayGoModal, Top, me
<1>2. /\ con[me] \in Console /\ con[me].ctx = me /\ me # NoConsole
      /\ con[me].status \cap Interrupts = {} /\ MainIsOne(stack)
      /\ Sound(con[me], stack, me) /\ con \in [Consoles -> Console]
  BY <1>1, RunningFacts, SafeFacts DEF Typing
<1>a. f \in Frame
  BY <1>1, FrameFields
<1>3. /\ f \in Frame /\ f.con = me /\ f.kind = "main" /\ f.box = TRUE /\ f.modal = modal
      /\ f.answer = "none"
  BY <1>1, <1>a DEF Went, Frame
<1> HIDE DEF f
<1>4. /\ s \in Seq(Frame) /\ DOMAIN s = DOMAIN stack /\ s[n] = f
      /\ \A i \in DOMAIN stack : i # n => s[i] = stack[i]
      /\ Len(s) = n /\ s # <<>>
      /\ MainIsOne(s) /\ \A d : d # me => SameFrames(stack, s, d)
      /\ HasMain(s, me) <=> HasMain(stack, me)
  <2> HIDE DEF s
  <2>1. stack \in Seq(Frame) /\ stack # <<>> /\ f \in Frame
        /\ f.con = stack[Len(stack)].con /\ f.kind = stack[Len(stack)].kind
    BY <1>1, <1>3 DEF n
  <2>2. s = [stack EXCEPT ![Len(stack)] = f]
    BY <1>1 DEF n
  <2>3. /\ s \in Seq(Frame) /\ DOMAIN s = DOMAIN stack /\ s[Len(s)] = f
        /\ Len(s) = Len(stack) /\ s # <<>>
        /\ \A i \in DOMAIN stack : i # Len(stack) => s[i] = stack[i]
        /\ MainIsOne(stack) => MainIsOne(s)
        /\ \A d : d # f.con => SameFrames(stack, s, d)
        /\ \A d : HasMain(stack, d) <=> HasMain(s, d)
    BY <2>1, <2>2, TopReplaced
  <2> QED BY <1>2, <1>3, <2>3 DEF n
<1> HIDE DEF s
<1>5. AllBoxed(s)
  BY <1>3, <1>4, SafeFacts DEF BoxesBelow, AllBoxed, n
<1>6. \A i \in DOMAIN s : s[i].con = me => i = n
  BY <1>4, ModalAlone
<1>7. Sound(x, s, me)
  <2>1. HasFrame(s, me)
    BY <1>1, <1>3, <1>4 DEF HasFrame
  <2>2. BoxIsRecorded(x, s, me)
    BY <1>1, <1>3, <1>4, <1>6 DEF HasBox, BoxIsRecorded
  <2>3. HasCounted(s, me) <=> modal \in {"message", "dialogue"}
    BY <1>1, <1>3, <1>4, <1>6 DEF HasCounted
  <2>4. DialogueHasEntry(x, s, me)
    BY <1>3, <1>4, <1>6 DEF DialogueHasEntry
  <2>5. LiveIsBusy(x, s, me) /\ DeadIsClear(x)
    BY <1>2, <2>1 DEF LiveIsBusy, DeadIsClear
  <2>6. x.runningMain <=> HasMain(s, me)
    BY <1>2, <1>4 DEF Sound
  <2>7. x.modalCount = IF HasCounted(s, me) THEN 1 ELSE 0
    BY <2>3
  <2> QED BY <1>2, <2>1, <2>2, <2>4, <2>5, <2>6, <2>7 DEF Sound
<1>8. cs[me] = x /\ \A d \in Consoles : d # me => cs[d] = con[d]
  BY <1>1, <1>2
<1>9. \A d \in Consoles : Sound(cs[d], s, d)
  <2> SUFFICES ASSUME NEW d \in Consoles, d # me PROVE Sound(con[d], s, d)
    BY <1>7, <1>8
  <2> QED BY <1>4, SafeFacts, SteadyIsSteady, SoundStays
<1>10. \A d \in Consoles : cs[d].ctx = con[d].ctx
  BY <1>2, <1>8
<1>11. Lives(cs) = Lives(con) /\ LivesExist(exists, cs, queue)
  BY <1>10, SafeFacts DEF Lives, LivesExist
<1>12. OnlyTimed(cs, s)
  <2>1. \A d \in Consoles : con[d].timed => d = me
    BY <1>1, SafeFacts DEF OnlyTimed
  <2>2. \A d \in Consoles : cs[d].timed => d = me
    BY <1>8, <2>1
  <2> QED BY <1>3, <1>4, <2>2 DEF OnlyTimed
<1> QED BY <1>4, <1>5, <1>9, <1>11, <1>12 DEF s

\* Where what is awaited is the same.
LEMMA ModalSame ==
    ASSUME Safe, NEW s \in Seq(Frame), NEW cs, AllBoxed(s), MainIsOne(s),
           \A d \in Consoles : Sound(cs[d], s, d), LivesExist(exists, cs, queue),
           Lives(cs) = Lives(con), OnlyTimed(cs, s), \A d \in Consoles : cs[d].callbacks = con[d].callbacks
    PROVE  Good(exists, cs, brief, queue, s)
<1>1. Awaited(cs) = Awaited(con)
  BY DEF Awaited
<1> QED BY <1>1, SafeFacts, GoodBoxed

LEMMA MessageBoxGood ==
    ASSUME Safe, MessageBox
    PROVE  GoodNow(exists)
<1> DEFINE x  == Opened(con[me], Len(stack))
           cs == [con EXCEPT ![me] = x]
           s  == InModal("message")
<1>1. MayGoModal("message")
  BY DEF MessageBox
<1>2. /\ me \in Consoles /\ con[me] \in Console /\ Len(stack) \in Nat /\ JSRunning
      /\ con \in [Consoles -> Console]
  BY <1>1, GoesModal, SafeFacts DEF Safe, Typing
<1>3. Becomes(cs, brief, queue, s)
  BY <1>2 DEF MessageBox, Opened
<1>4. /\ x.dialog = Len(stack) /\ x.modalCount = con[me].modalCount + 1
      /\ x.ctx = con[me].ctx /\ x.callbacks = con[me].callbacks /\ x.alert = con[me].alert
      /\ x.label = con[me].label /\ x.status = con[me].status
      /\ x.runningMain = con[me].runningMain
      /\ x.waitingCached = con[me].waitingCached /\ x.waiting = con[me].waiting
      /\ x.timed = con[me].timed
  BY <1>2, BoxOpened
<1> HIDE DEF x
<1>5. x.ctx = me /\ ~x.alert /\ x.label = "Stop" /\ x.modalCount = 1
  BY <1>1, <1>2, <1>4, ModalAlone, RunningFacts
<1>6. Unheard(x) => Unasking(x)
  BY <1>2, <1>4, RunningFacts DEF Unheard, Unasking
<1>7. /\ AllBoxed(s) /\ MainIsOne(s) /\ s \in Seq(Frame)
      /\ \A d \in Consoles : Sound(cs[d], s, d)
      /\ LivesExist(exists, cs, queue) /\ Lives(cs) = Lives(con) /\ OnlyTimed(cs, s)
  BY <1>1, <1>4, <1>5, <1>6, ModalSound
<1>8. \A d \in Consoles : cs[d].callbacks = con[d].callbacks
  BY <1>2, <1>4
<1> HIDE DEF cs, s
<1>9. Good(exists, cs, brief, queue, s)
  BY <1>7, <1>8, ModalSame
<1> QED BY <1>3, <1>9, BecomesGood

LEMMA FilePromptGood ==
    ASSUME Safe, FilePrompt
    PROVE  GoodNow(exists)
<1> DEFINE s == InModal("file")
<1>1. MayGoModal("file") /\ Becomes(con, brief, queue, s)
  BY DEF FilePrompt
<1>2. me \in Consoles /\ con[me] \in Console /\ JSRunning /\ con \in [Consoles -> Console]
  BY <1>1, GoesModal, SafeFacts DEF Safe, Typing
<1>3. con = [con EXCEPT ![me] = con[me]]
  BY <1>2
<1>4. /\ con[me].ctx = me /\ ~con[me].alert /\ con[me].label = "Stop"
      /\ con[me].dialog = 0 /\ con[me].modalCount = 0
      /\ Unheard(con[me]) => Unasking(con[me])
  BY <1>1, <1>2, ModalAlone, RunningFacts
<1>5. /\ AllBoxed(s) /\ MainIsOne(s) /\ s \in Seq(Frame)
      /\ \A d \in Consoles : Sound(con[d], s, d)
      /\ LivesExist(exists, con, queue) /\ OnlyTimed(con, s)
  BY <1>1, <1>3, <1>4, ModalSound
<1> HIDE DEF s
<1>6. Good(exists, con, brief, queue, s)
  BY <1>5, ModalSame
<1> QED BY <1>1, <1>6, BecomesGood

\* An entry that asks for nothing changes no request.
LEMMA EntryOwesNothing ==
    ASSUME Safe, me \in Consoles, NEW id \in FreeIds, NEW e \in Entry, e.id = id,
           e.type # "CB_CONSOLE", NEW cs, Lives(cs) = Lives(con),
           \A d \in Consoles : cs[d].callbacks = IF d = me THEN con[d].callbacks \cup {e}
                                                        ELSE con[d].callbacks
    PROVE  /\ Requests(Awaited(cs), Lives(cs), brief, queue)
           /\ RepliesMatch(Awaited(cs), brief, stack)
<1>1. Awaited(cs) = [Awaited(con) EXCEPT ![me] = @ \cup {e}]
  BY DEF Awaited
<1>2. Requests(Awaited(cs), Lives(cs), brief, queue)
  <2>1. /\ Unawaited(Awaited(con), e.id)
        /\ \A b \in Consoles : \A f \in BriefsOf(brief, queue, b) : f.callbackId # e.id
    BY FreeIdFacts DEF Safe
  <2>2. Requests(Awaited(cs), Lives(con), brief, queue)
    BY <1>1, <2>1, SafeFacts, TimerAdded
  <2> QED BY <2>2
<1>3. RepliesMatch(Awaited(cs), brief, stack)
  <2>1. \A d \in Consoles : Awaited(cs)[d] \subseteq Awaited(con)[d] \cup {e}
    BY DEF Awaited
  <2>2. \A b \in Consoles : brief[b].callbackId # e.id
    BY FreeIdFacts DEF BriefsOf, Safe
  <2> QED BY <2>1, <2>2, SafeFacts DEF RepliesMatch
<1> QED BY <1>2, <1>3

LEMMA ModalDialogueGood ==
    ASSUME Safe, ModalDialogue
    PROVE  GoodNow(exists)
<1> DEFINE s == InModal("dialogue")
           E(id) == NewEntry(id, "CB_DIALOGUE")
<1>1. MayGoModal("dialogue")
  BY DEF ModalDialogue
<1>2. /\ me \in Consoles /\ con[me] \in Console /\ JSRunning
      /\ con \in [Consoles -> Console]
  BY <1>1, GoesModal, SafeFacts DEF Safe, Typing
<1>3. PICK id \in FreeIds :
        Becomes([con EXCEPT ![me] = Dialogued(con[me], E(id))], brief, queue, s)
  BY <1>2 DEF ModalDialogue, Dialogued
<1> DEFINE e  == E(id)
           x  == Dialogued(con[me], e)
           cs == [con EXCEPT ![me] = x]
<1>4. e \in Entry /\ e.id = id /\ e.type = "CB_DIALOGUE"
  <2>1. e.id = id /\ e.type = "CB_DIALOGUE"
    BY DEF NewEntry
  <2> QED BY <1>2, <2>1, NewEntryTypes DEF Safe
<1> HIDE DEF E
<1>5. /\ x.dialog = con[me].dialog /\ x.modalCount = con[me].modalCount + 1
      /\ x.ctx = con[me].ctx /\ x.callbacks = con[me].callbacks \cup {e}
      /\ x.alert = con[me].alert /\ x.label = con[me].label /\ x.status = con[me].status
      /\ x.runningMain = con[me].runningMain
      /\ x.waitingCached = con[me].waitingCached /\ x.waiting = con[me].waiting
      /\ x.timed = con[me].timed
  BY <1>2, <1>4, DialogueOpened
<1> HIDE DEF x
<1>6. x.ctx = me /\ ~x.alert /\ x.label = "Stop" /\ x.modalCount = 1 /\ x.dialog = 0
  BY <1>1, <1>2, <1>5, ModalAlone, RunningFacts
<1>7. Unheard(x) => Unasking(x)
  BY <1>2, <1>4, <1>5, RunningFacts DEF Unheard, Unasking
<1>8. \E y \in x.callbacks : y.type = "CB_DIALOGUE"
  BY <1>4, <1>5
<1>9. /\ AllBoxed(s) /\ MainIsOne(s) /\ s \in Seq(Frame)
      /\ \A d \in Consoles : Sound(cs[d], s, d)
      /\ LivesExist(exists, cs, queue) /\ Lives(cs) = Lives(con) /\ OnlyTimed(cs, s)
  BY <1>1, <1>5, <1>6, <1>7, <1>8, ModalSound
<1>10. \A d \in Consoles : cs[d].callbacks = IF d = me THEN con[d].callbacks \cup {e}
                                                    ELSE con[d].callbacks
  BY <1>2, <1>5
<1>11. Becomes(cs, brief, queue, s)
  BY <1>3 DEF x
<1> HIDE DEF cs, s, e
<1>12. Requests(Awaited(cs), Lives(cs), brief, queue)
  BY <1>2, <1>4, <1>9, <1>10, EntryOwesNothing
<1>13. Good(exists, cs, brief, queue, s)
  BY <1>9, <1>12, SafeFacts, GoodBoxed
<1> QED BY <1>11, <1>13, BecomesGood

-----------------------------------------------------------------------------
(* Consoles come and go *)

LEMMA ConsoleAddGood ==
    ASSUME Safe, NEW d \in Consoles, ConsoleAdd(d)
    PROVE  GoodNow(exists')
<1>1. /\ exists' = exists \cup {d} /\ con' = con /\ brief' = brief /\ queue' = queue
      /\ stack' = stack /\ UNCHANGED fault
  BY DEF ConsoleAdd
<1>2. Good(exists \cup {d}, con, brief, queue, stack)
  BY DEF Safe, Good, ConsolesSound
<1> QED BY <1>1, <1>2 DEF GoodNow

\* What owes, and who awaits it, as the invariant has it.
LEMMA OwesIsIn ==
    /\ \A a, b \in Consoles : \A id :
         Owes(b, a, id) <=> OwesIn(Lives(con), brief, queue, b, a, id)
    /\ \A a, b \in Consoles :
         AwaitsReply(a, b) <=> AwaitsIn(Awaited(con), Lives(con), brief, queue, a, b)
<1>1. \A a, b \in Consoles : \A id :
        Owes(b, a, id) <=> OwesIn(Lives(con), brief, queue, b, a, id)
  BY DEF Owes, OwesIn, Lives
<1>2. \A a, b \in Consoles :
        AwaitsReply(a, b) <=> AwaitsIn(Awaited(con), Lives(con), brief, queue, a, b)
  BY <1>1 DEF AwaitsReply, AwaitsIn, Awaited
<1> QED BY <1>1, <1>2

\* The console deleted runs nothing, and owes nothing: its briefs go with it.
LEMMA DeletedGood ==
    ASSUME Practices = {}, Safe, NEW d \in Consoles, d \in exists, MayClose(d),
           ~HasFrame(stack, d), NEW cs, [cs EXCEPT ![d] = NewConsole] = [con EXCEPT ![d] = NewConsole],
           Deleted(cs, d)
    PROVE  GoodNow(exists')
<1> DEFINE cs2 == [con EXCEPT ![d] = NewConsole]
           bs == [brief EXCEPT ![d] = NoBrief]
           qs == [queue EXCEPT ![d] = <<>>]
           ex == exists \ {d}
<1>1. exists' = ex /\ Becomes(cs2, bs, qs, stack)
  BY DEF Deleted
<1>2. /\ con \in [Consoles -> Console] /\ brief \in [Consoles -> Brief]
      /\ queue \in [Consoles -> Seq(Brief)] /\ stack \in Seq(Frame)
  BY SafeFacts DEF Typing
<1>3. /\ cs2[d] = NewConsole /\ \A b \in Consoles : b # d => cs2[b] = con[b]
      /\ bs[d] = NoBrief /\ \A b \in Consoles : b # d => bs[b] = brief[b]
      /\ qs[d] = <<>> /\ \A b \in Consoles : b # d => qs[b] = queue[b]
  BY <1>2
<1> HIDE DEF cs2, bs, qs
<1>4. NoBrief.callbackId = NoId /\ NoBrief.has = FALSE
  BY DEF NoBrief
<1>5. DOMAIN qs[d] = {}
  BY <1>3
<1>6. Sound(cs2[d], stack, d)
  <2>1. Finished(NewConsole)
    BY NewConsoleFields DEF Finished
  <2> QED BY <1>3, <2>1, FinishedFacts
<1>7. ConsolesSound(ex, cs2, qs, stack)
  <2>1. OnlyTimed(cs2, stack)
    <3>1. stack # <<>> => d # stack[Len(stack)].con /\ stack[Len(stack)].con \in Consoles
      BY <1>2, TopAndBelow, TopType DEF Top, me
    <3>2. ~cs2[d].timed
      BY <1>3, NewConsoleFields
    <3>3. \A b \in Consoles : cs2[b].timed => b # d /\ con[b].timed
      BY <1>3, <3>2
    <3> QED BY <1>3, <3>1, <3>3, SafeFacts DEF OnlyTimed
  <2>2. \A b \in Consoles : Sound(cs2[b], stack, b)
    BY <1>3, <1>6, SafeFacts
  <2>3. LivesExist(ex, cs2, qs)
    BY <1>3, NewConsoleFields, SafeFacts DEF LivesExist
  <2> QED BY <2>1, <2>2, <2>3, SafeFacts DEF ConsolesSound, LivesExist
<1>8. \A b \in Consoles : Awaited(cs2)[b] = IF b = d THEN {} ELSE Awaited(con)[b]
  BY <1>3, NewConsoleFields DEF Awaited
<1>9. \A b \in Consoles : Lives(cs2)[b] = IF b = d THEN FALSE ELSE Lives(con)[b]
  BY <1>3, NewConsoleFields DEF Lives
<1>10. BriefsStay(Awaited(cs2), brief, queue, bs, qs)
  <2> SUFFICES ASSUME NEW b \in Consoles, NEW f2 \in BriefsOf(bs, qs, b)
               PROVE  f2.callbackId = NoId \/ f2 \in BriefsOf(brief, queue, b)
    BY DEF BriefsStay
  <2>1. CASE b = d
    BY <1>3, <1>4, <1>5, <2>1 DEF BriefsOf
  <2>2. CASE b # d
    BY <1>3, <2>2 DEF BriefsOf
  <2> QED BY <2>1, <2>2
<1>11. DebtsStay(Awaited(cs2), Lives(con), brief, queue, Lives(cs2), bs, qs)
  <2> SUFFICES ASSUME NEW a \in Consoles, NEW b \in Consoles, NEW e \in Awaited(cs2)[a]
               PROVE  OwesIn(Lives(cs2), bs, qs, b, a, e.id) <=>
                        OwesIn(Lives(con), brief, queue, b, a, e.id)
    BY DEF DebtsStay
  <2>1. CASE b # d
    BY <1>3, <1>9, <2>1 DEF OwesIn
  <2>2. CASE b = d
    <3>1. ~OwesIn(Lives(cs2), bs, qs, d, a, e.id)
      BY <1>5, <1>9 DEF OwesIn
    <3>2. ASSUME OwesIn(Lives(con), brief, queue, d, a, e.id) PROVE FALSE
      <4>1. e \in Awaited(con)[a]
        BY <1>8
      <4>2. \E f \in BriefsOf(brief, queue, d) : f.callbackId = e.id
        BY <3>2 DEF OwesIn, BriefsOf
      <4>3. e.type = "CB_CONSOLE"
        BY <4>1, <4>2, SafeFacts DEF Requests, BriefsAreOwed
      <4>4. AwaitsReply(a, d)
        BY <3>2, <4>1, <4>3, OwesIsIn DEF AwaitsIn
      <4>5. con[a].ctx # NoConsole
        BY <4>1, SafeFacts DEF Awaited, Sound, DeadIsClear
      <4>6. a \in exists
        BY <4>5, SafeFacts DEF LivesExist
      <4> QED BY <4>4, <4>6, PracticesOfNone
    <3> QED BY <2>2, <3>1, <3>2
  <2> QED BY <2>1, <2>2
<1>12. Requests(Awaited(cs2), Lives(cs2), bs, qs)
  <2>1. NothingAsked(Awaited(con), Lives(con), brief, queue, Awaited(cs2), Lives(cs2), bs, qs)
    BY <1>8, <1>10, <1>11 DEF NothingAsked
  <2> QED BY <2>1, SafeFacts, RequestsStay
<1>13. RepliesMatch(Awaited(cs2), bs, stack)
  <2>1. \A a \in Consoles : \A e \in Awaited(cs2)[a] : e \in Awaited(con)[a] /\ e.id # NoId
    BY <1>8, SafeFacts, ConsolesAssumption DEF Entry
  <2>2. \A b \in Consoles : bs[b].callbackId \in {NoId, brief[b].callbackId}
    BY <1>3, <1>4
  <2> QED BY <2>1, <2>2, SafeFacts DEF RepliesMatch
<1>14. BriefsAreGiven(bs, qs)
  <2> SUFFICES ASSUME NEW b \in Consoles, NEW f \in BriefsOf(bs, qs, b), f.has
               PROVE  f \in BriefsOf(brief, queue, b)
    BY SafeFacts DEF BriefsAreGiven
  <2>1. b # d
    BY <1>3, <1>4, <1>5 DEF BriefsOf
  <2> QED BY <1>3, <2>1 DEF BriefsOf
<1>15. Good(ex, cs2, bs, qs, stack)
  BY <1>7, <1>12, <1>13, <1>14 DEF Good
<1> QED BY <1>1, <1>15, BecomesGood

LEMMA CloseBoxGood ==
    ASSUME Practices = {}, Safe, NEW d \in Consoles, CloseBox(d)
    PROVE  GoodNow(exists')
<1> DEFINE x  == AskedBusy(con[d])
           cs == [con EXCEPT ![d] = x]
<1>1. /\ stack = <<>> /\ d \in exists /\ MayClose(d)
      /\ \/ Becomes(cs, brief, queue, stack) /\ UNCHANGED exists
         \/ Deleted(con, d)
  BY DEF CloseBox, Sets
<1>2. ~HasFrame(stack, d)
  <2>1. DOMAIN stack = {}
    BY <1>1
  <2> QED BY <2>1 DEF HasFrame
<1>3. CASE Becomes(cs, brief, queue, stack) /\ UNCHANGED exists
  <2>1. con[d] \in Console /\ Sound(con[d], stack, d)
    BY SafeFacts
  <2>2. Sound(x, stack, d)
    BY <1>2, <2>1, AskedSound
  <2>3. x.timed = con[d].timed /\ x.ctx = con[d].ctx /\ x.callbacks = con[d].callbacks
    BY <2>1, AskedBusyFields DEF Alike
  <2> HIDE DEF x
  <2>4. cs[d] = x /\ \A b \in Consoles : b # d => cs[b] = con[b]
    BY SafeFacts DEF Typing
  <2> HIDE DEF cs
  <2>5. Good(exists, cs, brief, queue, stack)
    BY <2>2, <2>3, <2>4, SafeFacts, OthersGood
  <2> QED BY <1>3, <2>5, BecomesGood
<1>4. CASE Deleted(con, d)
  BY <1>1, <1>2, <1>4, DeletedGood
<1> QED BY <1>1, <1>3, <1>4

\* A box that is answered is the same box.
LEMMA BoxAnswered ==
    ASSUME NEW s \in Seq(Frame), NEW i \in DOMAIN s, NEW a \in {"ok", "cancel", "closed"}
    PROVE  LET s2 == [s EXCEPT ![i].answer = a]
           IN  s2 \in Seq(Frame) /\ SameShape(s, s2) /\ SameShape(Below(s), Below(s2))
<1> DEFINE f  == [s[i] EXCEPT !.answer = a]
           s2 == [s EXCEPT ![i] = f]
           n  == Len(s)
<1>1. s[i] \in Frame /\ n \in Nat \ {0} /\ DOMAIN s = 1..n /\ s # <<>>
  BY EmptySeq, LenProperties, ElementOfSeq
<1>2. /\ f \in Frame /\ f.con = s[i].con /\ f.kind = s[i].kind /\ f.box = s[i].box
      /\ f.modal = s[i].modal /\ f.answer # "none"
  BY <1>1 DEF Frame
<1>3. [s EXCEPT ![i].answer = a] = s2
  OBVIOUS
<1> HIDE DEF f
<1>4. s2 \in Seq(Frame) /\ DOMAIN s2 = DOMAIN s /\ \A j \in DOMAIN s : s2[j] = IF j = i THEN f ELSE s[j]
  BY <1>2, FrameChanged
<1> HIDE DEF s2
<1>5. SameShape(s, s2)
  BY <1>2, <1>4 DEF SameShape
<1>6. Len(s2) = n /\ s2 # <<>>
  BY <1>1, <1>4, LenProperties
<1>7. SameShape(Below(s), Below(s2))
  <2> DEFINE b  == Below(s)
             b2 == Below(s2)
  <2>1. DOMAIN b = 1..(n - 1) /\ \A j \in DOMAIN b : b[j] = s[j]
    BY <1>1, BelowProperties
  <2>2. DOMAIN b2 = 1..(n - 1) /\ \A j \in DOMAIN b2 : b2[j] = s2[j]
    BY <1>4, <1>6, BelowProperties
  <2> HIDE DEF b, b2
  <2>3. \A j \in DOMAIN b : j \in DOMAIN s
    BY <1>1, <2>1
  <2>4. SameShape(b, b2)
    BY <1>5, <2>1, <2>2, <2>3 DEF SameShape
  <2> QED BY <2>4 DEF b, b2
<1> QED BY <1>3, <1>4, <1>5, <1>7

LEMMA ConsoleCloseGood ==
    ASSUME Practices = {}, Safe, NEW d \in Consoles, ConsoleClose(d)
    PROVE  GoodNow(exists')
<1> DEFINE boxed == con[d].dialog # 0
           cs == IF boxed THEN con ELSE [con EXCEPT ![d] = ClearCallbacks(con[d])]
           s  == IF boxed THEN [stack EXCEPT ![con[d].dialog].answer = "closed"] ELSE stack
           y  == AskedBusy(con[d])
           z  == PrepForThrow(con[me])
           cs0 == [con EXCEPT ![d] = y, ![me] = z]
<1>1. JSRunning /\ d \in exists /\ d # me /\ MayClose(d)
  BY DEF ConsoleClose
<1>2. \/ /\ IsBusy(cs[d]) /\ UNCHANGED exists /\ Alone
         /\ CallEnds([cs EXCEPT ![d] = AskedBusy(@), ![me] = PrepForThrow(@)], brief, s, TRUE)
      \/ ~IsBusy(cs[d]) /\ Suspended(stack, d)
      \/ ~IsBusy(cs[d]) /\ Deleted(cs, d)
  BY DEF ConsoleClose
<1>3. /\ me \in Consoles /\ con[me] \in Console /\ con[d] \in Console /\ Sound(con[d], stack, d)
      /\ con \in [Consoles -> Console] /\ con[me].ctx = me /\ ~con[me].alert
      /\ (HasFrame(stack, d) => HasMain(stack, d)) /\ stack \in Seq(Frame)
  BY <1>1, RunningFacts, SafeFacts DEF Typing
<1>4. CASE boxed
  <2>1. con[d].ctx # NoConsole
    BY <1>3, <1>4 DEF Sound, DeadIsClear
  <2>2. IsBusy(con[d])
    BY <1>3, <1>4, <2>1, LiveWaits DEF IsBusy, Unasking
  <2>3. cs = con /\ s = [stack EXCEPT ![con[d].dialog].answer = "closed"]
    BY <1>4
  <2>4. con[d].dialog \in DOMAIN stack
    BY <1>3, <1>4 DEF Sound, BoxIsRecorded
  <2>5. s \in Seq(Frame) /\ SameShape(Below(stack), Below(s))
    BY <1>3, <2>3, <2>4, BoxAnswered
  <2>6. UNCHANGED exists /\ Alone /\ CallEnds(cs0, brief, s, TRUE)
    <3>1. /\ UNCHANGED exists /\ Alone
          /\ CallEnds([con EXCEPT ![d] = AskedBusy(@), ![me] = PrepForThrow(@)], brief, s, TRUE)
      BY <1>2, <2>2, <2>3
    <3>2. [con EXCEPT ![d] = AskedBusy(@), ![me] = PrepForThrow(@)] = cs0
      BY <1>1, <1>3
    <3> QED BY <3>1, <3>2
  <2>7. y \in Console
    BY <1>3, AskedBusyFields DEF Alike
  <2>8. z \in Console /\ z.ctx = me /\ ~z.alert /\ z.modalCount = 0 /\ ~z.runningMain
    BY <1>1, <1>3, <2>6, AloneFacts, RunningFields DEF PrepForThrow, Alike
  <2>9. y = AskedBusy(con[d])
    OBVIOUS
  <2> HIDE DEF y, z, s
  <2>10. /\ cs0 \in [Consoles -> Console] /\ cs0[me] = z
         /\ \A b \in Consoles : b # me => cs0[b] = con[b] \/ cs0[b] = AskedBusy(con[b])
    BY <1>1, <1>3, <2>7, <2>8, <2>9
  <2> HIDE DEF cs0
  <2>11. GoodNow(exists)
    BY <1>1, <2>5, <2>6, <2>8, <2>10, AskedThrowsGood
  <2> QED BY <2>6, <2>11
<1>5. CASE ~boxed
  <2> DEFINE w == ClearCallbacks(con[d])
  <2>1. /\ w \in Console /\ w.callbacks = {} /\ ~w.alert /\ ~w.runningMain /\ w.dialog = 0
        /\ ~w.waitingCached
    BY <1>3, ClearedFields
  <2>2. ~IsBusy(w)
    BY <2>1 DEF IsBusy, IsWaiting, SomethingAwaited
  <2>3. cs = [con EXCEPT ![d] = w]
    BY <1>5
  <2> HIDE DEF w, cs
  <2>4. cs[d] = w
    BY <1>3, <2>3
  <2>5. ~HasFrame(stack, d)
    <3> SUFFICES ASSUME HasFrame(stack, d) PROVE FALSE
      OBVIOUS
    <3>1. PICK i \in DOMAIN stack : stack[i].con = d
      BY DEF HasFrame
    <3>2. i # Len(stack)
      BY <1>1, <3>1 DEF me, Top
    <3>3. stack[i].box
      BY <3>1, <3>2, SafeFacts DEF BoxesBelow
    <3>4. ~HasBox(stack, d)
      BY <1>3, <1>5 DEF Sound, BoxIsRecorded
    <3>5. InOtherModal(d)
      BY <3>1, <3>3, <3>4 DEF HasBox, InOtherModal
    <3> QED BY <1>1, <3>5 DEF MayClose
  <2>7. Deleted(cs, d)
    BY <1>2, <2>2, <2>4, <2>5 DEF Suspended, HasFrame
  <2>6. [cs EXCEPT ![d] = NewConsole] = [con EXCEPT ![d] = NewConsole]
    BY <1>3, <2>3
  <2> QED BY <1>1, <2>5, <2>6, <2>7, DeletedGood
<1> QED BY <1>4, <1>5

-----------------------------------------------------------------------------
(* What the event loop dispatches *)

\* What of c starts, and of the briefs and queues with it.
Starting(c, x, bs, qs, f) ==
    /\ AllBoxed(stack) /\ c \in Consoles /\ c \in exists
    /\ f \in Frame /\ f.con = c /\ f.kind # "reply" /\ ~f.box /\ f.modal = "no"
    /\ f.kind = "main" => ~HasMain(stack, c)
    /\ x \in Console /\ x.timed /\ x.ctx = c /\ Sound(x, Append(stack, f), c)
    /\ qs[c] = <<>> /\ \A d \in Consoles : d # c => qs[d] = queue[d]
    /\ \A cs : /\ cs[c] = x
               /\ \A d \in Consoles : d # c => /\ cs[d].ctx = con[d].ctx
                                               /\ cs[d].callbacks = con[d].callbacks
               => Requests(Awaited(cs), Lives(cs), bs, qs)
    /\ BriefsAreGiven(bs, qs)

LEMMA CallStarts ==
    ASSUME Safe, NEW c, NEW x, NEW bs, NEW qs, NEW f, Starting(c, x, bs, qs, f)
    PROVE  Good(exists, Timed(con, c, x), bs, qs, Append(stack, f))
<1> DEFINE cs == Timed(con, c, x)
           s  == Append(stack, f)
<1> USE DEF Starting
<1>1. stack \in Seq(Frame) /\ MainIsOne(stack) /\ f \in Frame /\ c # NoConsole
  BY SafeFacts, ConsolesAssumption
<1>2. BoxesBelow(s) /\ MainIsOne(s) /\ s # <<>> /\ s[Len(s)] = f
  BY <1>1, BoxedAppend
<1>3. cs[c] = x /\ \A d \in Consoles : d # c => cs[d] = ClearTimeout(con[d])
  BY DEF Timed
<1> HIDE DEF cs
<1>4. ASSUME NEW d \in Consoles, d # c
      PROVE  /\ Sound(cs[d], s, d) /\ cs[d].ctx = con[d].ctx
             /\ cs[d].callbacks = con[d].callbacks /\ ~cs[d].timed
  <2>1. con[d] \in Console /\ Sound(con[d], stack, d)
    BY SafeFacts
  <2>2. /\ Steady(con[d], cs[d]) /\ cs[d].ctx = con[d].ctx
        /\ cs[d].callbacks = con[d].callbacks /\ ~cs[d].timed
    BY <1>3, <1>4, <2>1, TimeoutFields, AlikeIsSteady DEF Alike
  <2>3. SameFrames(stack, s, d)
    BY <1>1, <1>4, FramesOfOthers
  <2> QED BY <2>1, <2>2, <2>3, SoundStays
<1>5. Requests(Awaited(cs), Lives(cs), bs, qs)
  BY <1>3, <1>4
<1>6. ConsolesSound(exists, cs, qs, s)
  <2>1. OnlyTimed(cs, s)
    BY <1>2, <1>3, <1>4 DEF OnlyTimed
  <2>2. \A d \in Consoles : Sound(cs[d], s, d)
    BY <1>3, <1>4
  <2>3. LivesExist(exists, cs, qs)
    BY <1>1, <1>3, <1>4, SafeFacts DEF LivesExist
  <2> QED BY <1>2, <2>1, <2>2, <2>3 DEF ConsolesSound, LivesExist
<1>7. RepliesMatch(Awaited(cs), bs, s)
  <2>1. \A i \in DOMAIN s : i = Len(s) \/ s[i].kind = "main"
    BY <1>2 DEF BoxesBelow
  <2> QED BY <1>2, <2>1 DEF RepliesMatch
<1>8. Good(exists, cs, bs, qs, s)
  BY <1>5, <1>6, <1>7 DEF Good
<1> QED BY <1>8 DEF cs

\* Main starts in a console that has no heap yet, and awaits nothing; lv are
\* the scripts that live then.
Launching(c, bs, qs, lv) ==
    /\ AllBoxed(stack) /\ c \in exists /\ con[c].ctx = NoConsole
    /\ qs[c] = <<>> /\ \A d \in Consoles : d # c => qs[d] = queue[d]
    /\ lv \in [Consoles -> BOOLEAN]
    /\ \A d \in Consoles : lv[d] = IF d = c THEN TRUE ELSE Lives(con)[d]
    /\ Requests(Awaited(con), lv, bs, qs) /\ BriefsAreGiven(bs, qs)

LEMMA RunScriptGood ==
    ASSUME Safe, NEW c \in Consoles, NEW bs, NEW qs, NEW lv, Launching(c, bs, qs, lv),
           RunScript(c, bs, qs)
    PROVE  GoodNow(exists)
<1> USE DEF Launching
<1> DEFINE x == BeforeMain(con[c], c)
           f == NewFrame(c, "main")
           s == Append(stack, f)
<1>1. /\ con[c] \in Console /\ Sound(con[c], stack, c) /\ c # NoConsole /\ stack \in Seq(Frame)
      /\ MainIsOne(stack)
  BY SafeFacts, ConsolesAssumption
<1>2. /\ con[c].callbacks = {} /\ con[c].dialog = 0 /\ ~HasFrame(stack, c)
      /\ ~HasCounted(stack, c) /\ ~HasMain(stack, c)
      /\ BoxIsRecorded(con[c], stack, c)
  <2>1. con[c].callbacks = {} /\ con[c].dialog = 0 /\ ~HasFrame(stack, c)
    BY <1>1 DEF Sound, DeadIsClear
  <2> QED BY <1>1, <2>1 DEF Sound, HasFrame, HasCounted, HasMain
<1>3. /\ x \in Console /\ x.ctx = c /\ x.label = "Stop" /\ x.runningMain /\ x.status = {}
      /\ x.callbacks = {} /\ ~x.alert /\ x.dialog = 0
      /\ x.modalCount = 0 /\ ~x.waitingCached /\ x.timed
  BY <1>1, <1>2, BeforeMainFields
<1>4. Becomes(Timed(con, c, x), bs, qs, s)
  BY DEF RunScript
<1> HIDE DEF x
<1>5. f \in Frame /\ f.con = c /\ f.kind = "main" /\ ~f.box /\ f.modal = "no"
  BY FrameTypes DEF NewFrame
<1> HIDE DEF f
<1>6. /\ HasFrame(s, c) /\ HasMain(s, c) /\ ~HasCounted(s, c) /\ BoxIsRecorded(con[c], s, c)
      /\ DialogueHasEntry(x, s, c)
  <2>1. DialogueHasEntry(x, stack, c)
    BY <1>2 DEF HasFrame, DialogueHasEntry
  <2> QED BY <1>1, <1>2, <1>5, <2>1, BoxedAppend
<1> HIDE DEF s
<1>7. Sound(x, s, c)
  <2>1. BoxIsRecorded(x, s, c)
    BY <1>2, <1>3, <1>6 DEF BoxIsRecorded
  <2>2. DeadIsClear(x) /\ LiveIsBusy(x, s, c)
    BY <1>1, <1>3, <1>6 DEF DeadIsClear, LiveIsBusy, Unheard
  <2> QED BY <1>1, <1>3, <1>6, <2>1, <2>2 DEF Sound
<1>8. ASSUME NEW cs, cs[c] = x,
             \A d \in Consoles : d # c => cs[d].ctx = con[d].ctx /\ cs[d].callbacks = con[d].callbacks
      PROVE  Requests(Awaited(cs), Lives(cs), bs, qs)
  <2>1. \A d \in Consoles : cs[d].callbacks = con[d].callbacks
    BY <1>2, <1>3, <1>8
  <2>2. Awaited(cs) = Awaited(con)
    BY <2>1 DEF Awaited
  <2>3. \A d \in Consoles : (cs[d].ctx # NoConsole) = lv[d]
    <3> SUFFICES ASSUME NEW d \in Consoles PROVE (cs[d].ctx # NoConsole) = lv[d]
      OBVIOUS
    <3>1. CASE d = c
      <4>1. cs[d].ctx # NoConsole
        BY <1>1, <1>3, <1>8, <3>1
      <4>2. lv[d] = TRUE
        BY <3>1
      <4> QED BY <4>1, <4>2
    <3>2. CASE d # c
      <4>1. cs[d].ctx = con[d].ctx
        BY <1>8, <3>2
      <4>2. lv[d] = (con[d].ctx # NoConsole)
        BY <3>2 DEF Lives
      <4> QED BY <4>1, <4>2
    <3> QED BY <3>1, <3>2
  <2>4. Lives(cs) = lv
    BY <2>3 DEF Lives
  <2> QED BY <2>2, <2>4
<1>9. Starting(c, x, bs, qs, f)
  BY <1>2, <1>3, <1>5, <1>7, <1>8 DEF Starting, s
<1> QED BY <1>4, <1>9, CallStarts, BecomesGood DEF s

\* The script that the Run button finds running is stopped.
LEMMA StopRunGood ==
    ASSUME Practices = {}, Safe, NEW c \in Consoles, stack = <<>>, con[c].label = "Stop",
           NEW bs \in [Consoles -> Brief], SameDebts(brief, bs), BriefsAreGiven(bs, queue),
           StopRun(c, bs, queue)
    PROVE  GoodNow(exists)
<1> DEFINE k == [con[c] EXCEPT !.status = {}]
           cs == [con EXCEPT ![c] = k]
<1>1. /\ con[c] \in Console /\ Sound(con[c], stack, c) /\ DOMAIN stack = {}
      /\ con \in [Consoles -> Console] /\ c # NoConsole
  <2>1. DOMAIN stack = {}
    OBVIOUS
  <2> QED BY <2>1, SafeFacts, ConsolesAssumption DEF Typing
<1>2. con[c].ctx = c /\ ~con[c].alert /\ con[c].modalCount = 0
  BY <1>1 DEF Sound, DeadIsClear, HasCounted
<1>3. /\ k \in Console /\ k.ctx = con[c].ctx /\ k.alert = con[c].alert
      /\ k.modalCount = con[c].modalCount /\ ~k.timed
  <2>1. {} \in SUBSET Completions
    OBVIOUS
  <2>2. ~con[c].timed
    BY SafeFacts DEF OnlyTimed
  <2> QED BY <1>1, <2>1, <2>2, StatusFields DEF Alike
<1>4. WrapUp(cs, bs, queue, stack, c, "STOPPED")
  BY DEF StopRun
<1> HIDE DEF k
<1>5. cs[c] = k /\ cs \in [Consoles -> Console] /\ \A d \in Consoles : d # c => cs[d] = con[d]
  BY <1>1, <1>3
<1> HIDE DEF cs
<1>6. AllBoxed(stack) /\ ~HasFrame(stack, c)
  BY <1>1 DEF AllBoxed, HasFrame
<1>7. \A d \in Consoles : cs[d].ctx = con[d].ctx
  BY <1>3, <1>5
<1>8. Requests([Awaited(cs) EXCEPT ![c] = {}], Lives(cs), bs, queue)
  <2> DEFINE aw2 == [Awaited(cs) EXCEPT ![c] = {}]
  <2>1. \A a \in Consoles : aw2[a] = IF a = c THEN {} ELSE cs[a].callbacks
    BY EndedAwaited
  <2> HIDE DEF aw2
  <2>2. \A a \in Consoles : aw2[a] \subseteq Awaited(con)[a]
    BY <1>5, <2>1 DEF Awaited
  <2>3. Lives(cs) = Lives(con)
    BY <1>7 DEF Lives
  <2>4. BriefsStay(aw2, bs, queue, bs, queue)
    BY DEF BriefsStay
  <2>5. DebtsStay(aw2, Lives(con), bs, queue, Lives(cs), bs, queue)
    BY <2>3 DEF DebtsStay
  <2>6. NothingAsked(Awaited(con), Lives(con), bs, queue, aw2, Lives(cs), bs, queue)
    BY <2>2, <2>4, <2>5 DEF NothingAsked
  <2>7. Requests(aw2, Lives(cs), bs, queue)
    BY <2>6, SafeFacts, SameDebtsRequests, RequestsStay
  <2> QED BY <2>7 DEF aw2
<1>9. Ending(exists, cs, bs, queue, stack, c)
  <2>1. LivesExist(exists, cs, queue)
    BY <1>7, SafeFacts DEF LivesExist
  <2> QED BY <1>2, <1>3, <1>5, <1>6, <1>8, <2>1, SafeFacts DEF Ending
<1>10. "STOPPED" \in Completions /\ Typing(cs, bs, queue, stack)
  BY <1>5, SafeFacts DEF Completions, Typing
<1>11. Untimed(cs)
  <2>1. \A d \in Consoles : ~con[d].timed
    BY SafeFacts DEF OnlyTimed
  <2> QED BY <1>3, <1>5, <2>1 DEF Untimed
<1> QED BY <1>4, <1>9, <1>10, <1>11, WrapUpGood DEF Safe

\* The request to run, with no brief of its own, revives no reply owed before.
LEMMA RunClickedGood ==
    ASSUME Practices = {}, Safe, NEW c \in Consoles, RunClicked(c)
    PROVE  GoodNow(exists)
<1> DEFINE g0 == [brief[c] EXCEPT !.has = FALSE]
           f  == [g0 EXCEPT !.given = FALSE, !.request = NoId]
           bs == [brief EXCEPT ![c] = f]
           b0 == [brief EXCEPT ![c] = g0]
           lv == [d \in Consoles |-> IF d = c THEN TRUE ELSE Lives(con)[d]]
<1>1. /\ stack = <<>> /\ c \in exists
      /\ \/ con[c].label = "Run" /\ queue[c] = <<>> /\ RunScript(c, bs, queue)
         \/ con[c].label # "Run" /\ StopRun(c, b0, queue)
  BY PracticesOfNone DEF RunClicked
<1>2. /\ con[c] \in Console /\ Sound(con[c], stack, c) /\ brief[c] \in Brief
      /\ brief \in [Consoles -> Brief] /\ queue \in [Consoles -> Seq(Brief)]
  BY SafeFacts DEF Typing
<1>3. CASE con[c].label # "Run" /\ StopRun(c, b0, queue)
  <2>1. con[c].label = "Stop"
    BY <1>2, <1>3 DEF Console
  <2>2. /\ g0 \in Brief /\ g0.callbackId = brief[c].callbackId /\ g0.caller = brief[c].caller
        /\ g0.request = brief[c].request /\ g0.has = FALSE
    BY <1>2 DEF Brief
  <2> HIDE DEF g0
  <2>3. b0 \in [Consoles -> Brief] /\ SameDebts(brief, b0) /\ BriefsAreGiven(b0, queue)
    BY <2>2, BriefChanged
  <2> HIDE DEF b0
  <2> QED BY <1>1, <1>3, <2>1, <2>3, StopRunGood
<1>4. CASE con[c].label = "Run" /\ queue[c] = <<>> /\ RunScript(c, bs, queue)
  <2>1. con[c].ctx = NoConsole
    BY <1>2, <1>4 DEF Sound, LiveIsBusy
  <2>2. f \in Brief /\ f.callbackId = brief[c].callbackId /\ f.caller = brief[c].caller
        /\ f.has = FALSE
    BY <1>2 DEF Brief
  <2> HIDE DEF f
  <2>3. bs[c] = f /\ \A d \in Consoles : d # c => bs[d] = brief[d]
    BY <1>2
  <2>4. Requests(Awaited(con), lv, bs, queue)
    <3>1. \A d \in Consoles : d # c => lv[d] = Lives(con)[d]
      OBVIOUS
    <3> HIDE DEF lv
    <3> QED BY <1>4, <2>1, <2>2, <3>1, Unanswered
  <2> HIDE DEF bs
  <2>5. BriefsAreGiven(bs, queue)
    <3> SUFFICES ASSUME NEW b \in Consoles, NEW g \in BriefsOf(bs, queue, b), g.has PROVE g.given
      BY DEF BriefsAreGiven
    <3>1. g \in BriefsOf(brief, queue, b)
      BY <2>2, <2>3 DEF BriefsOf
    <3> QED BY <3>1, SafeFacts DEF BriefsAreGiven
  <2>6. AllBoxed(stack)
    <3>1. DOMAIN stack = {}
      BY <1>1
    <3> QED BY <3>1 DEF AllBoxed
  <2>7. /\ lv \in [Consoles -> BOOLEAN]
        /\ \A d \in Consoles : lv[d] = IF d = c THEN TRUE ELSE Lives(con)[d]
    BY DEF Lives
  <2> HIDE DEF lv
  <2>8. Launching(c, bs, queue, lv)
    BY <1>1, <1>4, <2>1, <2>4, <2>5, <2>6, <2>7 DEF Launching
  <2>9. RunScript(c, bs, queue)
    BY <1>4 DEF bs
  <2> QED BY <2>8, <2>9, RunScriptGood
<1> QED BY <1>1, <1>3, <1>4

\* The brief queued is now that of the script that runs.
LEMMA RunQueuedGood ==
    ASSUME Safe, NEW c \in Consoles, RunQueued(c)
    PROVE  GoodNow(exists)
<1> DEFINE f  == queue[c][1]
           bs == [brief EXCEPT ![c] = f]
           qs == [queue EXCEPT ![c] = Tail(queue[c])]
           lv == [d \in Consoles |-> IF d = c THEN TRUE ELSE Lives(con)[d]]
<1>1. /\ InEventLoop /\ queue[c] # <<>>
      /\ con[c].label = "Run" => RunScript(c, bs, qs)
  BY DEF RunQueued, Event
<1>2. /\ con[c] \in Console /\ Sound(con[c], stack, c) /\ queue[c] \in Seq(Brief)
      /\ brief \in [Consoles -> Brief] /\ queue \in [Consoles -> Seq(Brief)]
      /\ Awaited(con) \in [Consoles -> SUBSET Entry]
      /\ stack \in Seq(Frame) /\ BoxesBelow(stack) /\ MainIsOne(stack)
  BY SafeFacts DEF Typing
<1>3. con[c].ctx = NoConsole /\ con[c].label = "Run" /\ c \in exists /\ Len(queue[c]) = 1
  BY <1>1, <1>2, SafeFacts DEF LivesExist, Sound, DeadIsClear
<1>4. AllBoxed(stack)
  BY <1>1, <1>2, BoxedBelow DEF InEventLoop, JSRunning, Top
<1>5. DOMAIN queue[c] = {1} /\ Tail(queue[c]) = <<>> /\ f \in Brief
  <2>1. Tail(queue[c]) \in Seq(Brief) /\ Len(Tail(queue[c])) = 0
    BY <1>1, <1>2, <1>3, HeadTailProperties
  <2>2. Tail(queue[c]) = <<>>
    BY <2>1, EmptySeq
  <2>3. DOMAIN queue[c] = {1}
    BY <1>2, <1>3, LenProperties
  <2>4. f \in Brief
    <3>1. 1 \in 1..Len(queue[c])
      BY <1>3
    <3> QED BY <1>2, <3>1, ElementOfSeq
  <2> QED BY <2>2, <2>3, <2>4
<1>6. /\ bs[c] = f /\ \A d \in Consoles : d # c => bs[d] = brief[d] /\ qs[d] = queue[d]
      /\ qs[c] = <<>> /\ DOMAIN qs[c] = {}
  <2>1. qs[c] = <<>>
    BY <1>2, <1>5
  <2>2. DOMAIN qs[c] = {}
    <3> HIDE DEF qs
    <3> QED BY <2>1
  <2> QED BY <1>2, <2>1, <2>2
<1>7. f \in BriefsOf(brief, queue, c)
  BY <1>5 DEF BriefsOf
<1>8. /\ lv \in [Consoles -> BOOLEAN]
      /\ \A d \in Consoles : lv[d] = IF d = c THEN TRUE ELSE Lives(con)[d]
  BY DEF Lives
<1>9. ~Lives(con)[c] /\ queue[c][1] = f
  BY <1>3 DEF Lives
<1>10. RunScript(c, bs, qs)
  BY <1>1, <1>3
<1> HIDE DEF f, bs, qs, lv
<1>11. \A b \in Consoles : \A g \in BriefsOf(bs, qs, b) : g \in BriefsOf(brief, queue, b)
  BY <1>6, <1>7 DEF BriefsOf
<1>12. DebtsStay(Awaited(con), Lives(con), brief, queue, lv, bs, qs)
  <2> SUFFICES ASSUME NEW a \in Consoles, NEW b \in Consoles, NEW e \in Awaited(con)[a]
               PROVE  OwesIn(lv, bs, qs, b, a, e.id) <=>
                        OwesIn(Lives(con), brief, queue, b, a, e.id)
    BY DEF DebtsStay
  <2>1. CASE b = c
    <3>1. OwesIn(lv, bs, qs, c, a, e.id) <=> f.callbackId = e.id /\ f.caller = a
      BY <1>6, <1>8 DEF OwesIn
    <3>2. OwesIn(Lives(con), brief, queue, c, a, e.id) <=> f.callbackId = e.id /\ f.caller = a
      BY <1>5, <1>9 DEF OwesIn
    <3> QED BY <2>1, <3>1, <3>2
  <2>2. CASE b # c
    BY <1>6, <1>8, <2>2 DEF OwesIn
  <2> QED BY <2>1, <2>2
<1>13. Requests(Awaited(con), lv, bs, qs)
  <2>1. BriefsStay(Awaited(con), brief, queue, bs, qs)
    BY <1>11 DEF BriefsStay
  <2>2. NothingAsked(Awaited(con), Lives(con), brief, queue, Awaited(con), lv, bs, qs)
    BY <1>12, <2>1 DEF NothingAsked
  <2> QED BY <1>2, <2>2, SafeFacts, RequestsStay
<1>14. BriefsAreGiven(bs, qs)
  BY <1>11, SafeFacts DEF BriefsAreGiven
<1>15. qs[c] = <<>> /\ \A d \in Consoles : d # c => qs[d] = queue[d]
  BY <1>6
<1> HIDE <1>6
<1>16. Launching(c, bs, qs, lv)
  BY <1>3, <1>4, <1>8, <1>13, <1>14, <1>15 DEF Launching
<1> QED BY <1>10, <1>16, RunScriptGood

\* A timer that fires is no request.
LEMMA TimerFiresGood ==
    ASSUME Safe, NEW c \in Consoles, TimerFires(c)
    PROVE  GoodNow(exists)
<1>1. InEventLoop
  BY DEF TimerFires, Event
<1>2. PICK e \in con[c].callbacks :
        /\ e.type = "CB_TIMER"
        /\ Becomes(Timed(con, c, BeforeCall(TakeEntry(con[c], e))), brief, queue,
                   Append(stack, NewFrame(c, "callback")))
  BY DEF TimerFires
<1> DEFINE gone == {u \in {e} : ~u.persistant}
           y == RemoveEntries(con[c], gone)
           x == BeforeCall(y)
           f == NewFrame(c, "callback")
           s == Append(stack, f)
<1>3. /\ con[c] \in Console /\ Sound(con[c], stack, c) /\ c # NoConsole
      /\ stack \in Seq(Frame) /\ BoxesBelow(stack) /\ MainIsOne(stack)
  BY SafeFacts, ConsolesAssumption
<1>4. AllBoxed(stack)
  BY <1>1, <1>3, BoxedBelow DEF InEventLoop, JSRunning, Top
<1>5. /\ con[c].ctx = c /\ con[c].label = "Stop" /\ con[c].status \cap Interrupts = {}
      /\ c \in exists /\ queue[c] = <<>>
  <2>1. con[c].ctx = c
    BY <1>3 DEF Sound, DeadIsClear
  <2> QED BY <1>3, <2>1, SafeFacts DEF Sound, LiveIsBusy, LivesExist
<1>6. Becomes(Timed(con, c, x), brief, queue, s)
  BY <1>2 DEF TakeEntry
<1>a. \A u \in gone : u.type = "CB_TIMER"
  BY <1>2
<1> HIDE DEF gone
<1>7. /\ y \in Console /\ y.callbacks = con[c].callbacks \ gone
      /\ y.ctx = con[c].ctx /\ y.alert = con[c].alert /\ y.dialog = con[c].dialog
      /\ y.label = con[c].label /\ y.modalCount = con[c].modalCount
      /\ y.runningMain = con[c].runningMain /\ y.status = con[c].status
  BY <1>3, EntriesFields
<1> HIDE DEF y
<1>8. /\ Alike(y, x) /\ x.runningMain = y.runningMain
      /\ x.status = y.status \ {"TIMEOUT"} /\ ~x.waitingCached /\ x.timed
  BY <1>7, BeforeCallFields
<1> HIDE DEF x
<1>9. /\ x \in Console /\ x.ctx = c /\ x.callbacks = con[c].callbacks \ gone
      /\ ~x.alert /\ x.dialog = con[c].dialog /\ x.label = "Stop"
      /\ x.modalCount = con[c].modalCount /\ x.runningMain = con[c].runningMain
      /\ x.status \cap Interrupts = {}
  BY <1>3, <1>5, <1>7, <1>8 DEF Alike, Sound
<1>10. f \in Frame /\ f.con = c /\ f.kind = "callback" /\ ~f.box /\ f.modal = "no"
  BY FrameTypes DEF NewFrame
<1> HIDE DEF f
<1>11. /\ HasFrame(s, c) /\ (HasMain(s, c) <=> HasMain(stack, c))
       /\ (HasCounted(s, c) <=> HasCounted(stack, c))
       /\ BoxIsRecorded(con[c], stack, c) => BoxIsRecorded(con[c], s, c)
       /\ DialogueHasEntry(x, stack, c) => DialogueHasEntry(x, s, c)
  BY <1>3, <1>4, <1>10, BoxedAppend
<1> HIDE DEF s
<1>12. Sound(x, s, c)
  <2>1. BoxIsRecorded(x, s, c)
    BY <1>3, <1>9, <1>11 DEF Sound, BoxIsRecorded
  <2>2. DeadIsClear(x) /\ LiveIsBusy(x, s, c)
    BY <1>3, <1>8, <1>9, <1>11 DEF DeadIsClear, LiveIsBusy, Unheard
  <2>3. x.runningMain <=> HasMain(s, c)
    BY <1>3, <1>9, <1>11 DEF Sound
  <2>4. x.modalCount = IF HasCounted(s, c) THEN 1 ELSE 0
    BY <1>3, <1>9, <1>11 DEF Sound
  <2>5. DialogueHasEntry(x, s, c)
    <3>1. DialogueHasEntry(x, stack, c)
      BY <1>a, <1>3, <1>9 DEF Sound, DialogueHasEntry
    <3> QED BY <1>11, <3>1
  <2> QED BY <1>3, <1>9, <2>1, <2>2, <2>3, <2>4, <2>5 DEF Sound
<1>13. ASSUME NEW cs, cs[c] = x,
              \A d \in Consoles : d # c => cs[d].ctx = con[d].ctx /\ cs[d].callbacks = con[d].callbacks
       PROVE  Requests(Awaited(cs), Lives(cs), brief, queue)
  <2>1. \A d \in Consoles : Awaited(cs)[d] \subseteq Awaited(con)[d]
    BY <1>9, <1>13 DEF Awaited
  <2>2. \A d \in Consoles : cs[d].ctx = con[d].ctx
    BY <1>5, <1>9, <1>13
  <2>3. Lives(cs) = Lives(con)
    BY <2>2 DEF Lives
  <2>4. BriefsStay(Awaited(cs), brief, queue, brief, queue)
    BY DEF BriefsStay
  <2>5. DebtsStay(Awaited(cs), Lives(con), brief, queue, Lives(cs), brief, queue)
    BY <2>3 DEF DebtsStay
  <2>6. NothingAsked(Awaited(con), Lives(con), brief, queue, Awaited(cs), Lives(cs), brief, queue)
    BY <2>1, <2>4, <2>5 DEF NothingAsked
  <2> QED BY <2>6, SafeFacts, RequestsStay
<1>14. Starting(c, x, brief, queue, f)
  BY <1>4, <1>5, <1>8, <1>9, <1>10, <1>12, <1>13, SafeFacts DEF Starting, s
<1> QED BY <1>6, <1>14, CallStarts, BecomesGood DEF s

\* Whose time it is does not change with an answer.
LEMMA AnsweredTimed ==
    ASSUME NEW cs, NEW s \in Seq(Frame), s # <<>>, NEW s2 \in Seq(Frame), SameShape(s, s2),
           OnlyTimed(cs, s)
    PROVE  OnlyTimed(cs, s2)
<1>1. Len(s2) = Len(s) /\ Len(s) \in DOMAIN s
  BY EmptySeq, LenProperties DEF SameShape
<1>2. s2 # <<>>
  <2>1. Len(<<>>) = 0 /\ Len(s2) # 0
    BY <1>1, EmptySeq, LenProperties
  <2> QED BY <2>1, Zenon
<1>3. s2[Len(s2)].con = s[Len(s)].con /\ s2[Len(s2)].modal = s[Len(s)].modal
  BY <1>1 DEF SameShape
<1> QED BY <1>2, <1>3 DEF OnlyTimed

LEMMA MessageButtonGood ==
    ASSUME Safe, NEW answer \in {"ok", "cancel"}, MessageButton(answer)
    PROVE  GoodNow(exists)
<1> DEFINE s == [stack EXCEPT ![Len(stack)].answer = answer]
<1>1. InEventLoop /\ stack # <<>> /\ Becomes(con, brief, queue, s)
  BY DEF MessageButton, Event
<1>2. stack \in Seq(Frame) /\ Len(stack) \in DOMAIN stack /\ BoxesBelow(stack) /\ MainIsOne(stack)
  BY <1>1, SafeFacts, EmptySeq, LenProperties
<1>3. AllBoxed(stack)
  BY <1>1, <1>2, BoxedBelow DEF InEventLoop, JSRunning, Top
<1>4. s \in Seq(Frame) /\ SameShape(stack, s)
  BY <1>2, BoxAnswered
<1> HIDE DEF s
<1>5. AllBoxed(s) /\ MainIsOne(s) /\ \A d : SameFrames(stack, s, d)
  BY <1>2, <1>3, <1>4, SameShapeFacts
<1>6. \A d \in Consoles : Sound(con[d], s, d)
  BY <1>5, SafeFacts, SteadyIsSteady, SoundStays
<1>7. OnlyTimed(con, s)
  BY <1>1, <1>2, <1>4, AnsweredTimed, SafeFacts
<1>8. Good(exists, con, brief, queue, s)
  BY <1>4, <1>5, <1>6, <1>7, SafeFacts, GoodBoxed
<1> QED BY <1>1, <1>8, BecomesGood

\* The button of a modal dialogue takes its entry, which asks for no reply.
LEMMA DialogueButtonGood ==
    ASSUME Safe, DialogueButton
    PROVE  GoodNow(exists)
<1> DEFINE entries == {e \in con[me].callbacks : e.type = "CB_DIALOGUE"}
           x  == RemoveEntries(con[me], entries)
           cs == [con EXCEPT ![me] = x]
           n  == Len(stack)
           s  == [stack EXCEPT ![n].answer = "ok"]
<1>1. /\ InEventLoop /\ stack # <<>> /\ Top.modal = "dialogue" /\ Top.answer = "none"
      /\ entries # {} => Becomes(cs, brief, queue, s)
  BY DEF DialogueButton, Event
<1>2. /\ stack \in Seq(Frame) /\ n \in DOMAIN stack /\ BoxesBelow(stack) /\ MainIsOne(stack)
      /\ Top = stack[n] /\ me = Top.con /\ me \in Consoles /\ con[me] \in Console
      /\ Sound(con[me], stack, me) /\ con \in [Consoles -> Console]
  BY <1>1, TopType, SafeFacts, EmptySeq, LenProperties DEF Top, me, Typing
<1>3. AllBoxed(stack)
  BY <1>1, <1>2, BoxedBelow DEF InEventLoop, JSRunning, Top
<1>4. entries # {}
  BY <1>1, <1>2, <1>3 DEF Sound, DialogueHasEntry, AllBoxed
<1>5. s \in Seq(Frame) /\ SameShape(stack, s) /\ s[n].answer = "ok"
  <2>1. s \in Seq(Frame) /\ SameShape(stack, s)
    BY <1>2, BoxAnswered
  <2>2. s[n] = [stack[n] EXCEPT !.answer = "ok"]
    BY <1>2
  <2> HIDE DEF s
  <2>3. stack[n] \in Frame
    BY <1>2
  <2>4. s[n].answer = "ok"
    BY <2>2, <2>3 DEF Frame
  <2> QED BY <2>1, <2>4
<1>6. /\ x \in Console /\ x.callbacks = con[me].callbacks \ entries
      /\ x.ctx = con[me].ctx /\ x.alert = con[me].alert /\ x.dialog = con[me].dialog
      /\ x.label = con[me].label /\ x.modalCount = con[me].modalCount
      /\ x.runningMain = con[me].runningMain /\ x.status = con[me].status
      /\ x.waitingCached = con[me].waitingCached /\ x.waiting = con[me].waiting
      /\ x.timed = con[me].timed
  BY <1>2, EntriesFields
<1>7. Becomes(cs, brief, queue, s)
  BY <1>1, <1>4
<1>8. AllBoxed(s) /\ MainIsOne(s) /\ \A d : SameFrames(stack, s, d)
  BY <1>2, <1>3, <1>5, SameShapeFacts
<1> HIDE DEF s, x, entries
<1>9. \A i \in DOMAIN s : s[i].con = me => i = n
  BY <1>2, <1>3, <1>5 DEF SameShape, AllBoxed, MainIsOne
<1>10. Sound(x, s, me)
  <2>1. Sound(con[me], s, me)
    BY <1>2, <1>8, SteadyIsSteady, SoundStays
  <2>2. HasFrame(s, me)
    BY <1>2, <1>5 DEF SameShape, HasFrame
  <2>3. DialogueHasEntry(x, s, me)
    BY <1>5, <1>9 DEF DialogueHasEntry
  <2>4. x.ctx # NoConsole
    BY <1>6, <2>1, <2>2 DEF Sound
  <2>5. LiveIsBusy(x, s, me) /\ DeadIsClear(x) /\ BoxIsRecorded(x, s, me)
    BY <1>6, <2>1, <2>2, <2>4 DEF Sound, LiveIsBusy, DeadIsClear, BoxIsRecorded, Unheard, Unasking
  <2> QED BY <1>6, <2>1, <2>3, <2>5 DEF Sound
<1>11. cs[me] = x /\ \A d \in Consoles : d # me => cs[d] = con[d]
  BY <1>2
<1> HIDE DEF cs
<1>12. \A d \in Consoles : Sound(cs[d], s, d)
  BY <1>8, <1>10, <1>11, SafeFacts, SteadyIsSteady, SoundStays
<1>13. \A d \in Consoles : /\ cs[d].ctx = con[d].ctx /\ cs[d].timed = con[d].timed
                            /\ cs[d].callbacks \subseteq con[d].callbacks
  BY <1>6, <1>11
<1>14. Lives(cs) = Lives(con) /\ LivesExist(exists, cs, queue)
  BY <1>13, SafeFacts DEF Lives, LivesExist
<1>15. Requests(Awaited(cs), Lives(cs), brief, queue)
  <2>1. \A a \in Consoles : Awaited(cs)[a] \subseteq Awaited(con)[a]
    BY <1>13 DEF Awaited
  <2>2. BriefsStay(Awaited(cs), brief, queue, brief, queue)
    BY DEF BriefsStay
  <2>3. DebtsStay(Awaited(cs), Lives(con), brief, queue, Lives(cs), brief, queue)
    BY <1>14 DEF DebtsStay
  <2>4. NothingAsked(Awaited(con), Lives(con), brief, queue, Awaited(cs), Lives(cs), brief, queue)
    BY <2>1, <2>2, <2>3 DEF NothingAsked
  <2> QED BY <2>4, SafeFacts, RequestsStay
<1>16. OnlyTimed(cs, s)
  <2>1. OnlyTimed(cs, stack)
    BY <1>13, TimedStays
  <2> QED BY <1>1, <1>2, <1>5, <2>1, AnsweredTimed
<1>17. Good(exists, cs, brief, queue, s)
  BY <1>5, <1>8, <1>12, <1>14, <1>15, <1>16, SafeFacts, GoodBoxed
<1> QED BY <1>7, <1>17, BecomesGood

\* The main that comes back from its modal call: it is the only call of its
\* console, and the others are suspended.
LEMMA BackInMain ==
    ASSUME Safe, InEventLoop, stack # <<>>, NEW s, s = [stack EXCEPT ![Len(stack)] = Back(Top)]
    PROVE  /\ me \in Consoles /\ me # NoConsole /\ con[me] \in Console /\ Top \in Frame
           /\ con[me].ctx = me /\ ~con[me].alert /\ con[me].label = "Stop"
           /\ con[me].status \cap Interrupts = {} /\ con[me].runningMain
           /\ Unheard(con[me]) => Unasking(con[me])
           /\ con[me].modalCount = IF Top.modal \in {"message", "dialogue"} THEN 1 ELSE 0
           /\ Top.modal # "message" => con[me].dialog = 0
           /\ s \in Seq(Frame) /\ s # <<>> /\ BoxesBelow(s) /\ MainIsOne(s)
           /\ \A i \in DOMAIN s : s[i].kind = "main"
           /\ s[Len(s)].con = me /\ (s[Len(s)].modal = "no" => Top.modal = "message")
           /\ AllBoxed(Below(s)) /\ MainIsOne(Below(s)) /\ ~HasFrame(Below(s), me)
           /\ \A d : d # me => SameFrames(stack, s, d) /\ SameFrames(s, Below(s), d)
           /\ \A x : /\ x.ctx = me /\ ~x.alert /\ x.dialog = 0 /\ x.modalCount = 0
                     /\ x.label = "Stop" /\ x.runningMain /\ x.status \cap Interrupts = {}
                     /\ Unheard(x) => Unasking(x)
                     => Sound(x, s, me)
<1> DEFINE n == Len(stack)
           f == Back(Top)
           b == Below(stack)
<1>1. /\ Top = stack[n] /\ me = Top.con /\ me \in Consoles /\ Top \in Frame /\ n \in DOMAIN stack
      /\ con[me] \in Console /\ me # NoConsole /\ stack \in Seq(Frame) /\ Sound(con[me], stack, me)
      /\ BoxesBelow(stack) /\ MainIsOne(stack)
  BY TopType, SafeFacts, ConsolesAssumption DEF Top, me
<1>2. AllBoxed(stack) /\ Top.box /\ Top.kind = "main" /\ Top.modal # "no"
  BY <1>1, BoxedBelow DEF InEventLoop, JSRunning, Top, AllBoxed
<1>3. \A i \in DOMAIN stack : stack[i].con = me => i = n
  BY <1>1, <1>2 DEF AllBoxed, MainIsOne
<1>4. HasFrame(stack, me) /\ HasMain(stack, me)
  BY <1>1, <1>2 DEF HasFrame, HasMain
<1>5. HasCounted(stack, me) <=> Top.modal \in {"message", "dialogue"}
  BY <1>1, <1>2, <1>3 DEF HasCounted
<1>6. Top.modal # "message" => con[me].dialog = 0
  BY <1>1, <1>3 DEF Sound, BoxIsRecorded
<1>7. /\ con[me].ctx = me /\ ~con[me].alert /\ con[me].label = "Stop"
      /\ con[me].status \cap Interrupts = {} /\ con[me].runningMain
      /\ Unheard(con[me]) => Unasking(con[me])
      /\ con[me].modalCount = IF Top.modal \in {"message", "dialogue"} THEN 1 ELSE 0
  BY <1>1, <1>4, <1>5 DEF Sound, LiveIsBusy
<1>8. /\ f \in Frame /\ f.con = me /\ f.kind = "main" /\ f.box = FALSE
      /\ f.modal = IF Top.modal = "message" THEN "no" ELSE Top.modal
  <2>1. f \in Frame
    BY <1>1, FrameFields
  <2> QED BY <1>1, <1>2, <2>1 DEF Back, Frame
<1> HIDE DEF f, n
<1>a. s = [stack EXCEPT ![Len(stack)] = f]
  BY DEF f
<1>9. /\ s \in Seq(Frame) /\ s # <<>> /\ Len(s) = n /\ DOMAIN s = DOMAIN stack /\ s[n] = f
      /\ \A i \in DOMAIN stack : i # n => s[i] = stack[i]
      /\ MainIsOne(s) /\ \A d : d # me => SameFrames(stack, s, d)
      /\ SameShape(b, Below(s)) /\ HasMain(s, me) /\ HasFrame(s, me)
  <2> DEFINE s2 == [stack EXCEPT ![Len(stack)] = f]
  <2>1. stack \in Seq(Frame) /\ stack # <<>> /\ f \in Frame
        /\ f.con = stack[Len(stack)].con /\ f.kind = stack[Len(stack)].kind
    BY <1>1, <1>2, <1>8 DEF n
  <2>2. /\ s2 \in Seq(Frame) /\ s2 # <<>> /\ Len(s2) = Len(stack) /\ s2[Len(s2)] = f
        /\ DOMAIN s2 = DOMAIN stack
        /\ \A i \in DOMAIN stack : i # Len(stack) => s2[i] = stack[i]
        /\ MainIsOne(stack) => MainIsOne(s2)
        /\ \A d : d # f.con => SameFrames(stack, s2, d)
        /\ \A d : HasFrame(stack, d) <=> HasFrame(s2, d)
        /\ \A d : HasMain(stack, d) <=> HasMain(s2, d)
        /\ SameShape(Below(stack), Below(s2))
    BY <2>1, TopReplaced
  <2>3. s = s2
    BY <1>a
  <2> HIDE DEF s2
  <2> QED BY <1>1, <1>4, <1>8, <2>2, <2>3 DEF n, b
<1>10. \A i \in DOMAIN s : s[i].con = me => ~s[i].box
  BY <1>3, <1>8, <1>9
<1>11. BoxesBelow(s) /\ \A i \in DOMAIN s : s[i].kind = "main"
  BY <1>2, <1>8, <1>9 DEF AllBoxed, BoxesBelow
<1>12. s[Len(s)].con = me /\ (s[Len(s)].modal = "no" => Top.modal = "message")
  BY <1>2, <1>8, <1>9
<1>13. ~HasFrame(b, me)
  <2>1. ~HasMain(b, me) /\ AllBoxed(b)
    BY <1>1, <1>2, TopAndBelow, BoxedBelow DEF n
  <2> QED BY <2>1 DEF AllBoxed, HasMain, HasFrame
<1>14. ~HasFrame(Below(s), me) /\ AllBoxed(Below(s)) /\ MainIsOne(Below(s))
  BY <1>1, <1>9, <1>13, SameShapeFacts, SameHas, BoxedBelow
<1>15. \A d : d # me => SameFrames(s, Below(s), d)
  BY <1>9, <1>12, FramesOfOthers
<1>16. ASSUME NEW x, x.ctx = me, ~x.alert, x.dialog = 0, x.modalCount = 0, x.label = "Stop",
              x.runningMain, x.status \cap Interrupts = {}, Unheard(x) => Unasking(x)
       PROVE  Sound(x, s, me)
  <2>1. ~HasBox(s, me) /\ ~HasCounted(s, me) /\ DialogueHasEntry(x, s, me)
    BY <1>10 DEF HasBox, HasCounted, DialogueHasEntry
  <2>2. BoxIsRecorded(x, s, me) /\ DeadIsClear(x) /\ LiveIsBusy(x, s, me)
    BY <1>1, <1>9, <1>16, <2>1 DEF BoxIsRecorded, DeadIsClear, LiveIsBusy
  <2> QED BY <1>1, <1>9, <1>16, <2>1, <2>2 DEF Sound
<1> HIDE DEF b, n
<1> QED BY <1>1, <1>6, <1>7, <1>9, <1>11, <1>12, <1>14, <1>15, <1>16

\* Main goes on, given more time only by messageBox().
LEMMA BackGood ==
    ASSUME Safe, InEventLoop, stack # <<>>, NEW s, s = [stack EXCEPT ![Len(stack)] = Back(Top)],
           NEW x \in Console, NEW cs, cs[me] = x,
           x.ctx = me, ~x.alert, x.dialog = 0, x.modalCount = 0, x.label = "Stop",
           x.runningMain, x.status \cap Interrupts = {}, x.callbacks = con[me].callbacks,
           Unheard(x) => Unasking(x), Top.modal = "message" => x.timed,
           \A d \in Consoles : d # me => /\ Steady(con[d], cs[d]) /\ cs[d].ctx = con[d].ctx
                                         /\ cs[d].callbacks = con[d].callbacks /\ ~cs[d].timed,
           Becomes(cs, brief, queue, s)
    PROVE  GoodNow(exists)
<1>1. Sound(x, s, me)
  BY BackInMain
<1>2. ASSUME NEW d \in Consoles, d # me PROVE Sound(cs[d], s, d)
  BY <1>2, BackInMain, SafeFacts, SoundStays
<1>3. \A d \in Consoles : cs[d].ctx = con[d].ctx /\ cs[d].callbacks = con[d].callbacks
  BY BackInMain
<1>4. Awaited(cs) = Awaited(con) /\ Lives(cs) = Lives(con)
  BY <1>3 DEF Awaited, Lives
<1>5. ConsolesSound(exists, cs, queue, s)
  <2>1. BoxesBelow(s) /\ MainIsOne(s)
    BY BackInMain
  <2>2. OnlyTimed(cs, s)
    <3>1. s # <<>> /\ s[Len(s)].con = me /\ (s[Len(s)].modal = "no" => Top.modal = "message")
      BY BackInMain
    <3> QED BY <3>1 DEF OnlyTimed
  <2>3. \A d \in Consoles : Sound(cs[d], s, d)
    BY <1>1, <1>2
  <2> QED BY <1>3, <2>1, <2>2, <2>3, SafeFacts DEF ConsolesSound, LivesExist
<1>6. RepliesMatch(Awaited(cs), brief, s)
  <2>1. \A i \in DOMAIN s : s[i].kind = "main"
    BY BackInMain
  <2> QED BY <2>1 DEF RepliesMatch
<1>7. Good(exists, cs, brief, queue, s)
  BY <1>4, <1>5, <1>6, SafeFacts DEF Good
<1> QED BY <1>7, BecomesGood

\* ShowModal() returns: main runs on, or throws and ends.
LEMMA BoxReturnsGood ==
    ASSUME Practices = {}, Safe, BoxReturns
    PROVE  GoodNow(exists)
<1> DEFINE c == IF Top.modal = "file" THEN con[me] ELSE Closed(con[me])
           s == [stack EXCEPT ![Len(stack)] = Back(Top)]
           closing == IF Top.answer = "closed" THEN {"CLOSING"} ELSE {}
           S == c.status \cup closing
           d1 == [c EXCEPT !.status = S]
           c2 == [c EXCEPT !.dialog = 0]
           x == StartTimeout(c2)
           y == PrepForThrow(d1)
           cs0 == [con EXCEPT ![me] = y]
           cs1 == [con EXCEPT ![me] = c]
           cs == Timed(con, me, x)
<1>1. /\ InEventLoop /\ stack # <<>>
      /\ \/ Top.modal = "message" /\ Becomes(cs, brief, queue, s)
         \/ Top.modal # "message" /\ Becomes(cs1, brief, queue, s)
         \/ CallEnds(cs0, brief, s, TRUE)
  BY DEF BoxReturns, Event, Top, Closed, Back
<1> HIDE DEF s
<1>2. s = [stack EXCEPT ![Len(stack)] = Back(Top)]
  BY DEF s
<1>3. /\ me \in Consoles /\ me # NoConsole /\ con[me] \in Console /\ Top \in Frame
      /\ con[me].ctx = me /\ ~con[me].alert /\ con[me].label = "Stop"
      /\ con[me].status \cap Interrupts = {} /\ con[me].runningMain
      /\ Unheard(con[me]) => Unasking(con[me])
      /\ con[me].modalCount = IF Top.modal \in {"message", "dialogue"} THEN 1 ELSE 0
      /\ Top.modal # "message" => con[me].dialog = 0
      /\ con \in [Consoles -> Console] /\ Top.modal # "no"
  <2>1. Top.modal # "no"
    BY <1>1, SafeFacts, LenProperties, TopType DEF BoxesBelow, Top, InEventLoop, JSRunning
  <2> QED BY <1>1, <1>2, <2>1, BackInMain, SafeFacts DEF Typing
<1>4. /\ c \in Console /\ c.dialog = con[me].dialog /\ c.modalCount = 0
      /\ c.ctx = me /\ c.callbacks = con[me].callbacks /\ ~c.alert
      /\ c.label = "Stop" /\ c.status = con[me].status /\ c.runningMain
      /\ c.waitingCached = con[me].waitingCached /\ c.waiting = con[me].waiting
  <2>1. CASE Top.modal = "file"
    BY <1>3, <2>1
  <2>2. CASE Top.modal # "file"
    <3>1. Top.modal \in {"message", "dialogue"}
      BY <1>3, <2>2 DEF Frame
    <3>2. c = Closed(con[me])
      BY <2>2
    <3> HIDE DEF c
    <3> QED BY <1>3, <3>1, <3>2, BoxClosed
  <2> QED BY <2>1, <2>2
<1> HIDE DEF c
<1>5. Unheard(c) => Unasking(c)
  BY <1>3, <1>4 DEF Unheard, Unasking
<1>6. CASE Top.modal = "message" /\ Becomes(cs, brief, queue, s)
  <2>1. /\ c2 \in Console /\ c2.dialog = 0 /\ c2.modalCount = c.modalCount
        /\ c2.ctx = c.ctx /\ c2.callbacks = c.callbacks /\ c2.alert = c.alert
        /\ c2.label = c.label /\ c2.status = c.status /\ c2.runningMain = c.runningMain
        /\ c2.waitingCached = c.waitingCached /\ c2.waiting = c.waiting
    BY <1>4, DialogFields
  <2> HIDE DEF c2
  <2>2. /\ Alike(c2, x) /\ x.runningMain = c2.runningMain
        /\ x.status = c2.status \ {"TIMEOUT"} /\ x.timed
        /\ x.waitingCached = c2.waitingCached /\ x.waiting = c2.waiting
    BY <2>1, TimeoutFields
  <2> HIDE DEF x
  <2>3. /\ x \in Console /\ x.dialog = 0 /\ x.modalCount = 0 /\ x.ctx = me
        /\ x.callbacks = con[me].callbacks /\ ~x.alert /\ x.label = "Stop" /\ x.runningMain
        /\ x.status \cap Interrupts = {} /\ x.timed
    BY <1>3, <1>4, <2>1, <2>2 DEF Alike
  <2>4. Unheard(x) => Unasking(x)
    BY <1>4, <1>5, <2>1, <2>2 DEF Alike, Unheard, Unasking
  <2>5. cs[me] = x /\ \A d \in Consoles : d # me => cs[d] = ClearTimeout(con[d])
    BY <1>3 DEF Timed
  <2> HIDE DEF cs
  <2>6. ASSUME NEW d \in Consoles, d # me
        PROVE  /\ Steady(con[d], cs[d]) /\ cs[d].ctx = con[d].ctx
               /\ cs[d].callbacks = con[d].callbacks /\ ~cs[d].timed
    <3>1. con[d] \in Console
      BY SafeFacts
    <3> QED BY <2>5, <2>6, <3>1, TimeoutFields, AlikeIsSteady DEF Alike
  <2> QED BY <1>1, <1>2, <1>6, <2>3, <2>4, <2>5, <2>6, BackGood
<1>7. CASE Top.modal # "message" /\ Becomes(cs1, brief, queue, s)
  <2>1. cs1[me] = c /\ \A d \in Consoles : d # me => cs1[d] = con[d]
    BY <1>3
  <2> HIDE DEF cs1
  <2>2. c.dialog = 0 /\ c.status \cap Interrupts = {}
    BY <1>3, <1>4, <1>7
  <2>3. ASSUME NEW d \in Consoles, d # me
        PROVE  /\ Steady(con[d], cs1[d]) /\ cs1[d].ctx = con[d].ctx
               /\ cs1[d].callbacks = con[d].callbacks /\ ~cs1[d].timed
    <3>1. ~con[d].timed
      BY <2>3, SafeFacts DEF OnlyTimed, me, Top
    <3> QED BY <2>1, <2>3, <3>1, SteadyIsSteady
  <2> QED BY <1>1, <1>2, <1>4, <1>5, <1>7, <2>1, <2>2, <2>3, BackGood
<1>8. CASE CallEnds(cs0, brief, s, TRUE)
  <2>1. S \in SUBSET Completions
    BY <1>4 DEF Console, Completions
  <2> HIDE DEF S
  <2>2. d1 \in Console /\ d1.ctx = me /\ ~d1.alert /\ d1.modalCount = 0
    BY <1>4, <2>1, StatusFields DEF Alike
  <2> HIDE DEF d1
  <2>3. y \in Console /\ y.ctx = me /\ ~y.alert /\ y.modalCount = 0 /\ ~y.runningMain
    BY <2>2, RunningFields DEF PrepForThrow, Alike
  <2> HIDE DEF y
  <2>4. /\ cs0[me] = y /\ cs0 \in [Consoles -> Console]
        /\ \A d \in Consoles : d # me => cs0[d] = con[d]
    BY <1>3, <2>3
  <2> HIDE DEF cs0
  <2>5. ASSUME NEW d \in Consoles, d # me PROVE Sound(con[d], Below(s), d)
    <3>1. SameFrames(stack, s, d) /\ SameFrames(s, Below(s), d)
      BY <1>1, <1>2, <2>5, BackInMain
    <3>2. Sound(con[d], s, d)
      BY <3>1, SafeFacts, SteadyIsSteady, SoundStays
    <3> QED BY <3>1, <3>2, SteadyIsSteady, SoundStays
  <2>6. s \in Seq(Frame) /\ AllBoxed(Below(s)) /\ MainIsOne(Below(s)) /\ ~HasFrame(Below(s), me)
    BY <1>1, <1>2, BackInMain
  <2>7. Throwing(cs0, brief, s)
    BY <2>3, <2>4, <2>5, <2>6, SafeFacts, SameDebtsSame DEF Throwing, Typing
  <2> QED BY <1>1, <1>3, <1>8, <2>7, ThrowingGood
<1> QED BY <1>1, <1>6, <1>7, <1>8

-----------------------------------------------------------------------------
(* The invariant, and what follows from it *)

LEMMA InitGood == Init => IInv
<1> SUFFICES ASSUME Init PROVE IInv
  OBVIOUS
<1>1. /\ stack = <<>> /\ DOMAIN stack = {} /\ exists # {}
      /\ \A d \in Consoles : /\ con[d] = NewConsole /\ brief[d] = NoBrief
                             /\ queue[d] = <<>> /\ DOMAIN queue[d] = {}
  <2>1. DOMAIN <<>> = {}
    OBVIOUS
  <2> QED BY <2>1, ConsolesAssumption DEF Init
<1>2. \A d \in Consoles : con[d].ctx = NoConsole /\ con[d].callbacks = {}
  BY <1>1, NewConsoleFields
<1>3. \A d \in Consoles : Sound(con[d], stack, d)
  <2>1. Finished(NewConsole)
    BY NewConsoleFields DEF Finished
  <2>2. \A d : ~HasFrame(stack, d)
    BY <1>1 DEF HasFrame
  <2> QED BY <1>1, <2>1, <2>2, FinishedFacts
<1>4. ConsolesSound(exists, con, queue, stack)
  <2>1. \A d \in Consoles : ~con[d].timed
    BY <1>1, NewConsoleFields
  <2> QED BY <1>1, <1>2, <1>3, <2>1 DEF ConsolesSound, BoxesBelow, MainIsOne, OnlyTimed
<1>5. \A b \in Consoles : \A f \in BriefsOf(brief, queue, b) : f.callbackId = NoId /\ ~f.has
  BY <1>1 DEF BriefsOf, NoBrief
<1>6. \A a \in Consoles : Awaited(con)[a] = {}
  BY <1>2 DEF Awaited
<1>7. Requests(Awaited(con), Lives(con), brief, queue)
  <2>1. OneIsAsked(brief, queue)
    BY <1>5 DEF OneIsAsked
  <2>2. \A a, b \in Consoles : ~AwaitsIn(Awaited(con), Lives(con), brief, queue, a, b)
    BY <1>6 DEF AwaitsIn
  <2>3. NoCircle(Awaited(con), Lives(con), brief, queue)
    BY <2>2 DEF NoCircle
  <2> QED BY <1>6, <2>1, <2>3 DEF Requests, IdsAreUnique, BriefsAreOwed, SomebodyOwes
<1>8. RepliesMatch(Awaited(con), brief, stack) /\ BriefsAreGiven(brief, queue)
  BY <1>1, <1>5 DEF RepliesMatch, BriefsAreGiven
<1> QED BY <1>1, <1>4, <1>7, <1>8 DEF IInv, Good, Init

\* The last console is never deleted: a script does not close its own console,
\* and the close box refuses the only one.
LEMMA OneIsLeft ==
    ASSUME Safe, exists # {}, Next
    PROVE  exists' # {}
<1>1. CASE UNCHANGED exists
  BY <1>1
<1>2. ASSUME NEW d \in Consoles, ConsoleAdd(d) PROVE exists' # {}
  BY <1>2 DEF ConsoleAdd
<1>3. ASSUME NEW d \in Consoles, ConsoleClose(d) PROVE exists' # {}
  <2>1. JSRunning /\ d # me /\ (exists' = exists \/ exists' = exists \ {d})
    BY <1>3 DEF ConsoleClose, Deleted
  <2> QED BY <2>1, RunningFacts
<1>4. ASSUME NEW d \in Consoles, CloseBox(d) PROVE exists' # {}
  <2>1. Cardinality(exists) > 1 /\ (exists' = exists \/ exists' = exists \ {d})
    BY <1>4 DEF CloseBox, Deleted
  <2>2. Cardinality({d}) = 1
    BY FS_Singleton
  <2>3. exists # {d}
    BY <2>1, <2>2
  <2> QED BY <2>1, <2>3
<1>5. \/ UNCHANGED exists
      \/ \E d \in Consoles : ConsoleAdd(d) \/ ConsoleClose(d) \/ CloseBox(d)
  BY DEF Next, Return, Error, Timeout, StopScript, OnSeconds, GetBrief, CancelRequest,
         MessageBox, ModalDialogue, FilePrompt, MayGoModal, ChainScript, OnConsoleResult,
         ConsoleRun, ConsoleBusy, RunClicked, RunQueued, TimerFires, MessageButton,
         DialogueButton, BoxReturns, JS, Event
<1> QED BY <1>1, <1>2, <1>3, <1>4, <1>5

\* Every action but those that add or close consoles leaves the same consoles.
LEMMA StepGood ==
    ASSUME Practices = {}, Safe, Next
    PROVE  GoodNow(exists')
<1>1. ASSUME GoodNow(exists), UNCHANGED exists PROVE GoodNow(exists')
  BY <1>1
<1> USE DEF JS, Event
<1>2. CASE Return \/ Error \/ Timeout \/ StopScript \/ OnSeconds
  <2>1. GoodNow(exists)
    BY <1>2, ReturnGood, ErrorGood, TimeoutGood, StopScriptGood, OnSecondsGood
  <2>2. UNCHANGED exists
    BY <1>2 DEF Return, Error, Timeout, StopScript, OnSeconds
  <2> QED BY <1>1, <2>1, <2>2
<1>3. CASE GetBrief \/ CancelRequest \/ MessageBox \/ BoxReturns
  <2>1. GoodNow(exists)
    BY <1>3, GetBriefGood, CancelRequestGood, MessageBoxGood, BoxReturnsGood
  <2>2. UNCHANGED exists
    BY <1>3 DEF GetBrief, CancelRequest, MessageBox, MayGoModal, BoxReturns
  <2> QED BY <1>1, <2>1, <2>2
<1>4. ASSUME NEW given \in Giving, ChainScript(given) PROVE GoodNow(exists')
  <2>1. GoodNow(exists)
    BY <1>4, ChainScriptGood
  <2>2. UNCHANGED exists
    BY <1>4 DEF ChainScript
  <2> QED BY <1>1, <2>1, <2>2
<1>5. ASSUME NEW d \in Consoles, NEW given \in Giving,
             OnConsoleResult(d, given) \/ ConsoleRun(d, given)
      PROVE  GoodNow(exists')
  <2>1. GoodNow(exists)
    BY <1>5, OnConsoleResultGood, ConsoleRunGood
  <2>2. UNCHANGED exists
    BY <1>5 DEF OnConsoleResult, ConsoleRun
  <2> QED BY <1>1, <2>1, <2>2
<1>6. ASSUME NEW d \in Consoles, ConsoleBusy(d) PROVE GoodNow(exists')
  <2>1. GoodNow(exists)
    BY <1>6, ConsoleBusyGood
  <2>2. UNCHANGED exists
    BY <1>6 DEF ConsoleBusy
  <2> QED BY <1>1, <2>1, <2>2
<1>7. ASSUME NEW d \in Consoles, ConsoleAdd(d) \/ ConsoleClose(d) \/ CloseBox(d)
      PROVE  GoodNow(exists')
  BY <1>7, ConsoleAddGood, ConsoleCloseGood, CloseBoxGood
<1>8. ASSUME NEW c \in Consoles, RunClicked(c) \/ RunQueued(c) \/ TimerFires(c)
      PROVE  GoodNow(exists')
  <2>1. GoodNow(exists)
    BY <1>8, RunClickedGood, RunQueuedGood, TimerFiresGood
  <2>2. UNCHANGED exists
    BY <1>8 DEF RunClicked, RunQueued, TimerFires
  <2> QED BY <1>1, <2>1, <2>2
<1>9. CASE MessageButton("ok") \/ MessageButton("cancel")
  <2>1. GoodNow(exists)
    BY <1>9, MessageButtonGood
  <2>2. UNCHANGED exists
    BY <1>9 DEF MessageButton
  <2> QED BY <1>1, <2>1, <2>2
<1>10. CASE ModalDialogue \/ FilePrompt \/ DialogueButton
  <2>1. GoodNow(exists)
    BY <1>10, ModalDialogueGood, FilePromptGood, DialogueButtonGood
  <2>2. UNCHANGED exists
    BY <1>10 DEF ModalDialogue, FilePrompt, MayGoModal, DialogueButton
  <2> QED BY <1>1, <2>1, <2>2
<1> QED BY <1>2, <1>3, <1>4, <1>5, <1>6, <1>7, <1>8, <1>9, <1>10 DEF Next

LEMMA NextKeepsIInv ==
    ASSUME Practices = {}
    PROVE  Typed /\ IInv /\ [Next]_vars => IInv'
<1> SUFFICES ASSUME Typed, IInv, [Next]_vars PROVE IInv'
  OBVIOUS
<1>1. CASE UNCHANGED vars
  <2>1. /\ exists' = exists /\ con' = con /\ brief' = brief /\ queue' = queue
        /\ stack' = stack /\ fault' = fault
    BY <1>1 DEF vars
  <2>2. Good(exists', con', brief', queue', stack')
    BY <2>1 DEF IInv
  <2>3. Good(exists, con, brief, queue, stack)'
    BY <2>2 DEF Good, ConsolesSound, Requests, RepliesMatch, BriefsAreGiven, Awaited, Lives
  <2> QED BY <2>1, <2>3 DEF IInv
<1>2. CASE Next
  <2>1. Safe /\ fault = "none" /\ exists # {}
    BY DEF Safe, IInv
  <2>2. GoodNow(exists') /\ exists' # {}
    BY <1>2, <2>1, OneIsLeft, StepGood
  <2> QED BY <2>1, <2>2 DEF IInv, GoodNow
<1> QED BY <1>1, <1>2

\* Scripts that follow none of the hazardous practices keep the invariant,
\* whatever they call, in whatever order events and replies interleave.
THEOREM Invariance ==
    ASSUME Practices = {}
    PROVE  Spec => []IInv
BY InitGood, NextKeepsIInv, AlwaysTyped, PTL DEF Spec

\* The last console is never deleted, and every variable has its type.
THEOREM TypeCorrect ==
    ASSUME Practices = {}
    PROVE  Spec => []TypeOK
<1>1. Typed /\ IInv => TypeOK
  BY DEF Typed, Typing, Faults, IInv, TypeOK
<1> QED BY <1>1, AlwaysTyped, Invariance, PTL

\* No call is left running on a destroyed heap, no console that is missing, or
\* that nobody times, is dereferenced, and the button of a modal dialogue finds
\* its entry: wrapUp() and replyToConsole() only ever end a script that no call
\* below belongs to, whatever modal calls main is in.
THEOREM NothingUndefined ==
    ASSUME Practices = {}
    PROVE  Spec => []NoUndefinedBehaviour
<1>1. IInv => NoUndefinedBehaviour
  BY DEF IInv, NoUndefinedBehaviour
<1> QED BY <1>1, Invariance, PTL

\* onConsoleResult(): exactly one console owes the answer to each entry that
\* awaits one, through chains, replies, stops, errors and closed consoles.
THEOREM RepliesAreOwed ==
    ASSUME Practices = {}
    PROVE  Spec => []AwaitedReplyIsOwed
<1>1. Typed /\ IInv => AwaitedReplyIsOwed
  <2> SUFFICES ASSUME Typed, IInv, NEW a \in exists, NEW e \in con[a].callbacks,
                      e.type = "CB_CONSOLE"
               PROVE  Cardinality({b \in Consoles : Owes(b, a, e.id)}) = 1
    BY DEF AwaitedReplyIsOwed
  <2> DEFINE owing == {b \in Consoles : Owes(b, a, e.id)}
  <2>1. Safe /\ a \in Consoles
    BY DEF Safe, Typed, IInv
  <2>2. con[a].callbacks \in SUBSET Entry
    BY <2>1, SafeFacts DEF Console
  <2>3. e.id # NoId
    BY <2>2, ConsolesAssumption DEF Entry
  <2>4. e \in Awaited(con)[a]
    BY <2>1 DEF Awaited
  <2>5. PICK b \in Consoles : OwesIn(Lives(con), brief, queue, b, a, e.id)
    BY <2>1, <2>4, SafeFacts DEF Requests, SomebodyOwes
  <2>6. b \in owing
    BY <2>1, <2>5, OwesIsIn
  <2>7. ASSUME NEW d \in owing PROVE d = b
    <3>1. OwesIn(Lives(con), brief, queue, d, a, e.id)
      BY <2>1, <2>7, OwesIsIn
    <3>2. \E f \in BriefsOf(brief, queue, d) : f.callbackId = e.id
      BY <3>1 DEF OwesIn, BriefsOf
    <3>3. \E f \in BriefsOf(brief, queue, b) : f.callbackId = e.id
      BY <2>5 DEF OwesIn, BriefsOf
    <3> QED BY <2>1, <2>3, <3>2, <3>3, SafeFacts DEF Requests, OneIsAsked
  <2>8. owing = {b}
    BY <2>6, <2>7
  <2> QED BY <2>8, FS_Singleton
<1> QED BY <1>1, AlwaysTyped, Invariance, PTL

\* replyToConsole() finds the caller's entry by an id that no other request
\* ever had: the handler it calls is the one given with the request.
THEOREM RepliesAnswerRequests ==
    ASSUME Practices = {}
    PROVE  Spec => []ReplyIsForRequest
<1>1. IInv => ReplyIsForRequest
  BY DEF IInv, Good, RepliesMatch, ReplyIsForRequest
<1> QED BY <1>1, Invariance, PTL

\* onConsoleResult() refuses busy consoles, and with that alone no set of
\* consoles ever wait for each other.
THEOREM NobodyWaitsInACircle ==
    ASSUME Practices = {}
    PROVE  Spec => []NoCircularWait
<1>1. Typed /\ IInv => NoCircularWait
  <2> SUFFICES ASSUME Typed, IInv, NEW S \in (SUBSET exists) \ {{}}
               PROVE  \E a \in S : \A b \in S : ~AwaitsReply(a, b)
    BY DEF NoCircularWait
  <2>1. Safe /\ S \in (SUBSET Consoles) \ {{}}
    BY DEF Safe, Typed, IInv
  <2>2. PICK a \in S :
          \A b \in S : ~AwaitsIn(Awaited(con), Lives(con), brief, queue, a, b)
    BY <2>1, SafeFacts DEF Requests, NoCircle
  <2> QED BY <2>1, <2>2, OwesIsIn
<1> QED BY <1>1, AlwaysTyped, Invariance, PTL

\* A brief that getBrief() returns was given with the request to run, or the
\* chain, that started this script.
THEOREM BriefsAreForThisRun ==
    ASSUME Practices = {}
    PROVE  Spec => []BriefIsForThisRun
<1>1. Typed /\ IInv => BriefIsForThisRun
  BY DEF Typed, IInv, Good, BriefsAreGiven, BriefsOf, BriefIsForThisRun
<1> QED BY <1>1, AlwaysTyped, Invariance, PTL

\* The one pConsoleBeingTimed is never a console other than the one whose
\* JavaScript runs, and it is none only in a main that came back from a modal
\* dialogue or a prompt for a file, which do not give it its time again.
THEOREM TheTimedRuns ==
    ASSUME Practices = {}
    PROVE  Spec => []TimedIsRunning
<1>1. Typed /\ IInv => TimedIsRunning
  <2> SUFFICES ASSUME Typed, IInv, JSRunning
               PROVE  \/ BeingTimed = me
                      \/ BeingTimed = NoConsole /\ Top.modal \in {"dialogue", "file"}
    BY DEF TimedIsRunning
  <2>1. Safe
    BY DEF Safe, IInv
  <2>2. /\ me \in Consoles /\ stack # <<>> /\ ~Top.box /\ Top \in Frame
        /\ Top = stack[Len(stack)] /\ me = stack[Len(stack)].con /\ Len(stack) \in DOMAIN stack
    BY <2>1, RunningFacts, TopType DEF Top, me
  <2>3. \A d \in Consoles : con[d].timed => d = me
    BY <2>1, <2>2, SafeFacts DEF OnlyTimed
  <2>4. CASE con[me].timed
    BY <2>2, <2>3, <2>4 DEF BeingTimed
  <2>5. CASE ~con[me].timed
    <3>1. BeingTimed = NoConsole
      BY <2>3, <2>5 DEF BeingTimed
    <3>2. Top.modal # "no"
      BY <2>1, <2>2, <2>5, SafeFacts DEF OnlyTimed
    <3>3. Top.modal # "message"
      BY <2>1, <2>2, SafeFacts DEF BoxesBelow
    <3>4. Top.modal \in {"no", "message", "dialogue", "file"}
      BY <2>2 DEF Frame
    <3> QED BY <3>1, <3>2, <3>3, <3>4
  <2> QED BY <2>4, <2>5
<1> QED BY <1>1, AlwaysTyped, Invariance, PTL
=============================================================================
