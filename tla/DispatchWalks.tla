---------------------------- MODULE DispatchWalks ----------------------------
(***************************************************************************)
(* Proofs that a walk over the consoles calls every subscriber, and calls  *)
(* it once, as long as handlers leave alone what the walk has passed.      *)
(***************************************************************************)
EXTENDS DispatchProofs

-----------------------------------------------------------------------------
(* The inductive invariant *)

\* A console is in m_consoles once, and an id belongs to one entry.
SameOnce == \A p, q \in DOMAIN consoles : consoles[p] = consoles[q] => p = q

UniqueIds ==
    \A c, d \in Names : \A i \in DOMAIN entries[c], j \in DOMAIN entries[d] :
       entries[c][i].id = entries[d][j].id => c = d /\ i = j

\* There is at most one walk.  It is on top, or under the handler it called,
\* which belongs to the console the walk has got to.
OneWalk ==
    \A m \in WalkFrames :
       \/ m = Len(stack)
       \/ /\ m = Len(stack) - 1 /\ JSRunning
          /\ stack[m].at \in DOMAIN consoles /\ consoles[stack[m].at] = Top.con

\* The entries still due are subscribed to what is walked.
DueAreWanted ==
    \A m \in WalkFrames : \A c \in Names : \A j \in DOMAIN entries[c] :
       entries[c][j].id \in stack[m].due => Wanted(entries[c][j], stack[m].kind)

DueAreAhead ==
    \A m \in WalkFrames : \A p \in DOMAIN consoles : \A j \in DOMAIN entries[consoles[p]] :
       entries[consoles[p]][j].id \in stack[m].due => IsAhead(stack[m], p, j)

DoneArePassed ==
    \A m \in WalkFrames : \A p \in DOMAIN consoles : \A j \in DOMAIN entries[consoles[p]] :
       entries[consoles[p]][j].id \in stack[m].done => ~IsAhead(stack[m], p, j)

Walks == OneWalk /\ DueAreWanted /\ DueAreAhead /\ DoneArePassed

WalkInv == TypeOK /\ SameOnce /\ UniqueIds /\ (Undisturbed => Walks)

-----------------------------------------------------------------------------
(* What changes of the vectors *)

LEMMA Pushed ==
    ASSUME NEW S, NEW s \in Seq(S), NEW f
    PROVE  /\ DOMAIN Append(s, f) = 1 .. Len(s) + 1
           /\ \A m \in 1 .. Len(s) : Append(s, f)[m] = s[m]
           /\ Append(s, f)[Len(s) + 1] = f
           /\ DOMAIN s = 1 .. Len(s)
           /\ Len(s) \in Nat
           /\ Len(Append(s, f)) = Len(s) + 1
           /\ \A m \in 1 .. Len(s) + 1 : m \in 1 .. Len(s) \/ m = Len(s) + 1
<1>1. Len(s) \in Nat
  OBVIOUS
<1>2. \A m \in 1 .. Len(s) + 1 : m \in 1 .. Len(s) \/ m = Len(s) + 1
  BY <1>1
<1>3. /\ DOMAIN Append(s, f) = 1 .. Len(s) + 1
      /\ \A m \in 1 .. Len(s) : Append(s, f)[m] = s[m]
      /\ Append(s, f)[Len(s) + 1] = f
      /\ DOMAIN s = 1 .. Len(s)
      /\ Len(Append(s, f)) = Len(s) + 1
  OBVIOUS
<1> QED
  BY <1>1, <1>2, <1>3

LEMMA Erased ==
    ASSUME TypeOK, NEW c \in Names, NEW j \in DOMAIN entries[c],
           entries' = [entries EXCEPT ![c] = RemoveAt(@, j)]
    PROVE  /\ j \in Nat \ {0}
           /\ \A d \in Names : d # c => entries'[d] = entries[d]
           /\ \A n \in DOMAIN entries'[c] :
                /\ n \in Nat \ {0} /\ n \in DOMAIN entries[c] /\ n + 1 \in DOMAIN entries[c]
                /\ n < j => entries'[c][n] = entries[c][n]
                /\ j <= n => entries'[c][n] = entries[c][n + 1]
<1>1. entries[c] \in Seq(Entry) /\ entries \in [Names -> Seq(Entry)]
  BY DEF TypeOK
<1>2. /\ RemoveAt(entries[c], j) \in Seq(Entry)
      /\ Len(RemoveAt(entries[c], j)) = Len(entries[c]) - 1
      /\ \A n \in 1 .. Len(entries[c]) - 1 :
           RemoveAt(entries[c], j)[n] = IF n < j THEN entries[c][n] ELSE entries[c][n + 1]
  BY <1>1, Erase, Zenon
<1>3. entries'[c] = RemoveAt(entries[c], j) /\ \A d \in Names : d # c => entries'[d] = entries[d]
  BY <1>1
<1>4. /\ DOMAIN entries[c] = 1 .. Len(entries[c]) /\ Len(entries[c]) \in Nat
      /\ DOMAIN entries'[c] = 1 .. Len(entries[c]) - 1
  BY <1>1, <1>2, <1>3
<1>5. ASSUME NEW n \in DOMAIN entries'[c]
      PROVE  /\ n \in Nat \ {0} /\ n \in DOMAIN entries[c] /\ n + 1 \in DOMAIN entries[c]
             /\ n < j => entries'[c][n] = entries[c][n]
             /\ j <= n => entries'[c][n] = entries[c][n + 1]
  <2>1. n \in 1 .. Len(entries[c]) - 1 /\ n \in Nat \ {0} /\ j \in Nat
    BY <1>4
  <2>2. n \in DOMAIN entries[c] /\ n + 1 \in DOMAIN entries[c]
    BY <1>4, <2>1
  <2>3. entries'[c][n] = IF n < j THEN entries[c][n] ELSE entries[c][n + 1]
    BY <1>2, <1>3, <2>1
  <2>4. ~(n < j /\ j <= n) /\ (j <= n => ~(n < j))
    BY <2>1
  <2> QED
    BY <2>1, <2>2, <2>3, <2>4
<1> QED
  BY <1>3, <1>4, <1>5

\* Ids stay unique when an entry is erased.
LEMMA EraseUnique ==
    ASSUME TypeOK, UniqueIds, NEW c \in Names, NEW j \in DOMAIN entries[c],
           entries' = [entries EXCEPT ![c] = RemoveAt(@, j)]
    PROVE  UniqueIds'
<1> SUFFICES ASSUME NEW a \in Names, NEW b \in Names,
                    NEW n \in DOMAIN entries'[a], NEW m \in DOMAIN entries'[b],
                    entries'[a][n].id = entries'[b][m].id
             PROVE  a = b /\ n = m
  BY DEF UniqueIds
<1>0. /\ j \in Nat \ {0}
      /\ \A d \in Names : d # c => entries'[d] = entries[d]
      /\ \A v \in DOMAIN entries'[c] :
           /\ v \in Nat \ {0} /\ v \in DOMAIN entries[c] /\ v + 1 \in DOMAIN entries[c]
           /\ v < j => entries'[c][v] = entries[c][v]
           /\ j <= v => entries'[c][v] = entries[c][v + 1]
  BY Erased, Zenon
<1> DEFINE old(d, i) == IF d = c /\ j <= i THEN i + 1 ELSE i
<1>1. ASSUME NEW d \in Names, NEW i \in DOMAIN entries'[d]
      PROVE  /\ old(d, i) \in DOMAIN entries[d]
             /\ entries'[d][i] = entries[d][old(d, i)]
             /\ d = c => i \in Nat /\ j \in Nat
  <2>1. CASE d # c
    BY <1>0, <2>1
  <2>2. CASE d = c
    <3>0. i \in DOMAIN entries'[c]
      BY <2>2
    <3>e. /\ j \in Nat \ {0}
          /\ i \in Nat \ {0} /\ i \in DOMAIN entries[c] /\ i + 1 \in DOMAIN entries[c]
          /\ i < j => entries'[c][i] = entries[c][i]
          /\ j <= i => entries'[c][i] = entries[c][i + 1]
      BY <1>0, <3>0
    <3>1. /\ i \in Nat /\ i \in DOMAIN entries[c] /\ i + 1 \in DOMAIN entries[c] /\ j \in Nat
          /\ i < j => entries'[c][i] = entries[c][i]
          /\ j <= i => entries'[c][i] = entries[c][i + 1]
      BY <3>e
    <3>2. CASE j <= i
      <4>1. old(d, i) = i + 1
        BY <2>2, <3>2
      <4> QED
        BY <2>2, <3>1, <3>2, <4>1
    <3>3. CASE ~(j <= i)
      <4>1. old(d, i) = i /\ i < j
        BY <2>2, <3>1, <3>3
      <4> QED
        BY <2>2, <3>1, <4>1
    <3> QED
      BY <3>2, <3>3
  <2> QED
    BY <2>1, <2>2
<1>2. a = b /\ old(a, n) = old(b, m)
  <2> HIDE DEF old
  <2> QED
    BY <1>1 DEF UniqueIds
<1>3. CASE a # c
  BY <1>2, <1>3
<1>4. CASE a = c
  <2>1. n \in Nat /\ m \in Nat /\ j \in Nat
    BY <1>1, <1>2, <1>4
  <2> QED
    BY <1>2, <1>4, <2>1
<1> QED
  BY <1>2, <1>3, <1>4

\* Nor are there two after clearing the entries of a console.
LEMMA ClearUnique ==
    ASSUME TypeOK, UniqueIds, NEW c, entries' = [entries EXCEPT ![c] = <<>>]
    PROVE  UniqueIds'
<1>1. ASSUME NEW d \in Names, NEW i \in DOMAIN entries'[d]
      PROVE  i \in DOMAIN entries[d] /\ entries'[d] = entries[d]
  <2>1. entries'[d] = entries[d] \/ entries'[d] = <<>>
    BY DEF TypeOK
  <2>2. DOMAIN <<>> = {}
    OBVIOUS
  <2> QED
    BY <2>1, <2>2
<1> QED
  BY <1>1 DEF UniqueIds

\* A new entry has an id that no entry, and no walk in progress, knows.
LEMMA Subscribed ==
    ASSUME TypeOK, NEW k \in Kinds, NEW persistant \in BOOLEAN, NEW wanted \in BOOLEAN,
           NewEntry(k, persistant, wanted)
    PROVE  \E e :
             /\ e.id \notin IdsInUse
             /\ Top.con \in Names
             /\ \A d \in Names : d # Top.con => entries'[d] = entries[d]
             /\ \A n \in DOMAIN entries'[Top.con] :
                   \/ n \in DOMAIN entries[Top.con] /\ entries'[Top.con][n] = entries[Top.con][n]
                   \/ n = Len(entries[Top.con]) + 1 /\ entries'[Top.con][n] = e
<1> DEFINE e == [id |-> CHOOSE i \in Ids : i \notin IdsInUse, kind |-> k,
                 persistant |-> persistant, wanted |-> wanted]
<1>1. Top.con \in Names
  BY TopType DEF NewEntry, JSRunning, JSFrame
<1>2. entries[Top.con] \in Seq(Entry) /\ entries \in [Names -> Seq(Entry)]
  BY <1>1 DEF TypeOK
<1>3. entries' = [entries EXCEPT ![Top.con] = Append(entries[Top.con], e)]
  BY DEF NewEntry
<1>4. e.id \notin IdsInUse
  <2>1. \E i \in Ids : i \notin IdsInUse
    BY DEF NewEntry, IdsInUse
  <2>2. (CHOOSE i \in Ids : i \notin IdsInUse) \notin IdsInUse
    BY <2>1
  <2> QED
    BY <2>2
<1> HIDE DEF e
<1>5. /\ entries'[Top.con] = Append(entries[Top.con], e)
      /\ \A d \in Names : d # Top.con => entries'[d] = entries[d]
  BY <1>1, <1>2, <1>3
<1>6. \A n \in DOMAIN entries'[Top.con] :
                   \/ n \in DOMAIN entries[Top.con] /\ entries'[Top.con][n] = entries[Top.con][n]
                   \/ n = Len(entries[Top.con]) + 1 /\ entries'[Top.con][n] = e
  BY <1>2, <1>5, Pushed
<1> QED
  BY <1>1, <1>4, <1>5, <1>6

LEMMA InUse ==
    ASSUME NEW i, i \notin IdsInUse, TypeOK
    PROVE  /\ \A c \in Names : \A j \in DOMAIN entries[c] : entries[c][j].id # i
           /\ \A m \in WalkFrames : i \notin stack[m].due /\ i \notin stack[m].done
<1>1. ASSUME NEW c \in Names, NEW j \in DOMAIN entries[c] PROVE entries[c][j].id \in Ids
  <2>1. entries[c] \in Seq(Entry)
    BY DEF TypeOK
  <2>2. entries[c][j] \in Entry
    BY <2>1
  <2> QED
    BY <2>2 DEF Entry
<1>2. \A m \in WalkFrames : stack[m].due \subseteq Ids /\ stack[m].done \subseteq Ids
  <2>1. ASSUME NEW m \in WalkFrames PROVE stack[m] \in WalkFrame
    <3>1. stack[m] \in JSFrame \cup WalkFrame /\ stack[m].what = "walk"
      BY DEF WalkFrames, TypeOK
    <3> QED
      BY <3>1 DEF JSFrame
  <2> QED
    BY <2>1 DEF WalkFrame
<1> QED
  BY <1>1, <1>2 DEF IdsInUse

LEMMA SubscribeUnique ==
    ASSUME TypeOK, UniqueIds, NEW k \in Kinds, NEW persistant \in BOOLEAN,
           NEW wanted \in BOOLEAN, NewEntry(k, persistant, wanted)
    PROVE  UniqueIds'
<1> DEFINE t == Top.con
<1>1. PICK e : /\ e.id \notin IdsInUse
               /\ t \in Names
               /\ \A d \in Names : d # t => entries'[d] = entries[d]
               /\ \A n \in DOMAIN entries'[t] :
                     \/ n \in DOMAIN entries[t] /\ entries'[t][n] = entries[t][n]
                     \/ n = Len(entries[t]) + 1 /\ entries'[t][n] = e
  BY Subscribed
<1>2. \A c \in Names : \A j \in DOMAIN entries[c] : entries[c][j].id # e.id
  BY <1>1, InUse
<1> HIDE DEF t
<1>3. \A c \in Names : \A n \in DOMAIN entries'[c] :
         \/ n \in DOMAIN entries[c] /\ entries'[c][n] = entries[c][n]
         \/ c = t /\ n = Len(entries[t]) + 1 /\ entries'[c][n] = e
  BY <1>1
<1> QED
  BY <1>2, <1>3 DEF UniqueIds

LEMMA AddedOnce ==
    ASSUME TypeOK, SameOnce, NEW c \in Names, c \notin Range(consoles),
           consoles' = Append(consoles, c)
    PROVE  SameOnce'
<1>1. consoles \in Seq(Names) /\ \A p \in DOMAIN consoles : consoles[p] # c
  BY DEF TypeOK, Range
<1>2. /\ DOMAIN consoles' = 1 .. Len(consoles) + 1
      /\ \A m \in 1 .. Len(consoles) : consoles'[m] = consoles[m]
      /\ consoles'[Len(consoles) + 1] = c
      /\ DOMAIN consoles = 1 .. Len(consoles)
      /\ \A m \in 1 .. Len(consoles) + 1 : m \in 1 .. Len(consoles) \/ m = Len(consoles) + 1
  BY <1>1, Pushed
<1> QED
  BY <1>1, <1>2 DEF SameOnce

LEMMA ClosedOnce ==
    ASSUME TypeOK, SameOnce, NEW p \in DOMAIN consoles, consoles' = RemoveAt(consoles, p)
    PROVE  SameOnce'
<1>1. consoles \in Seq(Names)
  BY DEF TypeOK
<1>2. /\ consoles' \in Seq(Names) /\ Len(consoles') = Len(consoles) - 1
      /\ \A n \in 1 .. Len(consoles) - 1 :
           consoles'[n] = IF n < p THEN consoles[n] ELSE consoles[n + 1]
  BY <1>1, Erase, Zenon
<1>3. /\ DOMAIN consoles = 1 .. Len(consoles) /\ DOMAIN consoles' = 1 .. Len(consoles) - 1
      /\ Len(consoles) \in Nat
  BY <1>1, <1>2
<1> SUFFICES ASSUME NEW q \in DOMAIN consoles', NEW r \in DOMAIN consoles',
                    consoles'[q] = consoles'[r]
             PROVE  q = r
  BY DEF SameOnce
<1> DEFINE old(n) == IF n < p THEN n ELSE n + 1
<1>4. ASSUME NEW n \in DOMAIN consoles'
      PROVE  /\ n \in Nat /\ p \in Nat /\ old(n) \in DOMAIN consoles
             /\ consoles'[n] = consoles[old(n)]
  <2>1. n \in 1 .. Len(consoles) - 1
    BY <1>3
  <2>2. n \in Nat /\ p \in Nat /\ old(n) \in DOMAIN consoles
    BY <1>3, <2>1
  <2>3. consoles'[n] = IF n < p THEN consoles[n] ELSE consoles[n + 1]
    BY <1>2, <2>1
  <2> QED
    BY <2>2, <2>3
<1>5. old(q) = old(r)
  <2> HIDE DEF old
  <2> QED
    BY <1>4 DEF SameOnce
<1> QED
  BY <1>4, <1>5

LEMMA StepUnique ==
    ASSUME TypeOK, SameOnce, UniqueIds, Next
    PROVE  SameOnce' /\ UniqueIds'
<1>s. UNCHANGED consoles => SameOnce'
  BY DEF SameOnce
<1>u. UNCHANGED entries => UniqueIds'
  BY DEF UniqueIds
<1>1. ASSUME NEW k \in Walked, StartWalk(k) PROVE SameOnce' /\ UniqueIds'
  BY <1>1, <1>s, <1>u DEF StartWalk
<1>2. CASE CallNext
  <2>1. PICK p \in DOMAIN consoles : \E j \in DOMAIN entries[consoles[p]] :
           entries' = IF entries[consoles[p]][j].persistant THEN entries
                      ELSE [entries EXCEPT ![consoles[p]] = RemoveAt(@, j)]
    BY <1>2 DEF CallNext
  <2>2. PICK j \in DOMAIN entries[consoles[p]] :
           entries' = entries \/ entries' = [entries EXCEPT ![consoles[p]] = RemoveAt(@, j)]
    BY <2>1
  <2>3. consoles[p] \in Names
    BY DEF TypeOK
  <2> QED
    BY <1>2, <1>s, <1>u, <2>2, <2>3, EraseUnique DEF CallNext
<1>3. CASE EndWalk
  BY <1>3, <1>s, <1>u DEF EndWalk
<1>4. ASSUME NEW c \in Names, NEW j \in DOMAIN entries[c], TimerFires(c, j) \/ Post(c, j)
      PROVE  SameOnce' /\ UniqueIds'
  <2>1. UNCHANGED consoles
    BY <1>4 DEF TimerFires, Post
  <2>2. entries' = entries \/ entries' = [entries EXCEPT ![c] = RemoveAt(@, j)]
    BY <1>4 DEF TimerFires, Post
  <2> QED
    BY <1>s, <1>u, <2>1, <2>2, EraseUnique
<1>5. CASE Observed
  <2> DEFINE c == Head(queue).con
             found == {j \in DOMAIN entries[c] : entries[c][j].id = Head(queue).id}
  <2>1. c \in Names /\ UNCHANGED consoles
    BY <1>5, HeadType DEF Observed
  <2>2. entries' = entries \/ \E j \in DOMAIN entries[c] : entries' = [entries EXCEPT ![c] = RemoveAt(@, j)]
    <3>1. CASE found = {}
      BY <1>5, <3>1 DEF Observed
    <3>2. CASE found # {}
      <4>1. PICK j \in found :
               entries' = IF entries[c][j].persistant THEN entries
                          ELSE [entries EXCEPT ![c] = RemoveAt(@, j)]
        BY <1>5, <3>2 DEF Observed
      <4>2. j \in DOMAIN entries[c]
        BY <4>1
      <4> QED
        BY <4>1, <4>2
    <3> QED
      BY <3>1, <3>2
  <2> HIDE DEF c, found
  <2> QED
    BY <1>s, <1>u, <2>1, <2>2, EraseUnique
<1>6. ASSUME NEW p \in DOMAIN consoles, StartMain(consoles[p]) PROVE SameOnce' /\ UniqueIds'
  BY <1>6, <1>s, <1>u DEF StartMain
<1>7. ASSUME NEW p \in DOMAIN consoles, CloseConsole(p) PROVE SameOnce' /\ UniqueIds'
  BY <1>7, ClosedOnce, ClearUnique DEF CloseConsole
<1>8. ASSUME NEW k \in Kinds, NEW persistant \in BOOLEAN, NEW wanted \in BOOLEAN,
             Subscribe(k, persistant, wanted)
      PROVE  SameOnce' /\ UniqueIds'
  <2>1. NewEntry(k, persistant, wanted) /\ UNCHANGED consoles
    BY <1>8 DEF Subscribe, NewEntry
  <2> QED
    BY <1>s, <2>1, SubscribeUnique
<1>9. ASSUME NEW j \in 1 .. MaxEntries, Cancel(j) PROVE SameOnce' /\ UniqueIds'
  <2>1. Top.con \in Names /\ UNCHANGED consoles
    BY <1>9, TopType DEF Cancel, JSRunning, JSFrame
  <2> QED
    BY <1>9, <1>s, <2>1, EraseUnique DEF Cancel
<1>10. CASE OpenBox \/ CloseBox \/ Return
  BY <1>10, <1>s, <1>u DEF OpenBox, CloseBox, Return
<1>11. CASE Fail
  BY <1>11, <1>s, ClearUnique DEF Fail
<1>12. ASSUME NEW c \in Names, AddConsole(c) PROVE SameOnce' /\ UniqueIds'
  BY <1>12, <1>u, AddedOnce DEF AddConsole
<1> QED
  BY <1>1, <1>2, <1>3, <1>4, <1>5, <1>6, <1>7, <1>8, <1>9, <1>10, <1>11, <1>12 DEF Next

-----------------------------------------------------------------------------
(* Where there are walks *)

LEMMA WalkType == ASSUME TypeOK, NEW m \in WalkFrames
                  PROVE  stack[m] \in WalkFrame /\ m \in 1 .. Len(stack) /\ Len(stack) \in Nat
<1>1. stack[m] \in JSFrame \cup WalkFrame /\ stack[m].what = "walk"
  BY DEF WalkFrames, TypeOK
<1>2. m \in 1 .. Len(stack) /\ Len(stack) \in Nat
  BY DEF WalkFrames, TypeOK
<1> QED
  BY <1>1, <1>2 DEF JSFrame

\* Events are dispatched, and walks begin, where there is no walk.
LEMMA LoopHasNoWalks == ASSUME TypeOK, OneWalk, InEventLoop PROVE WalkFrames = {}
<1> SUFFICES ASSUME NEW m \in WalkFrames PROVE FALSE
  OBVIOUS
<1>1. m = Len(stack) /\ stack[m].what = "walk" /\ m \in DOMAIN stack
  BY DEF OneWalk, InEventLoop, WalkFrames
<1>2. DOMAIN <<>> = {}
  OBVIOUS
<1> QED
  BY <1>1, <1>2 DEF InEventLoop, Walking, Top

LEMMA NoWalks == ASSUME WalkFrames' = {} PROVE Walks'
  BY DEF Walks, OneWalk, DueAreWanted, DueAreAhead, DoneArePassed

LEMMA CallIsNoWalk ==
    ASSUME TypeOK, WalkFrames = {}, NEW c, stack' = Call(stack, c)
    PROVE  WalkFrames' = {}
<1> DEFINE f == [what |-> "js", con |-> c, box |-> FALSE]
<1>1. stack' = Append(stack, f) /\ f.what # "walk" /\ stack \in Seq(Frame)
  BY DEF Call, TypeOK, Frame
<1> HIDE DEF f
<1>2. \A m \in DOMAIN stack' : (m \in DOMAIN stack /\ stack'[m] = stack[m]) \/ stack'[m] = f
  BY <1>1, Pushed
<1> QED
  BY <1>1, <1>2 DEF WalkFrames

LEMMA BoxIsNoWalk ==
    ASSUME TypeOK, WalkFrames = {}, stack # <<>>, NEW f, f.what = "js",
           stack' = Append(Below(stack), f)
    PROVE  WalkFrames' = {}
<1>1. stack \in Seq(Frame)
  BY DEF TypeOK, Frame
<1>2. /\ Below(stack) \in Seq(Frame)
      /\ \A m \in DOMAIN Below(stack) : m \in DOMAIN stack /\ Below(stack)[m] = stack[m]
  <2>1. /\ Below(stack) \in Seq(Frame) /\ Len(Below(stack)) = Len(stack) - 1
        /\ Len(stack) \in Nat \ {0}
        /\ \A n \in 1 .. Len(stack) - 1 : Below(stack)[n] = stack[n]
    BY <1>1, Popped
  <2>2. DOMAIN Below(stack) = 1 .. Len(stack) - 1 /\ DOMAIN stack = 1 .. Len(stack)
    BY <1>1, <2>1
  <2>3. 1 .. Len(stack) - 1 \subseteq 1 .. Len(stack)
    BY <2>1
  <2> QED BY <2>1, <2>2, <2>3
<1>3. \A m \in DOMAIN stack' : (m \in DOMAIN stack /\ stack'[m] = stack[m]) \/ stack'[m] = f
  <2> SUFFICES ASSUME NEW m \in DOMAIN stack'
               PROVE  (m \in DOMAIN stack /\ stack'[m] = stack[m]) \/ stack'[m] = f
    OBVIOUS
  <2>1. (m \in DOMAIN Below(stack) /\ stack'[m] = Below(stack)[m]) \/ stack'[m] = f
    BY <1>2, Pushed
  <2> QED BY <1>2, <2>1
<1> QED
  BY <1>3 DEF WalkFrames

\* The walk under a script that runs.
LEMMA WalkUnderScript ==
    ASSUME TypeOK, OneWalk, JSRunning, NEW m \in WalkFrames
    PROVE  /\ m = Len(stack) - 1
           /\ stack[m].at \in DOMAIN consoles /\ consoles[stack[m].at] = Top.con
<1>1. stack[m].what = "walk" /\ Top.what = "js"
  BY DEF WalkFrames, JSRunning
<1>2. m # Len(stack)
  BY <1>1 DEF Top
<1> QED
  BY <1>2 DEF OneWalk

-----------------------------------------------------------------------------
(* The steps of a walk *)

LEMMA InitWalks == Init => WalkInv
<1> SUFFICES ASSUME Init PROVE SameOnce /\ UniqueIds /\ Walks
  BY InitType DEF WalkInv
<1>1. /\ \A c \in Names : DOMAIN entries[c] = {}
      /\ DOMAIN stack = {}
      /\ \A p \in DOMAIN consoles : p = 1
  BY DEF Init
<1> QED
  BY <1>1 DEF SameOnce, UniqueIds, WalkFrames, Walks, OneWalk, DueAreWanted,
              DueAreAhead, DoneArePassed

\* A walk that begins has all entries ahead and has called nobody.
LEMMA WalkStarts ==
    ASSUME WalkInv, Walks, NEW k \in Walked, StartWalk(k)
    PROVE  Walks'
<1> USE DEF WalkInv
<1> DEFINE due == {i \in Ids : \E c \in Names : \E j \in DOMAIN entries[c] :
                      entries[c][j].id = i /\ Wanted(entries[c][j], k)}
           f == [what |-> "walk", kind |-> k, at |-> 1, from |-> 1, done |-> {}, due |-> due]
<1>1. /\ stack' = Append(stack, f) /\ UNCHANGED <<consoles, entries>>
      /\ WalkFrames = {}
  BY LoopHasNoWalks DEF StartWalk, Walks
<1>2. ASSUME NEW c \in Names, NEW j \in DOMAIN entries[c], entries[c][j].id \in due
      PROVE  Wanted(entries[c][j], k)
  BY <1>2 DEF UniqueIds
<1> HIDE DEF due
<1>3. f.kind = k /\ f.at = 1 /\ f.from = 1 /\ f.done = {} /\ f.due = due
  OBVIOUS
<1> HIDE DEF f
<1>4. stack \in Seq(Frame)
  BY DEF TypeOK, Frame
<1>5. ASSUME NEW m \in WalkFrames' PROVE m = Len(stack') /\ stack'[m] = f
  <2>1. m \in DOMAIN stack \/ (m = Len(stack') /\ stack'[m] = f)
    BY <1>1, <1>4, Pushed DEF WalkFrames
  <2>2. m \in DOMAIN stack => stack'[m] = stack[m]
    BY <1>1, <1>4, Pushed
  <2> QED
    BY <1>1, <2>1, <2>2 DEF WalkFrames
<1>6. OneWalk'
  BY <1>5 DEF OneWalk
<1>7. DueAreWanted'
  BY <1>1, <1>2, <1>3, <1>5 DEF DueAreWanted
<1>8. DueAreAhead'
  <2>1. ASSUME NEW p \in DOMAIN consoles, NEW j \in DOMAIN entries[consoles[p]]
        PROVE  IsAhead(f, p, j)
    BY <1>3, EntryAt DEF IsAhead
  <2> QED
    BY <1>1, <1>5, <2>1 DEF DueAreAhead
<1>9. DoneArePassed'
  BY <1>1, <1>3, <1>5 DEF DoneArePassed
<1> QED
  BY <1>6, <1>7, <1>8, <1>9 DEF Walks

\* A walk calls the next entry: those that are due are after it, and when it
\* is erased those behind it move to where the walk goes on.
LEMMA WalkCalls ==
    ASSUME WalkInv, Walks, CallNext
    PROVE  Walks'
<1> USE DEF WalkInv
<1> DEFINE Called(p, j, e) ==
             [Top EXCEPT !.at = p, !.from = AfterCall(e, j), !.due = @ \ {e.id},
                         !.done = IF e.persistant THEN @ \cup {e.id} ELSE @]
<1>1. PICK p \in DOMAIN consoles : \E j \in DOMAIN entries[consoles[p]] :
         /\ IsNext(Top, p, j)
         /\ entries' = IF entries[consoles[p]][j].persistant THEN entries
                       ELSE [entries EXCEPT ![consoles[p]] = RemoveAt(@, j)]
         /\ stack' = Call(Append(Below(stack), Called(p, j, entries[consoles[p]][j])),
                         consoles[p])
  BY DEF CallNext
<1>2. PICK j \in DOMAIN entries[consoles[p]] :
         /\ IsNext(Top, p, j)
         /\ entries' = IF entries[consoles[p]][j].persistant THEN entries
                       ELSE [entries EXCEPT ![consoles[p]] = RemoveAt(@, j)]
         /\ stack' = Call(Append(Below(stack), Called(p, j, entries[consoles[p]][j])),
                         consoles[p])
  BY <1>1
<1> DEFINE c == consoles[p]
           e == entries[c][j]
           f == Called(p, j, e)
<1>3. Walking /\ UNCHANGED consoles /\ stack \in Seq(Frame) /\ stack # <<>>
  BY DEF CallNext, Walking, TypeOK, Frame
<1>4. Top \in WalkFrame /\ f \in WalkFrame /\ Below(stack) \in Seq(Frame)
  BY <1>3, CalledFrame, TopType DEF Walking
<1>5. p \in Nat \ {0} /\ j \in Nat \ {0} /\ c \in Names /\ e \in Entry
  BY EntryAt
<1>6. /\ f.kind = Top.kind /\ f.at = p /\ f.from = AfterCall(e, j)
      /\ f.due = Top.due \ {e.id}
      /\ f.done = IF e.persistant THEN Top.done \cup {e.id} ELSE Top.done
  BY <1>4 DEF WalkFrame
<1>7. /\ IsNext(Top, p, j) /\ stack' = Call(Append(Below(stack), f), c)
      /\ e.persistant => UNCHANGED entries
      /\ ~e.persistant => entries' = [entries EXCEPT ![c] = RemoveAt(@, j)]
  BY <1>2
<1> HIDE DEF f, e, c, Called
<1> DEFINE n == Len(stack)
           g == [what |-> "js", con |-> c, box |-> FALSE]
<1>8. /\ n \in DOMAIN stack /\ n \in Nat \ {0} /\ stack[n] = Top /\ n \in WalkFrames
      /\ \A m \in 1 .. n - 1 : m \in DOMAIN stack /\ m # n /\ Below(stack)[m] = stack[m]
      /\ Len(Below(stack)) = n - 1
  <2>1. n \in DOMAIN stack /\ n \in Nat \ {0}
    BY <1>3
  <2>2. stack[n] = Top /\ n \in WalkFrames
    BY <1>3, <2>1 DEF Top, Walking, WalkFrames
  <2>3. \A m \in 1 .. n - 1 : m \in DOMAIN stack /\ m # n
    BY <1>3, <2>1
  <2> QED
    BY <1>3, <2>1, <2>2, <2>3, Popped
<1>9. ASSUME NEW m \in DOMAIN stack'
      PROVE  \/ (m \in 1 .. n - 1 /\ stack'[m] = stack[m])
             \/ (m = n /\ stack'[m] = f)
             \/ (m = n + 1 /\ stack'[m] = g)
  <2> DEFINE s == Append(Below(stack), f)
  <2>1. s \in Seq(Frame) /\ Len(s) = n
    BY <1>4, <1>8, Pushed, PushType DEF Frame
  <2>2. stack' = Append(s, g)
    BY <1>7 DEF Call
  <2>3. (m \in 1 .. n /\ stack'[m] = s[m]) \/ (m = n + 1 /\ stack'[m] = g)
    BY <2>1, <2>2, Pushed
  <2>4. ASSUME m \in 1 .. n PROVE (m \in 1 .. n - 1 /\ s[m] = stack[m]) \/ (m = n /\ s[m] = f)
    <3>1. n - 1 + 1 = n
      BY <1>8
    <3> QED
      BY <1>4, <1>8, <2>4, <3>1, Pushed
  <2> HIDE DEF s, n, g
  <2> QED
    BY <2>3, <2>4
<1>10. Len(stack') = n + 1 /\ stack'[n + 1] = g
  <2>1. Append(Below(stack), f) \in Seq(Frame) /\ Len(Append(Below(stack), f)) = n
    BY <1>4, <1>8, Pushed, PushType DEF Frame
  <2> QED
    BY <1>7, <2>1, Pushed DEF Call
<1>11. ASSUME NEW m \in WalkFrames' PROVE m = n /\ stack'[m] = f
  <2>1. m \in DOMAIN stack' /\ stack'[m].what = "walk"
    BY <1>11 DEF WalkFrames
  <2>2. m \notin WalkFrames \/ m = n
    <3>1. ~JSRunning
      BY <1>3 DEF JSRunning, Walking
    <3> QED
      BY <3>1 DEF Walks, OneWalk
  <2>3. CASE m \in 1 .. n - 1 /\ stack'[m] = stack[m]
    BY <1>8, <2>1, <2>2, <2>3 DEF WalkFrames
  <2> QED
    BY <1>9, <2>1, <2>3
<1>12. OneWalk'
  <2>1. JSRunning' /\ Top.con' = c
    <3>1. stack' # <<>> /\ Top' = g
      BY <1>8, <1>10 DEF Top
    <3> QED
      BY <3>1 DEF JSRunning
  <2>2. n = Len(stack') - 1
    BY <1>8, <1>10
  <2> QED
    BY <1>3, <1>6, <1>11, <2>1, <2>2 DEF OneWalk, c
<1>13. DueAreWanted'
  <2>1. NoneNew
    BY <1>5, <1>7, EraseIsNoneNew, SameIsNoneNew DEF c
  <2>2. \A d \in Names : \A i \in DOMAIN entries[d] :
           entries[d][i].id \in Top.due => Wanted(entries[d][i], Top.kind)
    BY <1>8 DEF Walks, DueAreWanted
  <2> QED
    BY <1>6, <1>11, <2>1, <2>2 DEF DueAreWanted, NoneNew
\* What the walk knows of the entries as they are.
<1>14. ASSUME NEW q \in DOMAIN consoles, NEW i \in DOMAIN entries[consoles[q]]
       PROVE  /\ q \in Nat \ {0} /\ i \in Nat \ {0}
              /\ entries[consoles[q]][i].id \in Top.due
                   => p < q \/ (p = q /\ j <= i)
              /\ entries[consoles[q]][i].id \in Top.done => ~IsAhead(Top, q, i)
              /\ entries[consoles[q]][i].id = e.id => q = p /\ i = j
  <2>1. q \in Nat \ {0} /\ i \in Nat \ {0} /\ consoles[q] \in Names
    BY EntryAt
  <2>2. entries[consoles[q]][i].id \in Top.due
          => IsAhead(Top, q, i) /\ Wanted(entries[consoles[q]][i], Top.kind)
    BY <1>8, <2>1 DEF Walks, DueAreAhead, DueAreWanted
  <2>3. entries[consoles[q]][i].id \in Top.done => ~IsAhead(Top, q, i)
    BY <1>8 DEF Walks, DoneArePassed
  <2>4. entries[consoles[q]][i].id = e.id => q = p /\ i = j
    BY <1>5, <2>1 DEF UniqueIds, SameOnce, e, c
  <2> QED
    BY <1>7, <2>1, <2>2, <2>3, <2>4 DEF IsNext
<1>15. IsAhead(Top, p, j) /\ Top.at \in Nat /\ Top.from \in Nat
  BY <1>4, <1>7 DEF IsNext, WalkFrame
<1>16. CASE e.persistant
  <2>1. UNCHANGED entries /\ f.from = j + 1 /\ f.at = p /\ f.due = Top.due \ {e.id}
        /\ f.done = Top.done \cup {e.id}
    BY <1>6, <1>7, <1>16 DEF AfterCall
  <2>2. ASSUME NEW q \in DOMAIN consoles, NEW i \in DOMAIN entries[consoles[q]]
        PROVE  /\ entries[consoles[q]][i].id \in f.due => IsAhead(f, q, i)
               /\ entries[consoles[q]][i].id \in f.done => ~IsAhead(f, q, i)
    <3>0. q \in Nat \ {0} /\ i \in Nat \ {0}
      BY <1>14
    <3>1. ASSUME entries[consoles[q]][i].id \in f.due PROVE IsAhead(f, q, i)
      <4>1. p < q \/ (p = q /\ j <= i)
        BY <1>14, <2>1, <3>1
      <4>2. ~(p = q /\ j = i)
        BY <2>1, <3>1 DEF e, c
      <4> QED
        BY <1>5, <2>1, <3>0, <4>1, <4>2 DEF IsAhead
    <3>2. ASSUME entries[consoles[q]][i].id \in f.done PROVE ~IsAhead(f, q, i)
      <4>1. ~IsAhead(Top, q, i) \/ (q = p /\ i = j)
        BY <1>14, <2>1, <3>2
      <4> QED
        BY <1>5, <1>15, <2>1, <3>0, <4>1 DEF IsAhead
    <3> QED
      BY <3>1, <3>2
  <2>3. DueAreAhead'
    BY <1>3, <1>11, <2>1, <2>2 DEF DueAreAhead
  <2>4. DoneArePassed'
    BY <1>3, <1>11, <2>1, <2>2 DEF DoneArePassed
  <2> QED
    BY <1>12, <1>13, <2>3, <2>4 DEF Walks
<1>17. CASE ~e.persistant
  <2>1. /\ entries' = [entries EXCEPT ![c] = RemoveAt(@, j)]
        /\ f.from = j /\ f.at = p /\ f.due \subseteq Top.due /\ f.done = Top.done
    BY <1>6, <1>7, <1>17 DEF AfterCall
  <2>2. ASSUME NEW q \in DOMAIN consoles, NEW i \in DOMAIN entries'[consoles[q]]
        PROVE  /\ entries'[consoles[q]][i].id \in f.due => IsAhead(f, q, i)
               /\ entries'[consoles[q]][i].id \in f.done => ~IsAhead(f, q, i)
    <3>1. CASE q # p
      <4>1. consoles[q] # c /\ consoles[q] \in Names
        BY <3>1 DEF SameOnce, TypeOK, c
      <4>2. entries'[consoles[q]] = entries[consoles[q]]
        BY <2>1, <4>1 DEF TypeOK
      <4>3. q \in Nat \ {0} /\ i \in Nat \ {0} /\ i \in DOMAIN entries[consoles[q]]
        BY <1>14, <4>2
      <4>4. /\ entries[consoles[q]][i].id \in Top.due => p < q
            /\ entries[consoles[q]][i].id \in Top.done => ~IsAhead(Top, q, i)
        BY <1>14, <3>1, <4>3
      <4> QED
        BY <1>5, <1>15, <2>1, <3>1, <4>2, <4>3, <4>4 DEF IsAhead
    <3>2. CASE q = p
      <4>0. i \in DOMAIN entries'[c] /\ j \in DOMAIN entries[c]
        BY <3>2 DEF c
      <4>e. /\ j \in Nat \ {0}
            /\ \A d \in Names : d # c => entries'[d] = entries[d]
            /\ \A v \in DOMAIN entries'[c] :
                 /\ v \in Nat \ {0} /\ v \in DOMAIN entries[c] /\ v + 1 \in DOMAIN entries[c]
                 /\ v < j => entries'[c][v] = entries[c][v]
                 /\ j <= v => entries'[c][v] = entries[c][v + 1]
        <5>1. /\ TypeOK /\ c \in Names /\ j \in DOMAIN entries[c]
              /\ entries' = [entries EXCEPT ![c] = RemoveAt(entries[c], j)]
          BY <1>5, <2>1, <4>0
        <5> HIDE DEF WalkInv
        <5> QED
          BY <5>1, Erased
      <4>1. \A v \in DOMAIN entries'[c] :
              /\ v \in Nat \ {0} /\ v \in DOMAIN entries[c] /\ v + 1 \in DOMAIN entries[c]
              /\ v < j => entries'[c][v] = entries[c][v]
              /\ j <= v => entries'[c][v] = entries[c][v + 1]
        BY <4>e
      <4>2. CASE i < j
        <5>1. entries'[c][i] = entries[c][i] /\ i \in DOMAIN entries[c] /\ i \in Nat
          BY <4>0, <4>1, <4>2
        <5>2. entries[c][i].id \notin Top.due
          BY <1>5, <1>14, <3>2, <4>2, <5>1 DEF c
        <5> QED
          BY <1>5, <2>1, <3>2, <4>2, <5>1, <5>2 DEF IsAhead, c
      <4>3. CASE j <= i
        <5>1. /\ entries'[c][i] = entries[c][i + 1] /\ i + 1 \in DOMAIN entries[c]
              /\ i \in Nat
          BY <4>0, <4>1, <4>3
        <5>2. IsAhead(f, q, i)
          BY <2>1, <3>2, <4>3 DEF IsAhead
        <5>3. IsAhead(Top, q, i + 1)
          BY <1>5, <1>15, <3>2, <4>3, <5>1 DEF IsAhead
        <5>4. entries[c][i + 1].id \notin Top.done
          BY <1>14, <3>2, <5>1, <5>3 DEF c
        <5> QED
          BY <2>1, <3>2, <5>1, <5>2, <5>4 DEF c
      <4> QED
        BY <1>5, <4>0, <4>1, <4>2, <4>3
    <3> QED
      BY <3>1, <3>2
  <2>3. DueAreAhead'
    BY <1>3, <1>11, <2>2 DEF DueAreAhead
  <2>4. DoneArePassed'
    BY <1>3, <1>11, <2>2 DEF DoneArePassed
  <2> QED
    BY <1>12, <1>13, <2>3, <2>4 DEF Walks
<1> QED
  BY <1>16, <1>17

\* A handler subscribes: the walk does not know the new id.
LEMMA SubscribeInWalk ==
    ASSUME WalkInv, Walks, NEW k \in Kinds, NEW persistant \in BOOLEAN,
           NEW wanted \in BOOLEAN, NewEntry(k, persistant, wanted)
    PROVE  Walks'
<1> USE DEF WalkInv
<1> DEFINE t == Top.con
<1>1. PICK e : /\ e.id \notin IdsInUse
               /\ t \in Names
               /\ \A d \in Names : d # t => entries'[d] = entries[d]
               /\ \A n \in DOMAIN entries'[t] :
                     \/ n \in DOMAIN entries[t] /\ entries'[t][n] = entries[t][n]
                     \/ n = Len(entries[t]) + 1 /\ entries'[t][n] = e
  BY Subscribed
<1>2. \A m \in WalkFrames : e.id \notin stack[m].due /\ e.id \notin stack[m].done
  BY <1>1, InUse
<1> HIDE DEF t
<1>3. \A c \in Names : \A n \in DOMAIN entries'[c] :
         \/ n \in DOMAIN entries[c] /\ entries'[c][n] = entries[c][n]
         \/ entries'[c][n] = e
  BY <1>1
<1>4. UNCHANGED <<stack, consoles>> /\ WalkFrames' = WalkFrames
  BY DEF NewEntry, WalkFrames
<1>5. OneWalk'
  BY <1>4 DEF Walks, OneWalk, JSRunning, Top
<1>6. DueAreWanted'
  BY <1>2, <1>3, <1>4 DEF Walks, DueAreWanted
<1>7. \A p \in DOMAIN consoles : consoles[p] \in Names
  BY DEF TypeOK
<1>8. DueAreAhead'
  BY <1>2, <1>3, <1>4, <1>7 DEF Walks, DueAreAhead, IsAhead
<1>9. DoneArePassed'
  BY <1>2, <1>3, <1>4, <1>7 DEF Walks, DoneArePassed, IsAhead
<1> QED
  BY <1>5, <1>6, <1>8, <1>9 DEF Walks

\* A handler cancels an entry the walk has not passed: those behind it move
\* down, and the first of them to where the walk is at the least.
LEMMA CancelInWalk ==
    ASSUME WalkInv, Undisturbed, Walks, NEW j \in 1 .. MaxEntries, Cancel(j)
    PROVE  Walks'
<1> USE DEF WalkInv
<1> DEFINE t == Top.con
<1>1. t \in Names
  BY TopType DEF Cancel, JSRunning, JSFrame
<1>2. /\ j \in DOMAIN entries[t] /\ JSRunning
      /\ entries' = [entries EXCEPT ![t] = RemoveAt(@, j)]
      /\ UNCHANGED <<stack, consoles>> /\ WalkFrames' = WalkFrames
      /\ \A m \in WalkFrames : consoles[stack[m].at] = t => ~(j < stack[m].from)
  BY DEF Cancel, WalkFrames, Undisturbed
<1> HIDE DEF t
<1>3. /\ j \in Nat \ {0}
      /\ \A d \in Names : d # t => entries'[d] = entries[d]
      /\ \A n \in DOMAIN entries'[t] :
           /\ n \in Nat \ {0} /\ n \in DOMAIN entries[t] /\ n + 1 \in DOMAIN entries[t]
           /\ n < j => entries'[t][n] = entries[t][n]
           /\ j <= n => entries'[t][n] = entries[t][n + 1]
  <2>1. /\ TypeOK /\ t \in Names /\ j \in DOMAIN entries[t]
        /\ entries' = [entries EXCEPT ![t] = RemoveAt(entries[t], j)]
    BY <1>1, <1>2
  <2> HIDE DEF WalkInv
  <2> QED
    BY <2>1, Erased
<1>4. ASSUME NEW m \in WalkFrames
      PROVE  /\ stack[m].at \in DOMAIN consoles /\ consoles[stack[m].at] = t
             /\ stack[m].at \in Nat /\ stack[m].from \in Nat /\ stack[m].from <= j
  <2>1. stack[m].at \in DOMAIN consoles /\ consoles[stack[m].at] = t
    BY <1>2, WalkUnderScript DEF Walks, t
  <2>2. stack[m].at \in Nat /\ stack[m].from \in Nat
    BY WalkType DEF WalkFrame
  <2> QED
    BY <1>2, <1>3, <2>1, <2>2
<1>5. OneWalk'
  BY <1>2 DEF Walks, OneWalk, JSRunning, Top
<1>6. DueAreWanted'
  <2>1. NoneNew
    BY <1>1, <1>2, EraseIsNoneNew
  <2> QED
    BY <1>2, <2>1 DEF Walks, DueAreWanted, NoneNew
<1>7. ASSUME NEW m \in WalkFrames, NEW p \in DOMAIN consoles,
             NEW n \in DOMAIN entries'[consoles[p]]
      PROVE  /\ entries'[consoles[p]][n].id \in stack[m].due => IsAhead(stack[m], p, n)
             /\ entries'[consoles[p]][n].id \in stack[m].done => ~IsAhead(stack[m], p, n)
  <2>0. \A i \in DOMAIN entries[consoles[p]] :
           /\ entries[consoles[p]][i].id \in stack[m].due => IsAhead(stack[m], p, i)
           /\ entries[consoles[p]][i].id \in stack[m].done => ~IsAhead(stack[m], p, i)
    BY DEF Walks, DueAreAhead, DoneArePassed
  <2>1. CASE consoles[p] # t
    <3>1. entries'[consoles[p]] = entries[consoles[p]]
      BY <1>3, <2>1 DEF TypeOK
    <3> QED
      BY <2>0, <3>1
  <2>2. CASE consoles[p] = t
    <3>1. p = stack[m].at
      BY <1>4, <2>2 DEF SameOnce
    <3>2. /\ n \in Nat /\ n \in DOMAIN entries[t] /\ n + 1 \in DOMAIN entries[t]
          /\ n < j => entries'[t][n] = entries[t][n]
          /\ j <= n => entries'[t][n] = entries[t][n + 1]
      BY <1>3, <2>2
    <3>3. CASE n < j
      BY <2>0, <2>2, <3>2, <3>3
    <3>4. CASE ~(n < j)
      <4>1. j <= n /\ stack[m].from <= n /\ stack[m].from <= n + 1
        BY <1>3, <1>4, <3>2, <3>4
      <4>2. IsAhead(stack[m], p, n) /\ IsAhead(stack[m], p, n + 1)
        BY <3>1, <4>1 DEF IsAhead
      <4> QED
        BY <2>0, <2>2, <3>2, <4>1, <4>2
    <3> QED
      BY <3>3, <3>4
  <2> QED
    BY <2>1, <2>2
<1>8. DueAreAhead' /\ DoneArePassed'
  BY <1>2, <1>7 DEF DueAreAhead, DoneArePassed
<1> QED
  BY <1>5, <1>6, <1>8 DEF Walks

\* The handler is done, or fails and its console is wrapped up: the walk goes
\* on over the entries that are left.
LEMMA BackToWalk ==
    ASSUME WalkInv, Walks, Return \/ Fail
    PROVE  Walks'
<1> USE DEF WalkInv
<1>1. /\ stack # <<>> /\ JSRunning /\ stack' = Below(stack) /\ UNCHANGED consoles
      /\ stack \in Seq(Frame)
      /\ entries' = entries \/ entries' = [entries EXCEPT ![Top.con] = <<>>]
  BY DEF Return, Fail, JSRunning, TypeOK, Frame
<1>2. ASSUME NEW c \in Names, NEW j \in DOMAIN entries'[c]
      PROVE  j \in DOMAIN entries[c] /\ entries'[c] = entries[c]
  <2>1. entries'[c] = entries[c] \/ entries'[c] = <<>>
    BY <1>1 DEF TypeOK
  <2>2. DOMAIN <<>> = {}
    OBVIOUS
  <2> QED
    BY <2>1, <2>2
<1>3. /\ \A m \in DOMAIN stack' : m \in DOMAIN stack /\ stack'[m] = stack[m]
      /\ Len(stack') = Len(stack) - 1
  BY <1>1, Popped
<1>4. ASSUME NEW m \in WalkFrames'
      PROVE  m \in WalkFrames /\ stack'[m] = stack[m] /\ m = Len(stack')
  <2>1. m \in WalkFrames /\ stack'[m] = stack[m]
    BY <1>3 DEF WalkFrames
  <2> QED
    BY <1>1, <1>3, <2>1, WalkUnderScript DEF Walks
<1>5. \A p \in DOMAIN consoles : consoles[p] \in Names
  BY DEF TypeOK
<1>6. OneWalk'
  BY <1>4 DEF OneWalk
<1>7. DueAreWanted'
  BY <1>2, <1>4 DEF Walks, DueAreWanted
<1>8. DueAreAhead' /\ DoneArePassed'
  BY <1>1, <1>2, <1>4, <1>5 DEF Walks, DueAreAhead, DoneArePassed
<1> QED
  BY <1>6, <1>7, <1>8 DEF Walks

LEMMA StepWalks == WalkInv /\ [Next]_vars => WalkInv'
<1> SUFFICES ASSUME WalkInv, [Next]_vars PROVE WalkInv'
  OBVIOUS
<1>1. CASE UNCHANGED vars
  <2>1. TypeOK' /\ SameOnce' /\ UniqueIds'
    BY <1>1 DEF WalkInv, vars, TypeOK, SameOnce, UniqueIds
  <2>2. Walks => Walks'
    BY <1>1 DEF vars, Walks, OneWalk, DueAreWanted, DueAreAhead, DoneArePassed,
                WalkFrames, JSRunning, Top
  <2> QED
    BY <2>1, <2>2 DEF WalkInv, Undisturbed
<1>2. CASE Next
  <2>1. TypeOK' /\ SameOnce' /\ UniqueIds'
    BY <1>2, StepType, StepUnique DEF WalkInv
  <2> SUFFICES ASSUME Undisturbed PROVE Walks'
    BY <2>1 DEF WalkInv, Undisturbed
  <2>2. WalkInv /\ Walks /\ TypeOK /\ OneWalk
    BY DEF WalkInv, Walks
  <2> HIDE DEF WalkInv
  <2>3. ASSUME NEW k \in Walked, StartWalk(k) PROVE Walks'
    BY <2>2, <2>3, WalkStarts
  <2>4. CASE CallNext
    BY <2>2, <2>4, WalkCalls
  <2>5. CASE EndWalk
    <3>1. Walking /\ stack # <<>> /\ stack' = Below(stack) /\ stack \in Seq(Frame)
      BY <2>2, <2>5 DEF EndWalk, Walking, TypeOK, Frame
    <3>2. ASSUME NEW m \in WalkFrames' PROVE FALSE
      <4>1. m \in DOMAIN stack /\ stack'[m] = stack[m] /\ m # Len(stack)
        BY <3>1, Popped DEF WalkFrames
      <4>2. m \in WalkFrames /\ ~JSRunning
        BY <3>1, <4>1 DEF WalkFrames, JSRunning, Walking
      <4> QED
        BY <2>2, <4>1, <4>2 DEF OneWalk
    <3> QED
      BY <3>2, NoWalks
  <2>6. ASSUME NEW c \in Names, NEW j \in DOMAIN entries[c], TimerFires(c, j) PROVE Walks'
    <3>1. InEventLoop /\ stack' = Call(stack, c)
      BY <2>6 DEF TimerFires
    <3> QED
      BY <2>2, <3>1, LoopHasNoWalks, CallIsNoWalk, NoWalks
\* Steps that leave alone what the walks are about.
  <2>7. UNCHANGED <<consoles, entries, stack>> => Walks'
    BY <2>2 DEF Walks, OneWalk, DueAreWanted, DueAreAhead, DoneArePassed, WalkFrames,
                JSRunning, Top
  <2>8. ASSUME NEW c \in Names, NEW j \in DOMAIN entries[c], Post(c, j) PROVE Walks'
    BY <2>7, <2>8 DEF Post
  <2>9. CASE Observed
    <3>1. UNCHANGED <<consoles, entries, stack>> \/ stack' = Call(stack, Head(queue).con)
      BY <2>9 DEF Observed
    <3>2. InEventLoop
      BY <2>9 DEF Observed
    <3> QED
      BY <2>2, <2>7, <3>1, <3>2, LoopHasNoWalks, CallIsNoWalk, NoWalks
  <2>10. ASSUME NEW p \in DOMAIN consoles, StartMain(consoles[p]) PROVE Walks'
    <3>1. InEventLoop /\ stack' = Call(stack, consoles[p])
      BY <2>10 DEF StartMain
    <3> QED
      BY <2>2, <3>1, LoopHasNoWalks, CallIsNoWalk, NoWalks
  <2>11. ConsolesChange => Walks'
    <3>1. ASSUME ConsolesChange PROVE WalkFrames' = {}
      BY <3>1 DEF ConsolesChange, Undisturbed, WalkFrames
    <3> QED
      BY <3>1, NoWalks
  <2>12. ASSUME NEW p \in DOMAIN consoles, CloseConsole(p) PROVE Walks'
    BY <2>11, <2>12 DEF CloseConsole
  <2>13. ASSUME NEW k \in Kinds, NEW persistant \in BOOLEAN, NEW wanted \in BOOLEAN,
                Subscribe(k, persistant, wanted)
         PROVE  Walks'
    <3>1. NewEntry(k, persistant, wanted)
      BY <2>13 DEF Subscribe
    <3> QED
      BY <2>2, <3>1, SubscribeInWalk
  <2>14. ASSUME NEW j \in 1 .. MaxEntries, Cancel(j) PROVE Walks'
    BY <2>2, <2>14, CancelInWalk
  <2>15. CASE OpenBox \/ CloseBox
    <3>1. stack # <<>> /\ WalkFrames = {} /\ Top.what = "js"
      BY <2>2, <2>15, LoopHasNoWalks, TopType
         DEF OpenBox, CloseBox, Undisturbed, JSRunning, InEventLoop, Walking, Frame, JSFrame, WalkFrame
    <3>2. PICK b \in BOOLEAN : stack' = Append(Below(stack), [Top EXCEPT !.box = b])
      BY <2>15 DEF OpenBox, CloseBox
    <3>3. [Top EXCEPT !.box = b].what = "js"
      BY <2>2, <3>1, TopType DEF JSFrame
    <3> QED
      BY <2>2, <3>1, <3>2, <3>3, BoxIsNoWalk, NoWalks
  <2>16. CASE Return \/ Fail
    BY <2>2, <2>16, BackToWalk
  <2>17. ASSUME NEW c \in Names, AddConsole(c) PROVE Walks'
    BY <2>11, <2>17 DEF AddConsole
  <2> QED
    BY <1>2, <2>3, <2>4, <2>5, <2>6, <2>8, <2>9, <2>10, <2>12, <2>13, <2>14, <2>15,
       <2>16, <2>17 DEF Next
<1> QED
  BY <1>1, <1>2

-----------------------------------------------------------------------------
(* What a walk promises *)

\* Every subscriber there was when the event came, and that is still there, is
\* called or still ahead, however many one-shot entries the walk erases and
\* handlers add and cancel, as long as they leave alone what it has passed.
THEOREM NoneIsMissedCorrect == Spec => []NoneIsMissed
<1>1. WalkInv => NoneIsMissed
  BY DEF WalkInv, Walks, DueAreAhead, NoneIsMissed
<1> QED
  BY InitWalks, StepWalks, <1>1, PTL DEF Spec

\* And a subscriber that persists is not called again for the same event.
THEOREM NoneIsCalledTwiceCorrect == Spec => []NoneIsCalledTwice
<1>1. WalkInv => NoneIsCalledTwice
  BY DEF WalkInv, Walks, DoneArePassed, NoneIsCalledTwice
<1> QED
  BY InitWalks, StepWalks, <1>1, PTL DEF Spec
=============================================================================
