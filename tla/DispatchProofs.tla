--------------------------- MODULE DispatchProofs ---------------------------
(***************************************************************************)
(* Proofs about Dispatch, for every set of consoles, kinds of event and    *)
(* ids, every bound, and whatever handlers do where it does not say.       *)
(***************************************************************************)
EXTENDS Dispatch, SequenceTheorems, TLAPS

USE KindsAssumption, DispatchPracticesAssumption, DispatchBoundsAssumption

-----------------------------------------------------------------------------
(* Vectors *)

\* vector::erase: what is before j stays, what is after j moves down by one.
LEMMA Erase ==
    ASSUME NEW S, NEW s \in Seq(S), NEW j \in DOMAIN s
    PROVE  /\ RemoveAt(s, j) \in Seq(S)
           /\ Len(RemoveAt(s, j)) = Len(s) - 1
           /\ \A n \in 1 .. Len(s) - 1 :
                RemoveAt(s, j)[n] = IF n < j THEN s[n] ELSE s[n + 1]
<1> DEFINE a == SubSeq(s, 1, j - 1)
           b == SubSeq(s, j + 1, Len(s))
<1>1. j \in 1 .. Len(s) /\ Len(s) \in Nat /\ \A n \in 1 .. Len(s) : s[n] \in S
  OBVIOUS
<1>2. /\ a \in Seq(S) /\ Len(a) = j - 1
      /\ \A n \in 1 .. j - 1 : a[n] = s[n]
  BY <1>1
<1>3. /\ b \in Seq(S) /\ Len(b) = Len(s) - j
      /\ \A n \in 1 .. Len(s) - j : b[n] = s[j + n]
  BY <1>1
<1>4. RemoveAt(s, j) = a \o b
  BY DEF RemoveAt
<1> HIDE DEF a, b
<1>5. /\ a \o b \in Seq(S)
      /\ Len(a \o b) = Len(s) - 1
      /\ \A n \in 1 .. Len(s) - 1 :
           (a \o b)[n] = IF n <= j - 1 THEN a[n] ELSE b[n - (j - 1)]
  <2>1. /\ a \in Seq(S) /\ b \in Seq(S) /\ j \in Nat /\ Len(s) \in Nat
        /\ Len(a) = j - 1 /\ Len(b) = Len(s) - j
    BY <1>1, <1>2, <1>3
  <2>2. /\ a \o b \in Seq(S)
        /\ Len(a \o b) = Len(a) + Len(b)
        /\ \A n \in 1 .. Len(a) + Len(b) :
             (a \o b)[n] = IF n <= Len(a) THEN a[n] ELSE b[n - Len(a)]
    BY <2>1, ConcatProperties
  <2>3. Len(a) + Len(b) = Len(s) - 1
    BY <2>1
  <2> QED BY <2>1, <2>2, <2>3
<1>6. ASSUME NEW n \in 1 .. Len(s) - 1
      PROVE  (a \o b)[n] = IF n < j THEN s[n] ELSE s[n + 1]
  <2>a. /\ n < j => n <= j - 1 /\ n \in 1 .. j - 1
        /\ ~(n < j) => ~(n <= j - 1)
    BY <1>1
  <2>b. (a \o b)[n] = IF n <= j - 1 THEN a[n] ELSE b[n - (j - 1)]
    BY <1>5
  <2>1. CASE n < j
    BY <1>2, <2>a, <2>b, <2>1
  <2>2. CASE ~(n < j)
    <3>1. n - (j - 1) \in 1 .. Len(s) - j /\ j + (n - (j - 1)) = n + 1
      BY <1>1, <2>2
    <3>2. (a \o b)[n] = b[n - (j - 1)]
      BY <2>a, <2>b, <2>2
    <3> QED
      BY <1>3, <2>2, <3>1, <3>2
  <2> QED
    BY <2>1, <2>2
<1> QED
  BY <1>4, <1>5, <1>6

\* The stack without its top.
LEMMA Popped ==
    ASSUME NEW S, NEW s \in Seq(S), s # <<>>
    PROVE  /\ Below(s) \in Seq(S)
           /\ Len(Below(s)) = Len(s) - 1
           /\ Len(s) \in Nat \ {0}
           /\ \A n \in 1 .. Len(s) - 1 : Below(s)[n] = s[n]
           /\ s[Len(s)] \in S
<1>1. Len(s) \in Nat \ {0} /\ \A n \in 1 .. Len(s) : s[n] \in S
  OBVIOUS
<1>2. ASSUME NEW k \in Nat, k <= Len(s)
      PROVE  /\ SubSeq(s, 1, k) \in Seq(S)
             /\ Len(SubSeq(s, 1, k)) = k
             /\ \A n \in 1 .. k : SubSeq(s, 1, k)[n] = s[n]
  BY <1>1, <1>2
<1>3. Len(s) - 1 \in Nat /\ Len(s) - 1 <= Len(s) /\ Len(s) \in 1 .. Len(s)
  BY <1>1
<1>4. Below(s) = SubSeq(s, 1, Len(s) - 1)
  BY DEF Below
<1> QED
  BY <1>1, <1>2, <1>3, <1>4

\* A vector that is not empty has a first element.
LEMMA NotEmpty ==
    ASSUME NEW S, NEW s \in Seq(S), s # <<>>
    PROVE  1 \in DOMAIN s
  OBVIOUS

-----------------------------------------------------------------------------
(* Types *)

Frame == JSFrame \cup WalkFrame

LEMMA CallType ==
    ASSUME NEW s \in Seq(Frame), NEW c \in Names
    PROVE  Call(s, c) \in Seq(Frame)
  BY DEF Call, Frame, JSFrame

LEMMA PushType ==
    ASSUME NEW s \in Seq(Frame), NEW f \in Frame
    PROVE  Append(s, f) \in Seq(Frame)
  OBVIOUS

\* The entries of one console change.
LEMMA EntriesType ==
    ASSUME TypeOK, NEW c, NEW s \in Seq(Entry), entries' = [entries EXCEPT ![c] = s]
    PROVE  entries' \in [Names -> Seq(Entry)]
  BY DEF TypeOK

LEMMA EraseType ==
    ASSUME TypeOK, NEW c \in Names, NEW j \in DOMAIN entries[c],
           entries' = [entries EXCEPT ![c] = RemoveAt(@, j)]
    PROVE  entries' \in [Names -> Seq(Entry)]
<1>1. entries[c] \in Seq(Entry)
  BY DEF TypeOK
<1>2. RemoveAt(entries[c], j) \in Seq(Entry)
  BY <1>1, Erase, Zenon
<1> QED
  BY <1>2, EntriesType

\* The consoles and entries that a walk finds.
LEMMA EntryAt ==
    ASSUME TypeOK, NEW p \in DOMAIN consoles, NEW j \in DOMAIN entries[consoles[p]]
    PROVE  /\ p \in Nat \ {0} /\ j \in Nat \ {0} /\ consoles[p] \in Names
           /\ entries[consoles[p]][j] \in Entry
<1>1. p \in Nat \ {0} /\ consoles[p] \in Names
  BY DEF TypeOK
<1>2. entries[consoles[p]] \in Seq(Entry)
  BY <1>1 DEF TypeOK
<1> QED
  BY <1>1, <1>2

LEMMA TopType ==
    ASSUME TypeOK, stack # <<>>
    PROVE  /\ Top \in Frame
           /\ Top.what = "js" => Top \in JSFrame
           /\ Top.what = "walk" => Top \in WalkFrame
           /\ Below(stack) \in Seq(Frame)
  BY Popped DEF TypeOK, Top, Frame, JSFrame, WalkFrame

\* The walk goes on with places that it can have.
LEMMA CalledFrame ==
    ASSUME TypeOK, Walking, NEW p \in DOMAIN consoles, NEW j \in DOMAIN entries[consoles[p]],
           NEW e, e = entries[consoles[p]][j]
    PROVE  [Top EXCEPT !.at = p, !.from = AfterCall(e, j), !.due = @ \ {e.id},
                       !.done = IF e.persistant THEN @ \cup {e.id} ELSE @] \in WalkFrame
<1>1. p \in Nat \ {0} /\ j \in Nat \ {0} /\ e \in Entry
  BY EntryAt
<1>2. Top \in WalkFrame
  BY TopType DEF Walking
<1>3. AfterCall(e, j) \in Nat \ {0}
  BY <1>1 DEF AfterCall
<1>4. e.id \in Ids
  BY <1>1 DEF Entry
<1>5. (IF e.persistant THEN Top.done \cup {e.id} ELSE Top.done) \in SUBSET Ids
  BY <1>2, <1>4 DEF WalkFrame
<1>6. ASSUME NEW q \in Nat \ {0}, NEW n \in Nat \ {0}, NEW D \in SUBSET Ids, NEW E \in SUBSET Ids
      PROVE  [Top EXCEPT !.at = q, !.from = n, !.due = D, !.done = E] \in WalkFrame
  BY <1>2 DEF WalkFrame
<1>7. Top.due \ {e.id} \in SUBSET Ids
  BY <1>2 DEF WalkFrame
<1> QED
  BY <1>1, <1>3, <1>5, <1>6, <1>7

LEMMA HeadType ==
    ASSUME TypeOK, queue # <<>>
    PROVE  Head(queue).con \in Names /\ Head(queue).id \in Ids /\ Head(queue).kind \in Listened
<1>1. ASSUME NEW S, queue \in Seq(S) PROVE Head(queue) \in S
  BY <1>1
<1>2. queue \in Seq([con : Names, id : Ids, kind : Listened])
  BY DEF TypeOK
<1>3. Head(queue) \in [con : Names, id : Ids, kind : Listened]
  BY <1>1, <1>2
<1> QED
  BY <1>3

LEMMA InitType == Init => TypeOK
  BY DEF Init, TypeOK, Faults, Walked

LEMMA StepType == TypeOK /\ [Next]_vars => TypeOK'
<1> SUFFICES ASSUME TypeOK, [Next]_vars PROVE TypeOK'
  OBVIOUS
<1>0. stack \in Seq(Frame)
  BY DEF TypeOK, Frame
<1>1. ASSUME NEW k \in Walked, StartWalk(k) PROVE TypeOK'
  <2>1. [what |-> "walk", kind |-> k, at |-> 1, from |-> 1, done |-> {},
         due |-> {i \in Ids : \E c \in Names : \E j \in DOMAIN entries[c] :
                     entries[c][j].id = i /\ Wanted(entries[c][j], k)}] \in WalkFrame
    BY DEF WalkFrame
  <2>2. stack' \in Seq(JSFrame \cup WalkFrame)
    BY <1>0, <1>1, <2>1 DEF StartWalk, Frame
  <2> QED
    BY <1>1, <2>2 DEF StartWalk, TypeOK
<1>2. CASE CallNext
  <2> DEFINE Called(p, j) ==
               LET c == consoles[p]
                   e == entries[c][j]
               IN  /\ entries' = IF e.persistant THEN entries
                                 ELSE [entries EXCEPT ![c] = RemoveAt(@, j)]
                   /\ setActive' = [setActive EXCEPT ![Top.kind] = TRUE]
                   /\ stack' = Call(Append(Below(stack),
                         [Top EXCEPT !.at = p, !.from = AfterCall(e, j),
                                     !.due = @ \ {e.id},
                                     !.done = IF e.persistant THEN @ \cup {e.id} ELSE @]), c)
  <2>0. PICK p \in DOMAIN consoles : \E j \in DOMAIN entries[consoles[p]] : Called(p, j)
    BY <1>2 DEF CallNext
  <2>1. PICK j \in DOMAIN entries[consoles[p]] : Called(p, j)
    BY <2>0
  <2>2. /\ p \in Nat \ {0} /\ j \in Nat \ {0} /\ consoles[p] \in Names
        /\ entries[consoles[p]][j] \in Entry
    BY EntryAt
  <2>3. entries[consoles[p]][j] \in Entry
    BY <2>2
  <2>4. Top \in WalkFrame /\ Below(stack) \in Seq(Frame)
    BY <1>2, TopType DEF CallNext, Walking
  <2>5. [Top EXCEPT !.at = p, !.from = AfterCall(entries[consoles[p]][j], j),
                    !.due = @ \ {entries[consoles[p]][j].id},
                    !.done = IF entries[consoles[p]][j].persistant
                             THEN @ \cup {entries[consoles[p]][j].id} ELSE @] \in WalkFrame
    BY <1>2, CalledFrame DEF CallNext
  <2>6. stack' \in Seq(Frame)
    <3>1. Append(Below(stack), [Top EXCEPT !.at = p, !.from = AfterCall(entries[consoles[p]][j], j),
                    !.due = @ \ {entries[consoles[p]][j].id},
                    !.done = IF entries[consoles[p]][j].persistant
                             THEN @ \cup {entries[consoles[p]][j].id} ELSE @]) \in Seq(Frame)
      BY <2>4, <2>5, PushType DEF Frame
    <3> QED
      BY <2>1, <2>2, <3>1, CallType
  <2>7. entries' \in [Names -> Seq(Entry)]
    BY <2>1, <2>2, EraseType DEF TypeOK
  <2> QED
    BY <1>2, <2>1, <2>6, <2>7 DEF CallNext, TypeOK, Frame
<1>3. CASE EndWalk
  <2>1. stack' \in Seq(Frame)
    BY <1>3, TopType DEF EndWalk, Walking
  <2>2. setActive' \in [Walked -> BOOLEAN]
    <3> DEFINE seen == \E p \in DOMAIN consoles : \E j \in DOMAIN entries[consoles[p]] :
                          IsAhead(Top, p, j) /\ entries[consoles[p]][j].kind = Top.kind
    <3>1. setActive' = [setActive EXCEPT ![Top.kind] = setActive[Top.kind] \/ seen]
      BY <1>3 DEF EndWalk
    <3>2. (setActive[Top.kind] \/ seen) \in BOOLEAN
      OBVIOUS
    <3> HIDE DEF seen
    <3> QED
      BY <3>1, <3>2 DEF TypeOK
  <2> QED
    BY <1>3, <2>1, <2>2 DEF EndWalk, TypeOK, Frame
<1>4. ASSUME NEW c \in Names, NEW j \in DOMAIN entries[c], TimerFires(c, j) PROVE TypeOK'
  <2>1. entries' \in [Names -> Seq(Entry)]
    BY <1>4, EraseType DEF TimerFires, TypeOK
  <2>2. stack' \in Seq(Frame)
    BY <1>0, <1>4, CallType DEF TimerFires
  <2> QED
    BY <1>4, <2>1, <2>2 DEF TimerFires, TypeOK, Frame
<1>5. ASSUME NEW c \in Names, NEW j \in DOMAIN entries[c], Post(c, j) PROVE TypeOK'
  <2>1. entries[c][j] \in Entry
    BY DEF TypeOK
  <2>2. queue' \in Seq([con : Names, id : Ids, kind : Listened])
    BY <1>5, <2>1 DEF Post, TypeOK, Entry
  <2> QED
    BY <1>5, <2>2 DEF Post, TypeOK
<1>6. CASE Observed
  <2> DEFINE c == Head(queue).con
             found == {j \in DOMAIN entries[c] : entries[c][j].id = Head(queue).id}
  <2>1. c \in Names /\ queue' \in Seq([con : Names, id : Ids, kind : Listened])
    <3>1. queue # <<>> /\ queue' = Tail(queue)
      BY <1>6 DEF Observed
    <3>2. ASSUME NEW S, queue \in Seq(S) PROVE Head(queue) \in S /\ Tail(queue) \in Seq(S)
      BY <3>1, <3>2
    <3>3. queue \in Seq([con : Names, id : Ids, kind : Listened])
      BY DEF TypeOK
    <3>4. Head(queue) \in [con : Names, id : Ids, kind : Listened]
      BY <3>2, <3>3
    <3> QED
      BY <3>1, <3>2, <3>3, <3>4
  <2>2. CASE found = {}
    BY <1>6, <2>1, <2>2 DEF Observed, TypeOK, Faults
  <2>3. CASE found # {}
    <3>1. PICK j \in found :
             entries' = IF entries[c][j].persistant THEN entries
                        ELSE [entries EXCEPT ![c] = RemoveAt(@, j)]
      BY <1>6, <2>3 DEF Observed
    <3>2. stack' = Call(stack, c) /\ UNCHANGED <<fault, consoles, setActive>>
      BY <1>6, <2>3 DEF Observed
    <3>3. entries' \in [Names -> Seq(Entry)]
      BY <2>1, <3>1, EraseType DEF TypeOK
    <3>4. stack' \in Seq(Frame)
      BY <1>0, <2>1, <3>2, CallType
    <3> QED
      BY <2>1, <3>2, <3>3, <3>4 DEF TypeOK, Frame
  <2> QED
    BY <2>2, <2>3
<1>7. ASSUME NEW p \in DOMAIN consoles, StartMain(consoles[p]) PROVE TypeOK'
  <2>1. stack' \in Seq(Frame)
    BY <1>0, <1>7, CallType DEF StartMain, TypeOK
  <2> QED
    BY <1>7, <2>1 DEF StartMain, TypeOK, Frame
<1>8. ASSUME NEW p \in DOMAIN consoles, CloseConsole(p) PROVE TypeOK'
  <2>1. consoles' \in Seq(Names)
    BY <1>8, Erase DEF CloseConsole, TypeOK
  <2>2. entries' \in [Names -> Seq(Entry)]
    BY <1>8 DEF CloseConsole, TypeOK
  <2> QED
    BY <1>8, <2>1, <2>2 DEF CloseConsole, ConsolesChange, TypeOK, Faults
<1>9. ASSUME NEW k \in Kinds, NEW persistant \in BOOLEAN, NEW wanted \in BOOLEAN,
             Subscribe(k, persistant, wanted)
      PROVE  TypeOK'
  <2>1. Top.con \in Names
    BY <1>9, TopType DEF Subscribe, NewEntry, JSRunning, JSFrame
  <2>2. (CHOOSE i \in Ids : i \notin IdsInUse) \in Ids
    BY <1>9 DEF Subscribe, NewEntry, IdsInUse
  <2> DEFINE e == [id |-> CHOOSE i \in Ids : i \notin IdsInUse, kind |-> k,
                   persistant |-> persistant, wanted |-> wanted]
  <2>3. entries' \in [Names -> Seq(Entry)]
    <3>1. e \in Entry
      BY <2>2 DEF Entry
    <3>2. entries[Top.con] \in Seq(Entry)
      BY <2>1 DEF TypeOK
    <3>3. Append(entries[Top.con], e) \in Seq(Entry)
      BY <3>1, <3>2
    <3>4. entries' = [entries EXCEPT ![Top.con] = Append(entries[Top.con], e)]
      BY <1>9 DEF Subscribe, NewEntry
    <3> QED
      BY <3>3, <3>4, EntriesType
  <2> QED
    BY <1>9, <2>3 DEF Subscribe, NewEntry, TypeOK
<1>10. ASSUME NEW j \in 1 .. MaxEntries, Cancel(j) PROVE TypeOK'
  <2>1. Top.con \in Names
    BY <1>10, TopType DEF Cancel, JSRunning, JSFrame
  <2>2. entries' \in [Names -> Seq(Entry)]
    BY <1>10, <2>1, EraseType DEF Cancel
  <2> QED
    BY <1>10, <2>2 DEF Cancel, TypeOK
<1>11. CASE OpenBox \/ CloseBox
  <2>1. stack # <<>> /\ Top.what = "js"
    BY <1>11, TopType DEF OpenBox, CloseBox, JSRunning, InEventLoop, Walking, Frame, JSFrame, WalkFrame
  <2>2. \A b \in BOOLEAN : [Top EXCEPT !.box = b] \in JSFrame
    BY <2>1, TopType DEF JSFrame
  <2>3. stack' \in Seq(Frame)
    <3>1. \A b \in BOOLEAN : Append(Below(stack), [Top EXCEPT !.box = b]) \in Seq(Frame)
      BY <2>1, <2>2, TopType, PushType DEF Frame
    <3> QED
      BY <1>11, <3>1 DEF OpenBox, CloseBox
  <2> QED
    BY <1>11, <2>3 DEF OpenBox, CloseBox, TypeOK, Frame
<1>12. CASE Return \/ Fail
  <2>1. stack' \in Seq(Frame) /\ Top.con \in Names
    BY <1>12, TopType DEF Return, Fail, JSRunning, JSFrame
  <2>2. entries' \in [Names -> Seq(Entry)]
    <3>1. CASE Return
      BY <3>1 DEF Return, TypeOK
    <3>2. CASE Fail
      <4>1. entries' = [entries EXCEPT ![Top.con] = <<>>]
        BY <3>2 DEF Fail
      <4>2. <<>> \in Seq(Entry)
        OBVIOUS
      <4> QED
        BY <4>1, <4>2, EntriesType
    <3> QED
      BY <1>12, <3>1, <3>2
  <2> QED
    BY <1>12, <2>1, <2>2 DEF Return, Fail, TypeOK, Frame
<1>13. ASSUME NEW c \in Names, AddConsole(c) PROVE TypeOK'
  BY <1>13 DEF AddConsole, ConsolesChange, TypeOK, Faults
<1>14. CASE UNCHANGED vars
  BY <1>14 DEF vars, TypeOK
<1> QED
  BY <1>1, <1>2, <1>3, <1>4, <1>5, <1>6, <1>7, <1>8, <1>9, <1>10, <1>11, <1>12,
     <1>13, <1>14 DEF Next

\* Every variable keeps its type: the vectors hold entries and consoles, the
\* places of a walk are never before the first entry (JavaScript_pi.cpp:540,
\* where the index is unsigned and is decremented past zero).
THEOREM DispatchTypeCorrect == Spec => []TypeOK
<1> QED
  BY InitType, StepType, PTL DEF Spec

-----------------------------------------------------------------------------
(* The status bits *)

\* Only consoles that are there have callback entries, and run scripts: a walk
\* of m_consoles meets every entry there is.
OpenConsoles ==
    /\ \A m \in DOMAIN stack : stack[m].what = "js" => stack[m].con \in Range(consoles)
    /\ \A c \in Names : entries[c] # <<>> => c \in Range(consoles)

FilterInv == TypeOK /\ OpenConsoles /\ FilterCoversSubscribers

\* Nobody has subscribed: each entry was there before.
NoneNew == \A c \in Names : \A j \in DOMAIN entries'[c] :
              \E i \in DOMAIN entries[c] : entries'[c][j] = entries[c][i]

LEMMA SameIsNoneNew == ASSUME UNCHANGED entries PROVE NoneNew
  BY DEF NoneNew

LEMMA EraseIsNoneNew ==
    ASSUME TypeOK, NEW c \in Names, NEW j \in DOMAIN entries[c],
           entries' = [entries EXCEPT ![c] = RemoveAt(@, j)]
    PROVE  NoneNew
<1>1. entries[c] \in Seq(Entry) /\ entries \in [Names -> Seq(Entry)]
  BY DEF TypeOK
<1>2. /\ RemoveAt(entries[c], j) \in Seq(Entry)
      /\ Len(RemoveAt(entries[c], j)) = Len(entries[c]) - 1
      /\ \A n \in 1 .. Len(entries[c]) - 1 :
           RemoveAt(entries[c], j)[n] = IF n < j THEN entries[c][n] ELSE entries[c][n + 1]
  BY <1>1, Erase, Zenon
<1>3. ASSUME NEW n \in DOMAIN RemoveAt(entries[c], j)
      PROVE  \E i \in DOMAIN entries[c] : RemoveAt(entries[c], j)[n] = entries[c][i]
  <2>1. n \in 1 .. Len(entries[c]) - 1 /\ DOMAIN entries[c] = 1 .. Len(entries[c])
    BY <1>1, <1>2
  <2>2. n \in DOMAIN entries[c] /\ n + 1 \in DOMAIN entries[c]
    BY <1>1, <2>1
  <2> QED
    BY <1>2, <2>1, <2>2
<1>4. ASSUME NEW d \in Names, d # c PROVE entries'[d] = entries[d]
  BY <1>1, <1>4
<1>5. entries'[c] = RemoveAt(entries[c], j)
  BY <1>1
<1> QED
  BY <1>3, <1>4, <1>5 DEF NoneNew

LEMMA ClearIsNoneNew ==
    ASSUME TypeOK, NEW c, entries' = [entries EXCEPT ![c] = <<>>]
    PROVE  NoneNew
<1>1. DOMAIN <<>> = {}
  OBVIOUS
<1>2. ASSUME NEW d \in Names PROVE entries'[d] = entries[d] \/ entries'[d] = <<>>
  BY DEF TypeOK
<1> QED
  BY <1>1, <1>2 DEF NoneNew

\* A console that has entries had some before.
LEMMA NoneNewInNone ==
    ASSUME TypeOK', NoneNew, NEW c \in Names, entries'[c] # <<>>
    PROVE  entries[c] # <<>>
<1>1. entries'[c] \in Seq(Entry)
  BY DEF TypeOK
<1>2. 1 \in DOMAIN entries'[c]
  BY <1>1, NotEmpty
<1>3. DOMAIN <<>> = {}
  OBVIOUS
<1> QED
  BY <1>2, <1>3 DEF NoneNew

\* If nobody has subscribed, a bit that stays and a walk that has not begun
\* calling are all that counts.
LEMMA FilterKept ==
    ASSUME FilterCoversSubscribers, NoneNew,
           \A k \in Walked : setActive[k] => setActive'[k],
           \A k \in Walked : JustStarted(k) =>
              \/ setActive'[k]
              \/ \A c \in Names : \A j \in DOMAIN entries[c] : entries[c][j].kind # k
    PROVE  FilterCoversSubscribers'
<1> SUFFICES ASSUME NEW k \in Walked
             PROVE  \/ setActive'[k]
                    \/ \A c \in Names : \A j \in DOMAIN entries'[c] : entries'[c][j].kind # k
  BY DEF FilterCoversSubscribers
<1>1. \/ setActive'[k]
      \/ \A c \in Names : \A j \in DOMAIN entries[c] : entries[c][j].kind # k
  BY DEF FilterCoversSubscribers
<1> QED
  BY <1>1 DEF NoneNew

\* The stack grows by a call for a console that is there, or shrinks.
LEMMA CallOpen ==
    ASSUME NEW s \in Seq(Frame), NEW c, c \in Range(consoles'),
           \A m \in DOMAIN s : s[m].what = "js" => s[m].con \in Range(consoles'),
           stack' = Call(s, c)
    PROVE  \A m \in DOMAIN stack' : stack'[m].what = "js" => stack'[m].con \in Range(consoles')
<1> DEFINE f == [what |-> "js", con |-> c, box |-> FALSE]
<1>1. stack' = Append(s, f) /\ f.con = c
  BY DEF Call
<1>2. /\ DOMAIN Append(s, f) = 1 .. Len(s) + 1
      /\ \A m \in 1 .. Len(s) : Append(s, f)[m] = s[m]
      /\ Append(s, f)[Len(s) + 1] = f
      /\ DOMAIN s = 1 .. Len(s)
      /\ Len(s) \in Nat
  OBVIOUS
<1>3. ASSUME NEW m \in 1 .. Len(s) + 1 PROVE m \in 1 .. Len(s) \/ m = Len(s) + 1
  BY <1>2
<1> HIDE DEF f
<1> QED
  BY <1>1, <1>2, <1>3

LEMMA BelowOpen ==
    ASSUME NEW s \in Seq(Frame), s # <<>>,
           \A m \in DOMAIN s : s[m].what = "js" => s[m].con \in Range(consoles)
    PROVE  \A m \in DOMAIN Below(s) : Below(s)[m].what = "js" => Below(s)[m].con \in Range(consoles)
<1>1. /\ DOMAIN Below(s) = 1 .. Len(s) - 1
      /\ \A m \in 1 .. Len(s) - 1 : Below(s)[m] = s[m] /\ m \in DOMAIN s
  BY Popped
<1> QED
  BY <1>1

\* Another frame on top.
LEMMA TopOpen ==
    ASSUME NEW s \in Seq(Frame), NEW f, f.what = "js" => f.con \in Range(consoles),
           \A m \in DOMAIN s : s[m].what = "js" => s[m].con \in Range(consoles)
    PROVE  \A m \in DOMAIN Append(s, f) :
              Append(s, f)[m].what = "js" => Append(s, f)[m].con \in Range(consoles)
<1>1. /\ DOMAIN Append(s, f) = 1 .. Len(s) + 1
      /\ \A m \in 1 .. Len(s) : Append(s, f)[m] = s[m]
      /\ Append(s, f)[Len(s) + 1] = f
      /\ DOMAIN s = 1 .. Len(s)
      /\ Len(s) \in Nat
  OBVIOUS
<1>2. ASSUME NEW m \in 1 .. Len(s) + 1 PROVE m \in 1 .. Len(s) \/ m = Len(s) + 1
  BY <1>1
<1> QED
  BY <1>1, <1>2

LEMMA InitFilter == Init => FilterInv
<1> SUFFICES ASSUME Init PROVE OpenConsoles /\ FilterCoversSubscribers
  BY InitType DEF FilterInv
<1>1. DOMAIN <<>> = {} /\ stack = <<>> /\ \A c \in Names : entries[c] = <<>>
  BY DEF Init
<1> QED
  BY <1>1 DEF OpenConsoles, FilterCoversSubscribers

\* Where a step does not walk, nobody has just started one.
LEMMA NotWalking == ASSUME NEW k, JustStarted(k) PROVE Walking /\ Top.kind = k
  BY DEF JustStarted

\* A console that is there stays when another is added.
LEMMA AddedStays == ASSUME TypeOK, NEW c \in Names, consoles' = Append(consoles, c)
                    PROVE  Range(consoles) \subseteq Range(consoles')
<1>1. consoles \in Seq(Names)
  BY DEF TypeOK
<1>2. /\ DOMAIN consoles \subseteq DOMAIN consoles'
      /\ \A p \in DOMAIN consoles : consoles'[p] = consoles[p]
  BY <1>1
<1> QED
  BY <1>2 DEF Range

\* Every console but the one closed stays.
LEMMA ClosedStays ==
    ASSUME TypeOK, NEW p \in DOMAIN consoles, consoles' = RemoveAt(consoles, p),
           NEW c \in Range(consoles), c # consoles[p]
    PROVE  c \in Range(consoles')
<1>1. consoles \in Seq(Names)
  BY DEF TypeOK
<1>2. PICK q \in DOMAIN consoles : consoles[q] = c
  BY DEF Range
<1>3. /\ consoles' \in Seq(Names) /\ Len(consoles') = Len(consoles) - 1
      /\ \A n \in 1 .. Len(consoles) - 1 :
           consoles'[n] = IF n < p THEN consoles[n] ELSE consoles[n + 1]
  BY <1>1, Erase, Zenon
<1>4. /\ DOMAIN consoles = 1 .. Len(consoles) /\ DOMAIN consoles' = 1 .. Len(consoles')
      /\ Len(consoles) \in Nat
  BY <1>1, <1>3
<1>5. q # p
  BY <1>2
<1>6. CASE q < p
  <2>1. q \in DOMAIN consoles' /\ q \in 1 .. Len(consoles) - 1
    BY <1>3, <1>4, <1>6
  <2>2. consoles'[q] = c
    BY <1>2, <1>3, <1>6, <2>1
  <2> QED
    BY <2>1, <2>2 DEF Range
<1>7. CASE q > p
  <2>1. q - 1 \in DOMAIN consoles' /\ q - 1 \in 1 .. Len(consoles) - 1
    BY <1>3, <1>4, <1>7
  <2>2. ~(q - 1 < p) /\ (q - 1) + 1 = q
    BY <1>4, <1>7
  <2>3. consoles'[q - 1] = c
    BY <1>2, <1>3, <2>1, <2>2
  <2> QED
    BY <2>1, <2>3 DEF Range
<1> QED
  BY <1>4, <1>5, <1>6, <1>7

LEMMA StepFilter == FilterInv /\ [Next]_vars => FilterInv'
<1> SUFFICES ASSUME FilterInv, [Next]_vars PROVE OpenConsoles' /\ FilterCoversSubscribers'
  BY StepType DEF FilterInv
<1> USE DEF FilterInv
<1>t. TypeOK'
  BY StepType
<1>s. stack \in Seq(Frame) /\ entries \in [Names -> Seq(Entry)]
  BY DEF TypeOK, Frame
<1>o. /\ \A m \in DOMAIN stack : stack[m].what = "js" => stack[m].con \in Range(consoles)
      /\ \A c \in Names : entries[c] # <<>> => c \in Range(consoles)
  BY DEF OpenConsoles
<1>b. stack # <<>> =>
        /\ \A m \in DOMAIN Below(stack) :
              Below(stack)[m].what = "js" => Below(stack)[m].con \in Range(consoles)
        /\ Below(stack) \in Seq(Frame)
        /\ Top.what = "js" => Top.con \in Range(consoles) /\ Top.con \in Names
  <2>1. ASSUME stack # <<>> PROVE Len(stack) \in DOMAIN stack
    BY <1>s, <2>1
  <2> QED
    BY <1>s, <1>o, <2>1, BelowOpen, TopType DEF Top, JSFrame
<1>e. ASSUME NEW c \in Names, NEW j \in DOMAIN entries[c] PROVE c \in Range(consoles)
  <2>1. DOMAIN <<>> = {}
    OBVIOUS
  <2> QED
    BY <1>o, <2>1
\* The consoles with entries are there if nobody subscribed and none went.
<1>k. ASSUME NoneNew, UNCHANGED consoles
      PROVE  \A c \in Names : entries'[c] # <<>> => c \in Range(consoles')
  BY <1>t, <1>o, <1>k, NoneNewInNone
<1>1. ASSUME NEW k \in Walked, StartWalk(k) PROVE OpenConsoles' /\ FilterCoversSubscribers'
  <2>1. OpenConsoles'
    <3>1. PICK f : stack' = Append(stack, f) /\ f.what = "walk"
      BY <1>1 DEF StartWalk
    <3>2. UNCHANGED <<consoles, entries>>
      BY <1>1 DEF StartWalk
    <3> QED
      BY <1>s, <1>o, <3>1, <3>2, TopOpen DEF OpenConsoles
  <2>2. JustStarted(k)'
    <3> DEFINE due == {i \in Ids : \E c \in Names : \E j \in DOMAIN entries[c] :
                         entries[c][j].id = i /\ Wanted(entries[c][j], k)}
               f == [what |-> "walk", kind |-> k, at |-> 1, from |-> 1, done |-> {},
                     due |-> due]
    <3>1. stack' = Append(stack, f)
      BY <1>1 DEF StartWalk
    <3> HIDE DEF due
    <3>2. /\ f.what = "walk" /\ f.kind = k /\ f.at = 1 /\ f.from = 1
      OBVIOUS
    <3> HIDE DEF f
    <3>3. Append(stack, f) # <<>> /\ Append(stack, f)[Len(Append(stack, f))] = f
      BY <1>s
    <3> QED
      BY <3>1, <3>2, <3>3 DEF JustStarted, Walking, Top
  <2>3. ASSUME NEW l \in Walked, l # k
        PROVE  setActive'[l] \/ \A c \in Names : \A j \in DOMAIN entries'[c] : entries'[c][j].kind # l
    <3>1. setActive'[l] = setActive[l] /\ UNCHANGED entries
      BY <1>1, <2>3 DEF StartWalk, TypeOK
    <3>2. ~JustStarted(l)
      BY <1>1, NotWalking DEF StartWalk, InEventLoop
    <3> QED
      BY <3>1, <3>2 DEF FilterCoversSubscribers
  <2> QED
    BY <2>1, <2>2, <2>3 DEF FilterCoversSubscribers
<1>2. CASE CallNext
  <2> DEFINE Called(p, j, e) ==
               [Top EXCEPT !.at = p, !.from = AfterCall(e, j), !.due = @ \ {e.id},
                           !.done = IF e.persistant THEN @ \cup {e.id} ELSE @]
  <2>1. PICK p \in DOMAIN consoles :
           \E j \in DOMAIN entries[consoles[p]] :
              /\ entries' = IF entries[consoles[p]][j].persistant THEN entries
                            ELSE [entries EXCEPT ![consoles[p]] = RemoveAt(@, j)]
              /\ stack' = Call(Append(Below(stack), Called(p, j, entries[consoles[p]][j])),
                              consoles[p])
    BY <1>2 DEF CallNext
  <2>2. PICK j \in DOMAIN entries[consoles[p]] :
              /\ entries' = IF entries[consoles[p]][j].persistant THEN entries
                            ELSE [entries EXCEPT ![consoles[p]] = RemoveAt(@, j)]
              /\ stack' = Call(Append(Below(stack), Called(p, j, entries[consoles[p]][j])),
                              consoles[p])
    BY <2>1
  <2>f. Called(p, j, entries[consoles[p]][j]) \in WalkFrame
    BY <1>2, CalledFrame DEF CallNext
  <2> HIDE DEF Called
  <2>3. PICK f \in WalkFrame : stack' = Call(Append(Below(stack), f), consoles[p])
    BY <2>2, <2>f
  <2>4. NoneNew
    BY <2>2, EntryAt, EraseIsNoneNew, SameIsNoneNew
  <2>5. stack # <<>> /\ UNCHANGED consoles /\ f.what = "walk" /\ f \in Frame
    BY <1>2, <2>3 DEF CallNext, Walking, WalkFrame, Frame
  <2>6. OpenConsoles'
    <3>1. \A m \in DOMAIN Append(Below(stack), f) :
             Append(Below(stack), f)[m].what = "js"
               => Append(Below(stack), f)[m].con \in Range(consoles)
      BY <1>b, <2>5, TopOpen
    <3>2. Append(Below(stack), f) \in Seq(Frame) /\ consoles[p] \in Range(consoles)
      BY <1>b, <2>5, PushType DEF Range
    <3> QED
      BY <1>k, <2>3, <2>4, <2>5, <3>1, <3>2, CallOpen DEF OpenConsoles
  <2>7. FilterCoversSubscribers'
    <3>1. setActive' = [setActive EXCEPT ![Top.kind] = TRUE] /\ Top.kind \in Walked
      BY <1>2, TopType DEF CallNext, Walking, WalkFrame
    <3>2. /\ \A k \in Walked : setActive[k] => setActive'[k]
          /\ setActive'[Top.kind]
      BY <3>1 DEF TypeOK
    <3> QED
      BY <2>4, <3>2, FilterKept, NotWalking
  <2> QED
    BY <2>6, <2>7
<1>3. CASE EndWalk
  <2>1. stack # <<>> /\ Walking /\ stack' = Below(stack) /\ UNCHANGED <<consoles, entries>>
    BY <1>3 DEF EndWalk, Walking
  <2>2. OpenConsoles'
    BY <1>b, <1>o, <2>1 DEF OpenConsoles
  <2> DEFINE seen == \E p \in DOMAIN consoles : \E j \in DOMAIN entries[consoles[p]] :
                        IsAhead(Top, p, j) /\ entries[consoles[p]][j].kind = Top.kind
  <2>3. setActive' = [setActive EXCEPT ![Top.kind] = setActive[Top.kind] \/ seen]
    BY <1>3 DEF EndWalk
  <2>4. Top.kind \in Walked
    BY <2>1, TopType DEF Walking, WalkFrame
  \* A walk that has called nobody has looked at every entry.
  <2>5. ASSUME JustStarted(Top.kind), NEW c \in Names, NEW j \in DOMAIN entries[c],
               entries[c][j].kind = Top.kind
        PROVE  seen
    <3>1. c \in Range(consoles)
      BY <1>e
    <3>2. PICK p \in DOMAIN consoles : consoles[p] = c
      BY <3>1 DEF Range
    <3>3. p \in Nat \ {0} /\ j \in Nat \ {0}
      BY <3>2, EntryAt
    <3>4. IsAhead(Top, p, j)
      BY <2>5, <3>3 DEF JustStarted, IsAhead
    <3> QED
      BY <2>5, <3>2, <3>4
  <2> HIDE DEF seen
  <2>6. \A k \in Walked : setActive'[k] = (setActive[k] \/ (k = Top.kind /\ seen))
    BY <2>3 DEF TypeOK
  <2>7. FilterCoversSubscribers'
    <3>1. \A k \in Walked : JustStarted(k) =>
             \/ setActive'[k]
             \/ \A c \in Names : \A j \in DOMAIN entries[c] : entries[c][j].kind # k
      BY <2>5, <2>6, NotWalking
    <3> QED
      BY <2>1, <2>6, <3>1, FilterKept, SameIsNoneNew
  <2> QED
    BY <2>2, <2>7
\* A step that does not walk, subscribes nobody and leaves the bits alone.
<1>u. ASSUME ~Walking, NoneNew, UNCHANGED setActive PROVE FilterCoversSubscribers'
  BY <1>u, FilterKept, NotWalking
<1>4. ASSUME NEW c \in Names, NEW j \in DOMAIN entries[c], TimerFires(c, j)
      PROVE  OpenConsoles' /\ FilterCoversSubscribers'
  <2>1. /\ ~Walking /\ stack' = Call(stack, c) /\ UNCHANGED <<consoles, setActive>>
        /\ entries' = entries \/ entries' = [entries EXCEPT ![c] = RemoveAt(@, j)]
    BY <1>4 DEF TimerFires, InEventLoop
  <2>2. NoneNew
    BY <2>1, SameIsNoneNew, EraseIsNoneNew
  <2>3. c \in Range(consoles)
    BY <1>e
  <2> QED
    BY <1>s, <1>o, <1>k, <1>u, <2>1, <2>2, <2>3, CallOpen DEF OpenConsoles
<1>5. ASSUME NEW c \in Names, NEW j \in DOMAIN entries[c], Post(c, j)
      PROVE  OpenConsoles' /\ FilterCoversSubscribers'
  BY <1>5, <1>o, <1>u, SameIsNoneNew DEF Post, OpenConsoles
<1>6. CASE Observed
  <2> DEFINE c == Head(queue).con
             found == {j \in DOMAIN entries[c] : entries[c][j].id = Head(queue).id}
  <2>1. ~Walking /\ UNCHANGED <<consoles, setActive>>
    BY <1>6 DEF Observed, InEventLoop
  <2>2. CASE found = {}
    <3>1. UNCHANGED <<entries, stack>>
      BY <1>6, <2>2 DEF Observed
    <3> QED
      BY <1>o, <1>u, <2>1, <3>1, SameIsNoneNew DEF OpenConsoles
  <2>3. CASE found # {}
    <3>1. PICK j \in found :
             entries' = IF entries[c][j].persistant THEN entries
                        ELSE [entries EXCEPT ![c] = RemoveAt(@, j)]
      BY <1>6, <2>3 DEF Observed
    <3>2. stack' = Call(stack, c)
      BY <1>6, <2>3 DEF Observed
    <3>3. c \in Names
      BY <1>6, HeadType DEF Observed
    <3>4. NoneNew
      BY <3>1, <3>3, SameIsNoneNew, EraseIsNoneNew
    <3>5. c \in Range(consoles)
      BY <1>e, <3>1, <3>3
    <3> QED
      BY <1>s, <1>o, <1>k, <1>u, <2>1, <3>2, <3>4, <3>5, CallOpen DEF OpenConsoles
  <2> QED
    BY <2>2, <2>3
<1>7. ASSUME NEW p \in DOMAIN consoles, StartMain(consoles[p])
      PROVE  OpenConsoles' /\ FilterCoversSubscribers'
  <2>1. /\ ~Walking /\ stack' = Call(stack, consoles[p])
        /\ UNCHANGED <<consoles, entries, setActive>>
    BY <1>7 DEF StartMain, InEventLoop
  <2>2. consoles[p] \in Range(consoles)
    BY DEF Range
  <2> QED
    BY <1>s, <1>o, <1>u, <2>1, <2>2, CallOpen, SameIsNoneNew DEF OpenConsoles
<1>8. ASSUME NEW p \in DOMAIN consoles, CloseConsole(p)
      PROVE  OpenConsoles' /\ FilterCoversSubscribers'
  <2>1. /\ ~Walking /\ UNCHANGED <<stack, setActive>> /\ ~OnStack(stack, consoles[p])
        /\ consoles' = RemoveAt(consoles, p)
        /\ entries' = [entries EXCEPT ![consoles[p]] = <<>>]
    BY <1>8 DEF CloseConsole, ConsolesChange
  <2>2. NoneNew /\ (\A c \in Names : entries'[c] # <<>> => c # consoles[p])
    BY <1>s, <2>1, ClearIsNoneNew
  <2>3. \A c \in Names : entries'[c] # <<>> => c \in Range(consoles')
    BY <1>t, <1>o, <2>1, <2>2, NoneNewInNone, ClosedStays
  <2>4. \A m \in DOMAIN stack : stack[m].what = "js" => stack[m].con \in Range(consoles')
    BY <1>o, <2>1, ClosedStays DEF OnStack
  <2> QED
    BY <1>u, <2>1, <2>2, <2>3, <2>4 DEF OpenConsoles
<1>9. ASSUME NEW k \in Kinds, NEW persistant \in BOOLEAN, NEW wanted \in BOOLEAN,
             Subscribe(k, persistant, wanted)
      PROVE  OpenConsoles' /\ FilterCoversSubscribers'
  <2> DEFINE d == Top.con
             e == [id |-> CHOOSE i \in Ids : i \notin IdsInUse, kind |-> k,
                   persistant |-> persistant, wanted |-> wanted]
  <2>1. /\ ~Walking /\ UNCHANGED <<consoles, stack>> /\ stack # <<>> /\ Top.what = "js"
        /\ entries' = [entries EXCEPT ![d] = Append(@, e)]
        /\ setActive' = IF k \in Walked THEN [setActive EXCEPT ![k] = TRUE] ELSE setActive
    BY <1>9 DEF Subscribe, NewEntry, JSRunning, Walking
  <2>2. d \in Names /\ d \in Range(consoles) /\ entries[d] \in Seq(Entry)
    BY <1>s, <1>b, <2>1
  <2>3. \A c \in Names : c # d => entries'[c] = entries[c]
    BY <1>s, <2>1
  <2>4. entries'[d] = Append(entries[d], e)
    BY <1>s, <2>1, <2>2
  <2>5. e.kind = k
    OBVIOUS
  <2> HIDE DEF d, e
  <2>6. \A j \in DOMAIN entries'[d] : entries'[d][j].kind # k =>
           j \in DOMAIN entries[d] /\ entries'[d][j] = entries[d][j]
    <3>1. /\ DOMAIN Append(entries[d], e) = 1 .. Len(entries[d]) + 1
          /\ \A m \in 1 .. Len(entries[d]) : Append(entries[d], e)[m] = entries[d][m]
          /\ Append(entries[d], e)[Len(entries[d]) + 1] = e
          /\ DOMAIN entries[d] = 1 .. Len(entries[d])
          /\ Len(entries[d]) \in Nat
      BY <2>2
    <3>2. ASSUME NEW m \in 1 .. Len(entries[d]) + 1
          PROVE  m \in 1 .. Len(entries[d]) \/ m = Len(entries[d]) + 1
      BY <3>1
    <3> QED
      BY <2>4, <2>5, <3>1, <3>2
  <2>7. OpenConsoles'
    BY <1>o, <2>1, <2>2, <2>3 DEF OpenConsoles
  <2>8. ASSUME NEW l \in Walked
        PROVE  setActive'[l] \/ \A c \in Names : \A j \in DOMAIN entries'[c] : entries'[c][j].kind # l
    <3>1. CASE l = k
      BY <2>1, <3>1 DEF TypeOK
    <3>2. CASE l # k
      <4>1. setActive'[l] = setActive[l]
        BY <2>1, <3>2 DEF TypeOK
      <4>2. \/ setActive[l]
            \/ \A c \in Names : \A j \in DOMAIN entries[c] : entries[c][j].kind # l
        BY <2>1, NotWalking DEF FilterCoversSubscribers
      <4>3. ASSUME \A c \in Names : \A j \in DOMAIN entries[c] : entries[c][j].kind # l,
                   NEW c \in Names, NEW j \in DOMAIN entries'[c]
            PROVE  entries'[c][j].kind # l
        <5>1. CASE c # d
          BY <2>3, <4>3, <5>1
        <5>2. CASE c = d /\ entries'[c][j].kind = k
          BY <3>2, <5>2
        <5>3. CASE c = d /\ entries'[c][j].kind # k
          BY <2>2, <2>6, <4>3, <5>3
        <5> QED
          BY <5>1, <5>2, <5>3
      <4> QED
        BY <4>1, <4>2, <4>3
    <3> QED
      BY <3>1, <3>2
  <2> QED
    BY <2>7, <2>8 DEF FilterCoversSubscribers
<1>10. ASSUME NEW j \in 1 .. MaxEntries, Cancel(j)
       PROVE  OpenConsoles' /\ FilterCoversSubscribers'
  <2>1. /\ ~Walking /\ stack # <<>> /\ Top.what = "js" /\ j \in DOMAIN entries[Top.con]
        /\ entries' = [entries EXCEPT ![Top.con] = RemoveAt(@, j)]
        /\ UNCHANGED <<consoles, setActive, stack>>
    BY <1>10 DEF Cancel, JSRunning, Walking
  <2>2. NoneNew
    BY <1>b, <2>1, EraseIsNoneNew
  <2> QED
    BY <1>o, <1>k, <1>u, <2>1, <2>2 DEF OpenConsoles
<1>11. CASE OpenBox \/ CloseBox
  <2>1. ~Walking /\ stack # <<>> /\ UNCHANGED <<consoles, entries, setActive>> /\ Top.what = "js"
    BY <1>11, TopType DEF OpenBox, CloseBox, JSRunning, InEventLoop, Walking, Frame, JSFrame, WalkFrame
  <2>2. PICK b \in BOOLEAN : stack' = Append(Below(stack), [Top EXCEPT !.box = b])
    BY <1>11 DEF OpenBox, CloseBox
  <2>3. [Top EXCEPT !.box = b].con = Top.con
    BY <2>1, TopType DEF JSFrame
  <2>4. OpenConsoles'
    BY <1>o, <1>b, <2>1, <2>2, <2>3, TopOpen DEF OpenConsoles
  <2> QED
    BY <1>u, <2>1, <2>4, SameIsNoneNew
<1>12. CASE Return \/ Fail
  <2>1. /\ ~Walking /\ stack # <<>> /\ UNCHANGED <<consoles, setActive>>
        /\ stack' = Below(stack)
        /\ entries' = entries \/ entries' = [entries EXCEPT ![Top.con] = <<>>]
    BY <1>12 DEF Return, Fail, JSRunning, Walking
  <2>2. NoneNew
    BY <2>1, SameIsNoneNew, ClearIsNoneNew
  <2> QED
    BY <1>b, <1>k, <1>u, <2>1, <2>2 DEF OpenConsoles
<1>13. ASSUME NEW c \in Names, AddConsole(c) PROVE OpenConsoles' /\ FilterCoversSubscribers'
  <2>1. ~Walking /\ consoles' = Append(consoles, c) /\ UNCHANGED <<entries, setActive, stack>>
    BY <1>13 DEF AddConsole, ConsolesChange
  <2> QED
    BY <1>o, <1>u, <2>1, AddedStays, SameIsNoneNew DEF OpenConsoles
<1>14. CASE UNCHANGED vars
  BY <1>14, <1>o DEF vars, OpenConsoles, FilterCoversSubscribers, JustStarted, Walking, Top
<1> QED
  BY <1>1, <1>2, <1>3, <1>4, <1>5, <1>6, <1>7, <1>8, <1>9, <1>10, <1>11, <1>12,
     <1>13, <1>14 DEF Next

\* Whatever handlers do, nested walks and consoles that come and go included,
\* no status bit is off while there is a subscriber, but for a walk that has
\* just begun: no subscription is lost by skipping the walk.
THEOREM FilterCorrect == Spec => []FilterCoversSubscribers
<1>1. FilterInv => FilterCoversSubscribers
  BY DEF FilterInv
<1> QED
  BY InitFilter, StepFilter, <1>1, PTL DEF Spec

-----------------------------------------------------------------------------
(* Undefined behaviour *)

\* Every handler looks whether it found its entry, and no handler adds or
\* closes consoles while m_consoles is being walked.
Guarded == Kinds \cap Unguarded = {} /\ "manageConsoles" \notin Practices

\* Subscriptions, and the events that they bring, are of the kinds there are.
DefinedInv ==
    /\ TypeOK /\ fault = "none"
    /\ \A c \in Names : \A j \in DOMAIN entries[c] : entries[c][j].kind \in Kinds
    /\ \A m \in DOMAIN queue : queue[m].kind \in Kinds

\* Only subscribing makes entries.
LEMMA OnlySubscribingAdds ==
    ASSUME TypeOK, Next
    PROVE  \/ NoneNew
           \/ \E k \in Kinds, persistant, wanted \in BOOLEAN : Subscribe(k, persistant, wanted)
<1>1. CASE UNCHANGED entries
  BY <1>1, SameIsNoneNew
<1>2. CASE CallNext
  <2>1. \E p \in DOMAIN consoles : \E j \in DOMAIN entries[consoles[p]] :
           entries' = IF entries[consoles[p]][j].persistant THEN entries
                      ELSE [entries EXCEPT ![consoles[p]] = RemoveAt(@, j)]
    BY <1>2 DEF CallNext
  <2> QED BY <2>1, EntryAt, SameIsNoneNew, EraseIsNoneNew
<1>3. ASSUME NEW c \in Names, NEW j \in DOMAIN entries[c], TimerFires(c, j) PROVE NoneNew
  BY <1>3, SameIsNoneNew, EraseIsNoneNew DEF TimerFires
<1>4. CASE Observed
  <2>1. \/ UNCHANGED entries
        \/ \E j \in DOMAIN entries[Head(queue).con] :
              entries' = IF entries[Head(queue).con][j].persistant THEN entries
                         ELSE [entries EXCEPT ![Head(queue).con] = RemoveAt(@, j)]
    BY <1>4 DEF Observed
  <2>2. Head(queue).con \in Names
    BY <1>4, HeadType DEF Observed
  <2> QED BY <2>1, <2>2, SameIsNoneNew, EraseIsNoneNew
<1>5. ASSUME NEW p \in DOMAIN consoles, CloseConsole(p) PROVE NoneNew
  BY <1>5, ClearIsNoneNew DEF CloseConsole
<1>6. ASSUME NEW j, Cancel(j) PROVE NoneNew
  <2>1. stack # <<>> /\ Top.what = "js" /\ j \in DOMAIN entries[Top.con]
        /\ entries' = [entries EXCEPT ![Top.con] = RemoveAt(@, j)]
    BY <1>6 DEF Cancel, JSRunning
  <2>2. Top.con \in Names
    BY <2>1, TopType DEF JSFrame
  <2> QED BY <2>1, <2>2, EraseIsNoneNew
<1>7. CASE Fail
  BY <1>7, ClearIsNoneNew DEF Fail
<1>8. \/ UNCHANGED entries \/ CallNext \/ Observed \/ Fail
      \/ \E c \in Names : \E j \in DOMAIN entries[c] : TimerFires(c, j)
      \/ \E p \in DOMAIN consoles : CloseConsole(p)
      \/ \E j \in 1 .. MaxEntries : Cancel(j)
      \/ \E k \in Kinds, persistant, wanted \in BOOLEAN : Subscribe(k, persistant, wanted)
  BY DEF Next, StartWalk, EndWalk, Post, StartMain, OpenBox, CloseBox, Return, AddConsole
<1> QED BY <1>1, <1>2, <1>3, <1>4, <1>5, <1>6, <1>7, <1>8

\* A subscription is the only new entry.
LEMMA SubscribedKind ==
    ASSUME TypeOK, NEW k \in Kinds, NEW persistant \in BOOLEAN, NEW wanted \in BOOLEAN,
           Subscribe(k, persistant, wanted),
           \A c \in Names : \A j \in DOMAIN entries[c] : entries[c][j].kind \in Kinds
    PROVE  \A c \in Names : \A j \in DOMAIN entries'[c] : entries'[c][j].kind \in Kinds
<1> DEFINE d == Top.con
           e == [id |-> CHOOSE i \in Ids : i \notin IdsInUse, kind |-> k,
                 persistant |-> persistant, wanted |-> wanted]
<1>1. stack # <<>> /\ Top.what = "js" /\ entries' = [entries EXCEPT ![d] = Append(@, e)]
  BY DEF Subscribe, NewEntry, JSRunning
<1>2. d \in Names /\ entries \in [Names -> Seq(Entry)] /\ entries[d] \in Seq(Entry)
  BY <1>1, TopType DEF JSFrame, TypeOK
<1>3. e.kind = k
  OBVIOUS
<1> HIDE DEF d, e
<1>4. /\ entries'[d] = Append(entries[d], e)
      /\ \A c \in Names : c # d => entries'[c] = entries[c]
  BY <1>1, <1>2
<1>5. \A j \in DOMAIN entries'[d] :
         entries'[d][j] = e \/ (j \in DOMAIN entries[d] /\ entries'[d][j] = entries[d][j])
  BY <1>2, <1>4
<1> QED BY <1>2, <1>3, <1>4, <1>5

LEMMA StepDefined ==
    ASSUME Guarded, DefinedInv, [Next]_vars
    PROVE  DefinedInv'
<1>1. TypeOK /\ TypeOK'
  BY StepType DEF DefinedInv
<1>2. \A c \in Names : \A j \in DOMAIN entries'[c] : entries'[c][j].kind \in Kinds
  <2>1. ASSUME NoneNew PROVE \A c \in Names : \A j \in DOMAIN entries'[c] : entries'[c][j].kind \in Kinds
    BY <2>1 DEF NoneNew, DefinedInv
  <2>2. CASE UNCHANGED vars
    BY <2>1, <2>2, SameIsNoneNew DEF vars
  <2>3. CASE Next
    BY <1>1, <2>1, <2>3, OnlySubscribingAdds, SubscribedKind DEF DefinedInv
  <2> QED BY <2>2, <2>3
<1>3. \A m \in DOMAIN queue' : queue'[m].kind \in Kinds
  <2>1. queue \in Seq([con : Names, id : Ids, kind : Listened])
    BY <1>1 DEF TypeOK
  <2>2. CASE UNCHANGED queue
    BY <2>2 DEF DefinedInv
  <2>3. ASSUME NEW c \in Names, NEW j \in DOMAIN entries[c], Post(c, j)
        PROVE  \A m \in DOMAIN queue' : queue'[m].kind \in Kinds
    <3>1. PICK ev : queue' = Append(queue, ev) /\ ev.kind = entries[c][j].kind
      BY <2>3 DEF Post
    <3>2. \A m \in DOMAIN queue' : queue'[m] = ev \/ (m \in DOMAIN queue /\ queue'[m] = queue[m])
      BY <2>1, <3>1
    <3> QED BY <3>1, <3>2 DEF DefinedInv
  <2>4. CASE Observed
    <3>1. queue # <<>> /\ queue' = Tail(queue)
      BY <2>4 DEF Observed
    <3>2. \A m \in DOMAIN queue' : m + 1 \in DOMAIN queue /\ queue'[m] = queue[m + 1]
      BY <2>1, <3>1
    <3> QED BY <3>2 DEF DefinedInv
  <2>5. \/ UNCHANGED queue \/ Observed
        \/ \E c \in Names : \E j \in DOMAIN entries[c] : Post(c, j)
    BY DEF Next, vars, StartWalk, CallNext, EndWalk, TimerFires, StartMain, CloseConsole,
           ConsolesChange, Subscribe, NewEntry, Cancel, OpenBox, CloseBox, Return, Fail, AddConsole
  <2> QED BY <2>2, <2>3, <2>4, <2>5
<1>4. fault' = "none"
  <2>1. CASE UNCHANGED fault
    BY <2>1 DEF DefinedInv
  <2>2. CASE Observed
    <3>1. queue # <<>>
      BY <2>2 DEF Observed
    <3>2. queue[1].kind \in Kinds /\ Head(queue) = queue[1]
      BY <1>1, <3>1, NotEmpty DEF DefinedInv, TypeOK
    <3>3. Head(queue).kind \notin Unguarded
      BY <3>2 DEF Guarded
    <3> QED BY <2>2, <3>3 DEF Observed, DefinedInv
  <2>3. CASE ConsolesChange
    BY <2>3 DEF ConsolesChange, Guarded
  <2>4. UNCHANGED fault \/ Observed \/ ConsolesChange
    BY DEF Next, vars, StartWalk, CallNext, EndWalk, TimerFires, Post, StartMain, CloseConsole,
           Subscribe, NewEntry, Cancel, OpenBox, CloseBox, Return, Fail, AddConsole
  <2> QED BY <2>1, <2>2, <2>3, <2>4
<1> QED BY <1>1, <1>2, <1>3, <1>4 DEF DefinedInv

\* No entry is dereferenced that was looked up in vain, however late an event
\* comes after its entry was cancelled or its script ended, except in the two
\* handlers that do not look; and m_consoles does not change under a walk.
THEOREM DispatchIsDefined ==
    ASSUME Guarded
    PROVE  Spec => []NoUndefinedBehaviour
<1>1. Init => DefinedInv
  <2> SUFFICES ASSUME Init PROVE DefinedInv
    OBVIOUS
  <2>1. DOMAIN <<>> = {}
    OBVIOUS
  <2>2. TypeOK
    BY InitType
  <2> QED BY <2>1, <2>2 DEF Init, DefinedInv
<1>2. DefinedInv /\ [Next]_vars => DefinedInv'
  BY StepDefined
<1>3. DefinedInv => NoUndefinedBehaviour
  BY DEF DefinedInv, NoUndefinedBehaviour
<1> QED BY <1>1, <1>2, <1>3, PTL DEF Spec
=============================================================================
