---------------------------- MODULE ParkingProofs ----------------------------
(***************************************************************************)
(* The row of parked consoles, for every number of consoles and every      *)
(* geometry: types, that only consoles with a space are put into it, that  *)
(* the row has neither gaps nor overlaps and keeps its order, and that a   *)
(* restart moves nothing.  The length of the row is a sum over a set; what *)
(* that is comes first.                                                    *)
(***************************************************************************)
EXTENDS ParkingInv, FiniteSetTheorems, TLAPS

-----------------------------------------------------------------------------
(* The length of the row: a sum over a set, by minimal counterexamples *)

\* A finite set has a minimal element among any of its subsets.
LEMMA MinimalSubset ==
    ASSUME NEW S, IsFiniteSet(S), NEW B, B \subseteq SUBSET S, B # {}
    PROVE  \E T \in B : \A U \in B : U \subseteq T => U = T
<1>1. IsWellFoundedOn(StrictSubsetOrdering(S), SUBSET S)
  BY FS_StrictSubsetOrderingWellFounded, FS_FiniteSubsetsOfFinite
<1>2. PICK T \in B : \A U \in B : ~ (<<U, T>> \in StrictSubsetOrdering(S))
  BY <1>1, WFMin
<1>3. ASSUME NEW U \in B, U \subseteq T PROVE U = T
  <2>1. <<U, T>> \notin StrictSubsetOrdering(S)
    BY <1>2
  <2> QED BY <1>3, <2>1 DEF StrictSubsetOrdering
<1> QED BY <1>3

\* The recursive function that RowLength() is a value of.
First(s) == CHOOSE x \in s : TRUE
LengthAt(l, s, f) == IF s = {} THEN 0 ELSE l[First(s)].w + Sep + f[s \ {First(s)}]
Lengths(l, T, f) == f = [s \in SUBSET T |-> LengthAt(l, s, f)]

LEMMA RowLengthIs ==
    ASSUME NEW l, NEW T PROVE RowLength(l, T) = (CHOOSE f : Lengths(l, T, f))[T]
  BY DEF RowLength, Lengths, LengthAt, First, MapThenSumSet, MapThenFoldSet

LEMMA LengthsAgree ==
    ASSUME NEW l, NEW T, IsFiniteSet(T), NEW U, NEW f, NEW g,
           Lengths(l, T, f), Lengths(l, U, g), NEW s, s \subseteq T, s \subseteq U
    PROVE  f[s] = g[s]
<1> DEFINE B == {t \in SUBSET T : t \subseteq U /\ f[t] # g[t]}
<1>1. SUFFICES ASSUME B # {} PROVE FALSE
  OBVIOUS
<1>2. PICK t \in B : \A u \in B : u \subseteq t => u = t
  <2>1. B \subseteq SUBSET T
    OBVIOUS
  <2> HIDE DEF B
  <2> QED BY <1>1, <2>1, MinimalSubset
<1>3. f[t] = LengthAt(l, t, f) /\ g[t] = LengthAt(l, t, g)
  BY DEF Lengths
<1>4. t # {}
  BY <1>3 DEF LengthAt
<1>5. First(t) \in t
  BY <1>4 DEF First
<1>6. t \ {First(t)} \notin B
  BY <1>2, <1>5
<1>7. f[t \ {First(t)}] = g[t \ {First(t)}]
  BY <1>6
<1> QED BY <1>3, <1>7 DEF LengthAt

LEMMA LengthsExist ==
    ASSUME NEW l, NEW S, IsFiniteSet(S) PROVE \E f : Lengths(l, S, f)
<1> DEFINE B == {T \in SUBSET S : ~ \E f : Lengths(l, T, f)}
<1>1. SUFFICES ASSUME B # {} PROVE FALSE
  OBVIOUS
<1>2. PICK T \in B : \A u \in B : u \subseteq T => u = T
  <2>1. B \subseteq SUBSET S
    OBVIOUS
  <2> HIDE DEF B
  <2> QED BY <1>1, <2>1, MinimalSubset
<1> DEFINE F(u) == CHOOSE f : Lengths(l, u, f)
           g == [s \in SUBSET T |-> IF s = {} THEN 0
                    ELSE l[First(s)].w + Sep + F(s \ {First(s)})[s \ {First(s)}]]
<1>3. ASSUME NEW s \in SUBSET T, s # {}
      PROVE  LET u == s \ {First(s)} IN Lengths(l, u, F(u)) /\ u \in SUBSET T
  <2>1. First(s) \in s
    BY <1>3 DEF First
  <2>2. s \ {First(s)} \notin B
    BY <1>2, <2>1
  <2> QED BY <2>2
<1>4. ASSUME NEW s \in SUBSET T, s # {}
      PROVE  LET u == s \ {First(s)} IN g[u] = F(u)[u]
  <2> DEFINE u == s \ {First(s)}
             v == u \ {First(u)}
  <2>1. Lengths(l, u, F(u)) /\ u \in SUBSET T
    BY <1>3, <1>4
  <2>2. F(u)[u] = LengthAt(l, u, F(u))
    BY <2>1 DEF Lengths
  <2>3. CASE u = {}
    BY <2>1, <2>2, <2>3 DEF LengthAt
  <2>4. CASE u # {}
    <3>1. Lengths(l, v, F(v)) /\ v \in SUBSET T
      BY <1>3, <2>1, <2>4
    <3>2. IsFiniteSet(u)
      BY <2>1, FS_Subset
    <3>3. v \subseteq u /\ v \subseteq v
      OBVIOUS
    <3> HIDE DEF v, F, g
    <3>4. F(u)[v] = F(v)[v]
      <4> HIDE DEF u
      <4> QED BY <2>1, <3>1, <3>2, <3>3, LengthsAgree
    <3>5. g[u] = l[First(u)].w + Sep + F(v)[v]
      BY <2>1, <2>4 DEF g, v
    <3>6. F(u)[u] = l[First(u)].w + Sep + F(u)[v]
      BY <2>2, <2>4 DEF LengthAt, v
    <3> QED BY <3>4, <3>5, <3>6
  <2> QED BY <2>3, <2>4
<1>5. ASSUME NEW s \in SUBSET T PROVE g[s] = LengthAt(l, s, g)
  <2>1. CASE s = {}
    BY <2>1 DEF LengthAt
  <2>2. CASE s # {}
    <3> DEFINE u == s \ {First(s)}
    <3>1. g[s] = l[First(s)].w + Sep + F(u)[u]
      BY <2>2
    <3>2. g[u] = F(u)[u]
      BY <1>4, <2>2
    <3> HIDE DEF g, F
    <3> QED BY <2>2, <3>1, <3>2 DEF LengthAt
  <2> QED BY <2>1, <2>2
<1>6. Lengths(l, T, g)
  BY <1>5 DEF Lengths
<1> QED BY <1>6

\* What RowLength() returns, one space taken off.
LEMMA RowLengthStep ==
    ASSUME NEW l, NEW S, IsFiniteSet(S)
    PROVE  RowLength(l, S) = IF S = {} THEN 0
                ELSE l[First(S)].w + Sep + RowLength(l, S \ {First(S)})
<1> DEFINE F(u) == CHOOSE f : Lengths(l, u, f)
           u == S \ {First(S)}
<1>1. Lengths(l, S, F(S))
  BY LengthsExist
<1>2. F(S)[S] = LengthAt(l, S, F(S))
  BY <1>1 DEF Lengths
<1>3. IsFiniteSet(u) /\ u \subseteq S /\ u \subseteq u
  BY FS_Subset
<1>4. Lengths(l, u, F(u))
  BY <1>3, LengthsExist
<1>5. RowLength(l, S) = F(S)[S] /\ RowLength(l, u) = F(u)[u]
  BY RowLengthIs
<1> HIDE DEF F, u
<1>6. F(S)[u] = F(u)[u]
  BY <1>1, <1>3, <1>4, LengthsAgree
<1> QED BY <1>2, <1>5, <1>6 DEF LengthAt, u

\* The spaces S in l are as wide as natural numbers are.
HasWidths(l, S) == \A c \in S : l[c].w \in Nat

\* It does not matter which space is taken off first.
LEMMA RowLengthTakeOff ==
    ASSUME NEW l, NEW S, IsFiniteSet(S), HasWidths(l, S), Sep \in Nat
    PROVE  /\ RowLength(l, S) \in Nat
           /\ \A x \in S : RowLength(l, S) = l[x].w + Sep + RowLength(l, S \ {x})
<1> DEFINE Right(T) == /\ RowLength(l, T) \in Nat
                       /\ \A x \in T : RowLength(l, T) = l[x].w + Sep + RowLength(l, T \ {x})
           B == {T \in SUBSET S : ~ Right(T)}
<1>1. SUFFICES ASSUME B # {} PROVE FALSE
  BY DEF Right
<1>2. PICK T \in B : \A u \in B : u \subseteq T => u = T
  <2>1. B \subseteq SUBSET S
    OBVIOUS
  <2> HIDE DEF B
  <2> QED BY <1>1, <2>1, MinimalSubset
<1>3. T \in SUBSET S /\ IsFiniteSet(T) /\ ~ Right(T)
  BY <1>2, FS_Subset
<1>4. ASSUME NEW y \in T PROVE Right(T \ {y}) /\ IsFiniteSet(T \ {y}) /\ l[y].w \in Nat
  <2>1. T \ {y} \notin B /\ T \ {y} \in SUBSET S
    BY <1>2, <1>3
  <2>2. Right(T \ {y})
    BY <2>1
  <2>3. IsFiniteSet(T \ {y}) /\ l[y].w \in Nat
    BY <1>3, FS_Subset DEF HasWidths
  <2> QED BY <2>2, <2>3
<1>5. T # {}
  <2>1. SUFFICES ASSUME T = {} PROVE FALSE
    OBVIOUS
  <2>2. RowLength(l, T) = 0
    BY <1>3, <2>1, RowLengthStep
  <2>3. \A x \in T : RowLength(l, T) = l[x].w + Sep + RowLength(l, T \ {x})
    BY <2>1
  <2> HIDE DEF B
  <2> QED BY <1>3, <2>2, <2>3
<1> DEFINE y == First(T)
<1>6. y \in T
  BY <1>5 DEF First
<1>7. RowLength(l, T) = l[y].w + Sep + RowLength(l, T \ {y})
  BY <1>3, <1>5, RowLengthStep
<1> HIDE DEF B, y
<1>8. RowLength(l, T) \in Nat
  <2>1. RowLength(l, T \ {y}) \in Nat /\ l[y].w \in Nat
    BY <1>4, <1>6
  <2> HIDE DEF Right
  <2> QED BY <1>7, <2>1
<1>9. ASSUME NEW x \in T
      PROVE  RowLength(l, T) = l[x].w + Sep + RowLength(l, T \ {x})
  <2>1. CASE x = y
    BY <1>7, <2>1
  <2>2. CASE x # y
    <3> DEFINE a == RowLength(l, T \ {y})
               b == RowLength(l, T \ {x})
               c == RowLength(l, (T \ {y}) \ {x})
    <3>1. a \in Nat /\ a = l[x].w + Sep + c
      <4>1. x \in T \ {y}
        BY <2>2
      <4> QED BY <1>4, <1>6, <4>1
    <3>2. b \in Nat /\ b = l[y].w + Sep + RowLength(l, (T \ {x}) \ {y})
      <4>1. y \in T \ {x}
        BY <1>6, <2>2
      <4> QED BY <1>4, <4>1
    <3>3. (T \ {x}) \ {y} = (T \ {y}) \ {x}
      OBVIOUS
    <3>4. c \in Nat
      <4>1. (T \ {y}) \ {x} \notin B
        BY <1>2, <1>6
      <4>2. Right((T \ {y}) \ {x})
        BY <1>3, <4>1 DEF B
      <4> QED BY <4>2
    <3>5. b = l[y].w + Sep + c
      BY <3>2, <3>3
    <3>6. l[x].w \in Nat /\ l[y].w \in Nat
      BY <1>4, <1>6
    <3> HIDE DEF a, b, c
    <3>7. l[y].w + Sep + a = l[x].w + Sep + b
      BY <3>1, <3>4, <3>5, <3>6
    <3> QED BY <1>7, <3>7 DEF a, b
  <2> QED BY <2>1, <2>2
<1> QED BY <1>3, <1>8, <1>9

\* It depends on the widths only.
LEMMA RowLengthSame ==
    ASSUME NEW l, NEW k, NEW S, IsFiniteSet(S), \A c \in S : l[c].w = k[c].w
    PROVE  RowLength(l, S) = RowLength(k, S)
<1> DEFINE B == {T \in SUBSET S : RowLength(l, T) # RowLength(k, T)}
<1>1. SUFFICES ASSUME B # {} PROVE FALSE
  OBVIOUS
<1>2. PICK T \in B : \A u \in B : u \subseteq T => u = T
  <2>1. B \subseteq SUBSET S
    OBVIOUS
  <2> HIDE DEF B
  <2> QED BY <1>1, <2>1, MinimalSubset
<1>3. IsFiniteSet(T) /\ T \in SUBSET S /\ RowLength(l, T) # RowLength(k, T)
  BY FS_Subset
<1>4. T # {}
  BY <1>3, RowLengthStep
<1>5. First(T) \in T
  BY <1>4 DEF First
<1>6. T \ {First(T)} \notin B
  BY <1>2, <1>5
<1>7. RowLength(l, T \ {First(T)}) = RowLength(k, T \ {First(T)})
  BY <1>3, <1>6
<1>8. l[First(T)].w = k[First(T)].w
  BY <1>3, <1>5
<1> HIDE DEF B
<1> QED BY <1>3, <1>4, <1>7, <1>8, RowLengthStep

\* More spaces are no shorter, and longer by each that was added.
LEMMA RowLengthGrows ==
    ASSUME NEW l, NEW S, IsFiniteSet(S), HasWidths(l, S), Sep \in Nat, NEW T \in SUBSET S
    PROVE  /\ RowLength(l, T) <= RowLength(l, S)
           /\ \A x \in S \ T : RowLength(l, T) + l[x].w + Sep <= RowLength(l, S)
<1>1. ASSUME NEW U \in SUBSET S
      PROVE  /\ IsFiniteSet(U) /\ HasWidths(l, U) /\ RowLength(l, U) \in Nat
             /\ \A x \in U : /\ l[x].w \in Nat
                             /\ RowLength(l, U) = l[x].w + Sep + RowLength(l, U \ {x})
  <2>1. IsFiniteSet(U) /\ HasWidths(l, U)
    BY FS_Subset DEF HasWidths
  <2> QED BY <2>1, RowLengthTakeOff DEF HasWidths
<1> DEFINE B == {U \in SUBSET S : T \subseteq U /\ ~ (RowLength(l, T) <= RowLength(l, U))}
<1>2. B = {}
  <2>1. SUFFICES ASSUME B # {} PROVE FALSE
    OBVIOUS
  <2>2. PICK V \in B : \A u \in B : u \subseteq V => u = V
    <3>1. B \subseteq SUBSET S
      OBVIOUS
    <3> HIDE DEF B
    <3> QED BY <2>1, <3>1, MinimalSubset
  <2>3. V \in SUBSET S /\ T \subseteq V /\ ~ (RowLength(l, T) <= RowLength(l, V))
    OBVIOUS
  <2>4. V # T
    BY <1>1, <2>3
  <2>5. PICK x \in V : x \notin T
    BY <2>3, <2>4
  <2>6. V \ {x} \notin B /\ V \ {x} \in SUBSET S /\ T \subseteq V \ {x}
    BY <2>2, <2>3, <2>5
  <2>7. RowLength(l, T) <= RowLength(l, V \ {x})
    BY <2>6
  <2> HIDE DEF B
  <2>8. /\ RowLength(l, T) \in Nat /\ RowLength(l, V) \in Nat
        /\ RowLength(l, V \ {x}) \in Nat /\ l[x].w \in Nat
        /\ RowLength(l, V) = l[x].w + Sep + RowLength(l, V \ {x})
    BY <1>1, <2>3, <2>6
  <2>9. RowLength(l, T) <= RowLength(l, V)
    BY <2>7, <2>8
  <2> QED BY <2>3, <2>9
<1>3. RowLength(l, T) <= RowLength(l, S)
  BY <1>2
<1>4. ASSUME NEW x \in S \ T PROVE RowLength(l, T) + l[x].w + Sep <= RowLength(l, S)
  <2>1. S \ {x} \in SUBSET S /\ T \subseteq S \ {x}
    OBVIOUS
  <2>2. RowLength(l, T) <= RowLength(l, S \ {x})
    BY <1>2, <2>1
  <2> HIDE DEF B
  <2>3. /\ RowLength(l, T) \in Nat /\ RowLength(l, S \ {x}) \in Nat /\ l[x].w \in Nat
        /\ RowLength(l, S) = l[x].w + Sep + RowLength(l, S \ {x})
    BY <1>1, <2>1
  <2> QED BY <2>2, <2>3
<1> QED BY <1>3, <1>4

\* A finite set of numbers that is not empty has a greatest one.
LEMMA GreatestOf ==
    ASSUME NEW S, IsFiniteSet(S), S # {}, NEW f, \A c \in S : f[c] \in Int
    PROVE  \E m \in S : \A c \in S : f[m] >= f[c]
<1> DEFINE B == {T \in SUBSET S : T # {} /\ ~ \E m \in T : \A c \in T : f[m] >= f[c]}
<1>1. SUFFICES ASSUME B # {} PROVE FALSE
  OBVIOUS
<1>2. PICK T \in B : \A u \in B : u \subseteq T => u = T
  <2>1. B \subseteq SUBSET S
    OBVIOUS
  <2> HIDE DEF B
  <2> QED BY <1>1, <2>1, MinimalSubset
<1>3. T \in SUBSET S /\ T # {} /\ ~ \E m \in T : \A c \in T : f[m] >= f[c]
  OBVIOUS
<1>4. PICK x : x \in T
  BY <1>3
<1>5. T \ {x} \notin B /\ T \ {x} \in SUBSET S
  BY <1>2, <1>3, <1>4
<1>6. CASE T \ {x} = {}
  <2>1. \A c \in T : c = x
    BY <1>6
  <2> QED BY <1>3, <1>4, <2>1
<1>7. CASE T \ {x} # {}
  <2>1. PICK m \in T \ {x} : \A c \in T \ {x} : f[m] >= f[c]
    BY <1>5, <1>7
  <2> QED BY <1>3, <1>4, <2>1
<1> QED BY <1>6, <1>7

-----------------------------------------------------------------------------
(* Types *)

TypeInv == TypeOK /\ IsFiniteSet(open)

LEMMA PlaceFacts ==
    /\ FirstX \in Nat /\ Sep \in Nat
    /\ Unset \in Place /\ NewPlace \in Place
    /\ \A x \in Xs, y \in Levels, w \in Nat : [x |-> x, y |-> y, w |-> w] \in Place
    /\ \A w \in Widths : w \in Nat /\ w > 0
    /\ \A p \in Place : p.x \in Int /\ p.y \in PlaceLevels /\ p.w \in Nat
    /\ \A p \in Place, w \in Nat : [p EXCEPT !.w = w] \in Place
  BY GeometryAssumption DEF Unset, NewPlace, Place, PlaceLevels

\* Subsets of the consoles are finite, and what they have has a width.
LEMMA SomeOfTheRow ==
    ASSUME NEW S \in SUBSET Names, IsFiniteSet(S), NEW l \in [Names -> Place], NEW T \in SUBSET S
    PROVE  IsFiniteSet(T) /\ HasWidths(l, T) /\ RowLength(l, T) \in Nat
<1>1. IsFiniteSet(T)
  BY FS_Subset
<1>2. HasWidths(l, T)
  BY PlaceFacts DEF HasWidths
<1> QED BY <1>1, <1>2, RowLengthTakeOff, PlaceFacts

LEMMA PackedXType ==
    ASSUME NEW S \in SUBSET Names, IsFiniteSet(S), NEW l \in [Names -> Place], NEW r, NEW c
    PROVE  PackedX(S, l, r, c) \in Nat
<1>1. {d \in S : r[d] < r[c]} \in SUBSET S
  OBVIOUS
<1>2. RowLength(l, {d \in S : r[d] < r[c]}) \in Nat
  BY <1>1, SomeOfTheRow
<1> QED BY <1>2, PlaceFacts DEF PackedX

\* reviewParking() leaves places.
LEMMA ReviewTypes ==
    ASSUME NEW S \in SUBSET Names, IsFiniteSet(S), NEW P, NEW l \in [Names -> Place],
           NEW w \in [Names -> Place], ReviewParking(S, P, l, w)
    PROVE  lot' \in [Names -> Place] /\ win' \in [Names -> Place] /\ untidy' = FALSE
<1>1. PICK r \in Orders(S, l) :
        /\ lot' = [c \in Names |->
                      IF c \in S
                      THEN [x |-> PackedX(S, l, r, c), y |-> "level", w |-> l[c].w]
                      ELSE l[c]]
        /\ win' = [c \in Names |-> IF c \in S \cap P THEN lot'[c] ELSE w[c]]
        /\ untidy' = FALSE
  BY DEF ReviewParking
<1>2. \A c \in Names : PackedX(S, l, r, c) \in Nat /\ l[c].w \in Nat
  BY PackedXType, PlaceFacts
<1>3. \A c \in Names : [x |-> PackedX(S, l, r, c), y |-> "level", w |-> l[c].w] \in Place
  BY <1>2 DEF Place, PlaceLevels
<1>4. lot' \in [Names -> Place]
  BY <1>1, <1>3
<1>5. win' \in [Names -> Place]
  BY <1>1, <1>4
<1> QED BY <1>1, <1>4, <1>5

\* The maximum that park() takes.
LEMMA MaxIs ==
    ASSUME NEW S, IsFiniteSet(S), NEW f, \A c \in S : f[c] \in Int
    PROVE  LET A == {0} \cup {f[c] : c \in S}
           IN  Max(A) \in A /\ Max(A) \in Int /\ \A a \in A : Max(A) >= a
<1> DEFINE A == {0} \cup {f[c] : c \in S}
<1>1. \A a \in A : a \in Int
  OBVIOUS
<1>2. \E m \in A : \A a \in A : m >= a
  <2>1. CASE S = {}
    BY <2>1
  <2>2. CASE S # {}
    <3>1. PICK m \in S : \A c \in S : f[m] >= f[c]
      BY <2>2, GreatestOf
    <3>2. CASE f[m] >= 0
      BY <3>1, <3>2
    <3>3. CASE ~ (f[m] >= 0)
      BY <3>1, <3>3
    <3> QED BY <3>2, <3>3
  <2> QED BY <2>1, <2>2
<1> HIDE DEF A
<1>3. Max(A) \in A /\ \A a \in A : Max(A) >= a
  BY <1>2 DEF Max
<1> QED BY <1>1, <1>3 DEF A

LEMMA FreeXType ==
    ASSUME TypeInv, NEW c PROVE FreeX(c) \in Int
<1> DEFINE others == {d \in open \ {c} : IsParked(d) \/ d \in hasLot}
           f == [d \in others |-> RightEdge(d)]
<1>1. IsFiniteSet(others) /\ others \subseteq Names
  BY FS_Subset DEF TypeInv, TypeOK
<1>2. \A d \in others : RightEdge(d) \in Int
  <2> SUFFICES ASSUME NEW d \in others PROVE RightEdge(d) \in Int
    OBVIOUS
  <2>1. d \in Names /\ win[d] \in Place /\ lot[d] \in Place /\ stub[d] \in Widths
    BY <1>1 DEF TypeInv, TypeOK
  <2> QED BY <2>1, PlaceFacts DEF RightEdge
<1>3. \A d \in others : f[d] = RightEdge(d) /\ f[d] \in Int
  BY <1>2
<1>4. {f[d] : d \in others} = {RightEdge(d) : d \in others}
  BY <1>3
<1>5. Max({0} \cup {f[d] : d \in others}) \in Int
  <2> HIDE DEF f, others
  <2> QED BY <1>1, <1>3, MaxIs
<1>6. Max({0} \cup {RightEdge(d) : d \in others}) \in Int
  BY <1>4, <1>5
<1>7. FreeX(c) = FirstX \/ FreeX(c) = Max({0} \cup {RightEdge(d) : d \in others}) + Sep
  BY DEF FreeX
<1> HIDE DEF others
<1> QED BY <1>6, <1>7, PlaceFacts

\* What is left of m_parked is at the level of its space, if S was asked.
LEMMA AskedFacts ==
    ASSUME NEW S, NEW P, NEW w, NEW l
    PROVE  /\ Asked(S, P, w, l) \subseteq P
           /\ \A c \in Asked(S, P, w, l) : c \in S => AtLot(c, w, l)
  BY DEF Asked

LEMMA TypeInvInit == Init => TypeInv
<1> SUFFICES ASSUME Init PROVE TypeInv
  OBVIOUS
<1>1. PICK c \in Names, w \in Widths :
        /\ open = {c} /\ stub = [d \in Names |-> w]
        /\ win = [d \in Names |-> IF d = c THEN NewPlace ELSE Unset]
        /\ parked \in {{}, {c}}
        /\ lot = [d \in Names |-> Unset] /\ hasLot = {}
        /\ free = [d \in Names |-> Unset] /\ hasFree = {}
        /\ up = TRUE /\ programError = FALSE /\ untidy = FALSE
  BY DEF Init
<1>2. IsFiniteSet(open)
  BY <1>1, FS_Singleton
<1>3. win \in [Names -> Place] /\ lot \in [Names -> Place] /\ free \in [Names -> Place]
  BY <1>1, PlaceFacts
<1> QED BY <1>1, <1>2, <1>3 DEF TypeInv, TypeOK

\* The places there are besides those that reviewParking() makes.
LEMMA RestoredTypes ==
    ASSUME TypeInv, NEW c \in Names PROVE Restored(c) \in [Names -> Place]
  BY PlaceFacts DEF Restored, TypeInv, TypeOK

LEMMA ParkAtTypes ==
    ASSUME TypeInv, NEW c \in Names, NEW p \in Place, ParkAt(c, p)
    PROVE  /\ free' \in [Names -> Place] /\ lot' \in [Names -> Place]
           /\ win' \in [Names -> Place]
           /\ hasFree' = hasFree \cup {c} /\ hasLot' = hasLot \cup {c}
  BY DEF ParkAt, TypeInv, TypeOK

LEMMA ParkTypes ==
    ASSUME TypeInv, NEW c \in Names, Park(c) PROVE TypeInv'
<1> USE DEF TypeInv, TypeOK
<1>1. CASE ParkAgain(c)
  BY <1>1 DEF ParkAgain, Alive
<1>2. CASE Repark(c)
  <2> DEFINE p == [x |-> lot[c].x, y |-> lot[c].y, w |-> stub[c]]
  <2>1. p \in Place
    BY PlaceFacts DEF Place
  <2>2. /\ c \in open /\ ParkAt(c, p)
        /\ UNCHANGED <<open, stub, up, programError, untidy>>
        /\ parked' \subseteq parked \cup {c}
    BY <1>2, AskedFacts DEF Repark, Alive, SaveConfig
  <2> HIDE DEF p
  <2>3. /\ free' \in [Names -> Place] /\ lot' \in [Names -> Place]
        /\ win' \in [Names -> Place]
        /\ hasFree' = hasFree \cup {c} /\ hasLot' = hasLot \cup {c}
    BY <2>1, <2>2, ParkAtTypes
  <2> QED BY <2>2, <2>3
<1>3. CASE ParkFirst(c)
  <2> DEFINE p == [x |-> FreeX(c), y |-> "level", w |-> stub[c]]
  <2>1. p \in Place
    BY FreeXType, PlaceFacts DEF Place, PlaceLevels
  <2>2. /\ c \in open /\ ParkAt(c, p)
        /\ UNCHANGED <<open, stub, up, programError, untidy>>
        /\ parked' \subseteq parked \cup {c}
    BY <1>3, AskedFacts DEF ParkFirst, Alive
  <2> HIDE DEF p
  <2>3. /\ free' \in [Names -> Place] /\ lot' \in [Names -> Place]
        /\ win' \in [Names -> Place]
        /\ hasFree' = hasFree \cup {c} /\ hasLot' = hasLot \cup {c}
    BY <2>1, <2>2, ParkAtTypes
  <2> QED BY <2>2, <2>3
<1> QED BY <1>1, <1>2, <1>3 DEF Park

LEMMA UnParkTypes ==
    ASSUME TypeInv, NEW c \in Names, NEW shift \in BOOLEAN, UnPark(c, shift)
    PROVE  TypeInv'
<1>1. /\ c \in open /\ UNCHANGED <<open, stub, up, programError>>
      /\ parked' \subseteq parked
      /\ free' = [free EXCEPT ![c] = Restored(c)[c]]
      /\ hasFree' = hasFree \cup {c}
  BY AskedFacts DEF UnPark, Vacate, Alive, SaveConfig
<1> DEFINE l == [lot EXCEPT ![c] = win[c]]
<1>2. l \in [Names -> Place] /\ Restored(c) \in [Names -> Place]
  BY RestoredTypes DEF TypeInv, TypeOK
<1>3. /\ hasLot' \subseteq open
      /\ lot' \in [Names -> Place] /\ win' \in [Names -> Place] /\ untidy' \in BOOLEAN
  <2>1. CASE shift
    <3>1. hasLot' = hasLot \ {c} /\ ReviewParking(hasLot \ {c}, parked, l, Restored(c))
      BY <2>1 DEF UnPark, Vacate
    <3>2. hasLot \ {c} \in SUBSET Names /\ IsFiniteSet(hasLot \ {c}) /\ hasLot \ {c} \subseteq open
      BY FS_Subset DEF TypeInv, TypeOK
    <3> HIDE DEF l
    <3> QED BY <1>2, <3>1, <3>2, ReviewTypes
  <2>2. CASE ~shift
    <3>1. hasLot' = hasLot \cup {c} /\ lot' = l /\ win' = Restored(c) /\ UNCHANGED untidy
      BY <2>2 DEF UnPark, Vacate
    <3> HIDE DEF l
    <3> QED BY <1>1, <1>2, <3>1 DEF TypeInv, TypeOK
  <2> QED BY <2>1, <2>2
<1>4. free' \in [Names -> Place]
  BY <1>1, <1>2 DEF TypeInv, TypeOK
<1> HIDE DEF l
<1> QED BY <1>1, <1>3, <1>4 DEF TypeInv, TypeOK

LEMMA RenameTypes ==
    ASSUME TypeInv, NEW c \in Names, NEW w \in Widths, NEW tools \in BOOLEAN,
           Rename(c, w, tools)
    PROVE  TypeInv'
<1> DEFINE P == Asked({c}, parked, win, lot)
           l == IF c \in hasLot THEN [lot EXCEPT ![c] = [@ EXCEPT !.w = w]] ELSE lot
           v == IF IsParked(c) THEN [win EXCEPT ![c] = [@ EXCEPT !.w = w]] ELSE win
<1>1. /\ ReviewParking(hasLot, P, l, v) /\ c \in open
      /\ stub' = [stub EXCEPT ![c] = w]
      /\ UNCHANGED <<open, hasLot, free, hasFree, up, programError>>
      /\ parked' = P \/ SaveConfig(P)
  BY DEF Rename, Alive
<1>2. parked' \subseteq parked
  BY <1>1, AskedFacts DEF SaveConfig
<1>3. l \in [Names -> Place] /\ v \in [Names -> Place]
  <2>1. \A p \in Place : [p EXCEPT !.w = w] \in Place
    BY PlaceFacts
  <2> QED BY <2>1 DEF TypeInv, TypeOK
<1>4. hasLot \in SUBSET Names /\ IsFiniteSet(hasLot)
  BY FS_Subset DEF TypeInv, TypeOK
<1> HIDE DEF P, l, v
<1>5. lot' \in [Names -> Place] /\ win' \in [Names -> Place] /\ untidy' = FALSE
  BY <1>1, <1>3, <1>4, ReviewTypes
<1> QED BY <1>1, <1>2, <1>5 DEF TypeInv, TypeOK

LEMMA AddTypes ==
    ASSUME TypeInv, NEW c \in Names, NEW w \in Widths, NEW x \in Xs, NEW y \in Levels,
           NEW garbage \in BOOLEAN, NEW tools \in BOOLEAN, Add(c, w, x, y, garbage, tools)
    PROVE  TypeInv'
<1>1. /\ open' = open \cup {c} /\ stub' = [stub EXCEPT ![c] = w]
      /\ win' = [win EXCEPT ![c] = [x |-> x, y |-> y, w |-> Wide]]
      /\ UNCHANGED <<lot, hasLot, free, hasFree, up, programError, untidy>>
      /\ parked' \subseteq parked \cup {c}
  BY AskedFacts DEF Add, SaveConfig
<1>2. IsFiniteSet(open')
  BY <1>1, FS_AddElement DEF TypeInv
<1>3. [x |-> x, y |-> y, w |-> Wide] \in Place
  BY PlaceFacts, GeometryAssumption
<1> QED BY <1>1, <1>2, <1>3 DEF TypeInv, TypeOK

LEMMA CloseTypes ==
    ASSUME TypeInv, NEW c \in Names, Close(c) PROVE TypeInv'
<1> DEFINE l == [lot EXCEPT ![c] = Unset]
           v == [win EXCEPT ![c] = Unset]
<1>1. /\ ReviewParking(hasLot \ {c}, parked \ {c}, l, v)
      /\ open' = open \ {c} /\ hasLot' = hasLot \ {c} /\ hasFree' = hasFree \ {c}
      /\ free' = [free EXCEPT ![c] = Unset]
      /\ UNCHANGED <<stub, up, programError>>
      /\ parked' \subseteq parked \ {c}
  BY AskedFacts DEF Close, SaveConfig
<1>2. l \in [Names -> Place] /\ v \in [Names -> Place] /\ free' \in [Names -> Place]
  BY <1>1, PlaceFacts DEF TypeInv, TypeOK
<1>3. hasLot \ {c} \in SUBSET Names /\ IsFiniteSet(hasLot \ {c}) /\ IsFiniteSet(open')
  BY <1>1, FS_Subset, FS_RemoveElement DEF TypeInv, TypeOK
<1> HIDE DEF l, v
<1>4. lot' \in [Names -> Place] /\ win' \in [Names -> Place] /\ untidy' = FALSE
  BY <1>1, <1>2, <1>3, ReviewTypes
<1> QED BY <1>1, <1>2, <1>3, <1>4 DEF TypeInv, TypeOK

LEMMA FindAllTypes ==
    ASSUME TypeInv, FindAllConsoles PROVE TypeInv'
<1>1. \A c \in Names : Restored(c)[c] \in Place
  BY RestoredTypes
<1>2. free' \in [Names -> Place]
  BY <1>1 DEF FindAllConsoles, TypeInv, TypeOK
<1>3. win' \in [Names -> Place] /\ lot' \in [Names -> Place]
  BY PlaceFacts DEF FindAllConsoles, TypeInv, TypeOK
<1> QED BY <1>2, <1>3 DEF FindAllConsoles, TypeInv, TypeOK

LEMMA RestTypes ==
    ASSUME TypeInv,
           \/ \E c \in Names : FindMoved(c) \/ \E x \in Xs, y \in Levels : Move(c, x, y)
           \/ Tidy \/ Quit \/ Start \/ UNCHANGED vars
    PROVE  TypeInv'
<1>0. hasLot \in SUBSET Names /\ IsFiniteSet(hasLot)
  BY FS_Subset DEF TypeInv, TypeOK
<1>1. ASSUME NEW c \in Names, FindMoved(c) PROVE TypeInv'
  BY <1>1 DEF FindMoved, TypeInv, TypeOK
<1>2. ASSUME NEW c \in Names, NEW x \in Xs, NEW y \in Levels, Move(c, x, y)
      PROVE  TypeInv'
  <2>1. [x |-> x, y |-> y, w |-> win[c].w] \in Place
    BY PlaceFacts DEF TypeInv, TypeOK
  <2>2. untidy' \in BOOLEAN
    BY <1>2 DEF Move, TypeInv, TypeOK
  <2> QED BY <1>2, <2>1, <2>2 DEF Move, TypeInv, TypeOK
<1>3. CASE Tidy
  <2>1. /\ ReviewParking(hasLot, parked, lot, win)
        /\ UNCHANGED <<open, stub, parked, hasLot, free, hasFree, up, programError>>
    BY <1>3 DEF Tidy
  <2>2. lot' \in [Names -> Place] /\ win' \in [Names -> Place] /\ untidy' = FALSE
    BY <1>0, <2>1, ReviewTypes DEF TypeInv, TypeOK
  <2> QED BY <2>1, <2>2 DEF TypeInv, TypeOK
<1>4. CASE Quit
  <2>1. parked' \subseteq parked
    BY <1>4, AskedFacts DEF Quit, SaveConfig
  <2> QED BY <1>4, <2>1 DEF Quit, TypeInv, TypeOK
<1>5. CASE Start
  <2> DEFINE l == [c \in Names |-> IF c \in hasLot THEN lot[c] ELSE Unset]
  <2>1. /\ ReviewParking(hasLot, parked, l, win) /\ up' = TRUE
        /\ UNCHANGED <<open, stub, parked, hasLot, hasFree, programError>>
        /\ free' = [c \in Names |-> IF c \in hasFree THEN free[c] ELSE Unset]
    BY <1>5 DEF Start
  <2>2. l \in [Names -> Place] /\ free' \in [Names -> Place]
    BY <2>1, PlaceFacts DEF TypeInv, TypeOK
  <2> HIDE DEF l
  <2>3. lot' \in [Names -> Place] /\ win' \in [Names -> Place] /\ untidy' = FALSE
    BY <1>0, <2>1, <2>2, ReviewTypes DEF TypeInv, TypeOK
  <2> QED BY <2>1, <2>2, <2>3 DEF TypeInv, TypeOK
<1>6. CASE UNCHANGED vars
  BY <1>6 DEF vars, TypeInv, TypeOK
<1> QED BY <1>1, <1>2, <1>3, <1>4, <1>5, <1>6

LEMMA TypeInvStep == TypeInv /\ [Next]_vars => TypeInv'
<1> SUFFICES ASSUME TypeInv, [Next]_vars PROVE TypeInv'
  OBVIOUS
<1>1. CASE Next
  <2>1. ASSUME NEW c \in Names, Park(c) PROVE TypeInv'
    BY <2>1, ParkTypes
  <2>2. ASSUME NEW c \in Names, NEW shift \in BOOLEAN, UnPark(c, shift) PROVE TypeInv'
    BY <2>2, UnParkTypes
  <2>3. ASSUME NEW c \in Names, NEW w \in Widths, NEW tools \in BOOLEAN, Rename(c, w, tools)
        PROVE  TypeInv'
    BY <2>3, RenameTypes
  <2>4. ASSUME NEW c \in Names, NEW w \in Widths, NEW x \in Xs, NEW y \in Levels,
               NEW garbage \in BOOLEAN, NEW tools \in BOOLEAN,
               Add(c, w, x, y, garbage, tools)
        PROVE  TypeInv'
    BY <2>4, AddTypes
  <2>5. ASSUME NEW c \in Names, Close(c) PROVE TypeInv'
    BY <2>5, CloseTypes
  <2>6. CASE FindAllConsoles
    BY <2>6, FindAllTypes
  <2>7. CASE \/ \E c \in Names : FindMoved(c) \/ \E x \in Xs, y \in Levels : Move(c, x, y)
             \/ Tidy \/ Quit \/ Start
    BY <2>7, RestTypes
  <2> QED BY <1>1, <2>1, <2>2, <2>3, <2>4, <2>5, <2>6, <2>7 DEF Next
<1> QED BY <1>1, RestTypes

LEMMA TypeInvAlways == Spec => []TypeInv
  BY TypeInvInit, TypeInvStep, PTL DEF Spec

\* Every variable keeps its type: the places are whole numbers, and only
\* consoles that exist have a space, are parked or remember a place.
THEOREM ParkingTypeCorrect == Spec => []TypeOK
<1>1. TypeInv => TypeOK
  BY DEF TypeInv
<1> QED BY <1>1, TypeInvAlways, PTL

-----------------------------------------------------------------------------
(* Consoles and their spaces *)

\* A console found to be parked has a space.
LEMMA ParkedHasLot ==
    ASSUME SpaceInv, NEW c \in open, IsParked(c)
    PROVE  c \in hasLot
  BY DEF SpaceInv, Members, WindowsBelowTop, SpacesAtLevel, IsParked, AtLot

LEMMA SpaceInvInit == Init => SpaceInv
  BY DEF Init, SpaceInv, Shapes, Members, WindowsBelowTop, SpacesAtLevel,
         SavedAtSpace, NoProgramError, NewPlace, Unset

LEMMA ParkAgainKeeps ==
    ASSUME SpaceInv, NEW c \in Names, ParkAgain(c) PROVE SpaceInv'
<1> USE DEF SpaceInv, Shapes, Members, WindowsBelowTop, SpacesAtLevel,
            SavedAtSpace, NoProgramError
<1>1. c \in open /\ IsParked(c)
  BY DEF ParkAgain, Alive
<1>2. c \in hasLot
  BY <1>1, ParkedHasLot
<1> QED BY <1>1, <1>2 DEF ParkAgain, Alive

\* park() of a console that is not parked, once its place is known.
LEMMA ParkAtKeeps ==
    ASSUME SpaceInv, NEW c \in open, NEW p, p.y = "level",
           ParkAt(c, p), up, UNCHANGED <<open, up, programError>>,
           parked' \subseteq parked \cup {c}
    PROVE  SpaceInv'
  BY DEF SpaceInv, Shapes, Members, WindowsBelowTop, SpacesAtLevel,
         SavedAtSpace, NoProgramError, ParkAt

LEMMA UnParkKeeps ==
    ASSUME SpaceInv, NEW c \in Names, NEW shift \in BOOLEAN, UnPark(c, shift)
    PROVE  SpaceInv'
<1> USE DEF SpaceInv, Shapes, Members, WindowsBelowTop, SpacesAtLevel,
            SavedAtSpace, NoProgramError
<1>1. /\ c \in open /\ IsParked(c) /\ c \in hasLot /\ up
      /\ UNCHANGED <<open, stub, up, programError>>
      /\ parked' \subseteq parked \ {c}
      /\ hasFree' = hasFree \cup {c}
  BY ParkedHasLot, AskedFacts DEF UnPark, Vacate, Alive, SaveConfig
<1>2. /\ Restored(c) = [d \in Names |-> Restored(c)[d]]
      /\ \A d \in open : Restored(c)[d].y # "top"
  BY <1>1 DEF Restored, NewPlace
<1>3. free' = [d \in Names |-> free'[d]] /\ \A d \in hasFree' : free'[d].y # "top"
  BY <1>1, <1>2 DEF UnPark, Vacate
<1>4. win[c].y = "level"
  BY <1>1 DEF IsParked, AtLot
<1>5. CASE shift
  <2> DEFINE l == [lot EXCEPT ![c] = win[c]]
  <2>1. /\ hasLot' = hasLot \ {c}
        /\ ReviewParking(hasLot \ {c}, parked, l, Restored(c))
    BY <1>5 DEF UnPark, Vacate
  <2>2. /\ lot' = [d \in Names |-> lot'[d]]
        /\ win' = [d \in Names |-> win'[d]]
        /\ \A d \in hasLot' : lot'[d].y = "level"
        /\ \A d \in Names \ hasLot' : lot'[d] = l[d]
        /\ \A d \in Names : win'[d] = Restored(c)[d] \/ win'[d].y = "level"
    BY <2>1 DEF ReviewParking
  <2>3. \A d \in open : win'[d].y # "top"
    BY <1>2, <2>2
  <2>4. \A d \in Names \ hasLot' : d \in parked' \/ d \notin open' => lot'[d].y = "top"
    BY <1>1, <2>1, <2>2
  <2>5. Shapes'
    BY <1>1, <1>3, <2>1, <2>2, <2>3, <2>4
  <2>6. Members'
    BY <1>1, <1>3, <2>1, <2>2, <2>3, <2>4
  <2>7. WindowsBelowTop'
    BY <1>1, <1>3, <2>1, <2>2, <2>3, <2>4
  <2>8. SpacesAtLevel'
    BY <1>1, <1>3, <2>1, <2>2, <2>3, <2>4
  <2>9. SavedAtSpace'
    BY <1>1, <1>3, <2>1, <2>2, <2>3, <2>4
  <2>10. NoProgramError'
    BY <1>1, <1>3, <2>1, <2>2, <2>3, <2>4
  <2> QED BY <2>5, <2>6, <2>7, <2>8, <2>9, <2>10
<1>6. CASE ~shift
  <2>0. /\ hasLot' = hasLot \cup {c}
        /\ lot' = [lot EXCEPT ![c] = win[c]]
        /\ win' = Restored(c)
    BY <1>6 DEF UnPark, Vacate
  <2>1. /\ hasLot' = hasLot
        /\ lot' = [lot EXCEPT ![c] = win[c]]
        /\ win' = Restored(c)
    BY <1>1, <2>0
  <2>2. Shapes'
    BY <1>1, <1>2, <1>3, <1>4, <2>1
  <2>3. Members'
    BY <1>1, <1>2, <1>3, <1>4, <2>1
  <2>4. WindowsBelowTop'
    BY <1>1, <1>2, <1>3, <1>4, <2>1
  <2>5. SpacesAtLevel'
    BY <1>1, <1>2, <1>3, <1>4, <2>1
  <2>6. SavedAtSpace'
    BY <1>1, <1>2, <1>3, <1>4, <2>1
  <2>7. NoProgramError'
    BY <1>1, <1>2, <1>3, <1>4, <2>1
  <2> QED BY <2>2, <2>3, <2>4, <2>5, <2>6, <2>7
<1> QED BY <1>5, <1>6

LEMMA RenameKeeps ==
    ASSUME SpaceInv, NEW c \in Names, NEW w \in Widths, NEW tools \in BOOLEAN,
           Rename(c, w, tools)
    PROVE  SpaceInv'
<1> USE DEF SpaceInv, Shapes, Members, WindowsBelowTop, SpacesAtLevel,
            SavedAtSpace, NoProgramError
<1> DEFINE P == Asked({c}, parked, win, lot)
           l == IF c \in hasLot THEN [lot EXCEPT ![c] = [@ EXCEPT !.w = w]] ELSE lot
           v == IF IsParked(c) THEN [win EXCEPT ![c] = [@ EXCEPT !.w = w]] ELSE win
<1>1. /\ ReviewParking(hasLot, P, l, v)
      /\ UNCHANGED <<open, hasLot, free, hasFree, up, programError>>
      /\ parked' = P \/ SaveConfig(P)
      /\ up
  BY DEF Rename, Alive
<1>2. parked' \subseteq parked
  BY <1>1, AskedFacts DEF SaveConfig
<1>3. /\ lot' = [d \in Names |-> lot'[d]]
      /\ win' = [d \in Names |-> win'[d]]
      /\ \A d \in hasLot : lot'[d].y = "level"
      /\ \A d \in Names \ hasLot : lot'[d] = l[d]
      /\ \A d \in Names : win'[d] = v[d] \/ win'[d].y = "level"
  <2> HIDE DEF P, l, v
  <2> QED BY <1>1 DEF ReviewParking
<1>4. \A d \in Names \ hasLot : l[d] = lot[d]
  OBVIOUS
<1>5. \A d \in open : v[d].y # "top"
  <2>1. CASE IsParked(c)
    <3>1. c \in open
      BY <2>1 DEF IsParked
    <3>2. [win[c] EXCEPT !.w = w].y = win[c].y
      BY <3>1
    <3> QED BY <2>1, <3>1, <3>2
  <2> QED BY <2>1
<1> HIDE DEF P, l, v
<1>6. Shapes'
  BY <1>1, <1>2, <1>3, <1>4, <1>5
<1>7. Members'
  BY <1>1, <1>2, <1>3, <1>4, <1>5
<1>8. WindowsBelowTop'
  BY <1>1, <1>2, <1>3, <1>4, <1>5
<1>9. SpacesAtLevel'
  BY <1>1, <1>2, <1>3, <1>4, <1>5
<1>10. SavedAtSpace'
  BY <1>1, <1>2, <1>3, <1>4, <1>5
<1>11. NoProgramError'
  BY <1>1, <1>2, <1>3, <1>4, <1>5
<1> QED BY <1>6, <1>7, <1>8, <1>9, <1>10, <1>11

LEMMA AddKeeps ==
    ASSUME SpaceInv, NoTop, NEW c \in Names, NEW w \in Widths, NEW x \in Xs,
           NEW y \in Levels, NEW garbage \in BOOLEAN, NEW tools \in BOOLEAN,
           Add(c, w, x, y, garbage, tools)
    PROVE  SpaceInv'
<1> USE DEF SpaceInv, Shapes, Members, WindowsBelowTop, SpacesAtLevel,
            SavedAtSpace, NoProgramError
<1>1. parked' \subseteq parked \cup {c}
  BY AskedFacts DEF Add, SaveConfig
<1>2. y # "top"
  BY DEF NoTop
<1> QED BY <1>1, <1>2 DEF Add

LEMMA CloseKeeps ==
    ASSUME SpaceInv, NEW c \in Names, Close(c) PROVE SpaceInv'
<1> USE DEF SpaceInv, Shapes, Members, WindowsBelowTop, SpacesAtLevel,
            SavedAtSpace, NoProgramError
<1> DEFINE l == [lot EXCEPT ![c] = Unset]
           v == [win EXCEPT ![c] = Unset]
<1>1. /\ ReviewParking(hasLot \ {c}, parked \ {c}, l, v)
      /\ open' = open \ {c} /\ hasLot' = hasLot \ {c} /\ hasFree' = hasFree \ {c}
      /\ free' = [free EXCEPT ![c] = Unset]
      /\ UNCHANGED <<up, programError>> /\ up
  BY DEF Close, Alive
<1>2. parked' \subseteq parked \ {c}
  BY AskedFacts DEF Close, SaveConfig
<1>3. /\ lot' = [d \in Names |-> lot'[d]]
      /\ win' = [d \in Names |-> win'[d]]
      /\ \A d \in hasLot' : lot'[d].y = "level"
      /\ \A d \in Names \ hasLot' : lot'[d] = l[d]
      /\ \A d \in Names : win'[d] = v[d] \/ win'[d].y = "level"
  <2> HIDE DEF l, v
  <2> QED BY <1>1 DEF ReviewParking
<1>4. \A d \in Names \ hasLot' : d \in parked' \/ d \notin open' => lot'[d].y = "top"
  <2> SUFFICES ASSUME NEW d \in Names \ hasLot', d \in parked' \/ d \notin open'
               PROVE  lot'[d].y = "top"
    OBVIOUS
  <2>1. CASE d = c
    <3>1. l[c] = Unset
      OBVIOUS
    <3>2. lot'[d] = l[d]
      BY <1>3
    <3> QED BY <2>1, <3>1, <3>2 DEF Unset
  <2>2. CASE d # c
    BY <1>1, <1>2, <1>3, <2>2
  <2> QED BY <2>1, <2>2
<1>5. \A d \in open' : win'[d].y # "top"
  <2> SUFFICES ASSUME NEW d \in open' PROVE win'[d].y # "top"
    OBVIOUS
  <2>1. d \in open /\ d \in Names /\ d # c
    BY <1>1
  <2>2. v[d] = win[d] /\ win[d].y # "top"
    BY <2>1
  <2>3. win'[d] = v[d] \/ win'[d].y = "level"
    BY <1>3, <2>1
  <2> HIDE DEF v
  <2> QED BY <2>2, <2>3
<1>6. \A d \in hasFree' : free'[d].y # "top"
  BY <1>1
<1> QED BY <1>1, <1>2, <1>3, <1>4, <1>5, <1>6

\* Tidy and Start: reviewParking() of spaces and windows that are as they were.
LEMMA ReviewKeeps ==
    ASSUME SpaceInv, NEW l, \A d \in Names : d \in hasLot \/ l[d] = lot[d] \/ l[d].y = "top",
           ReviewParking(hasLot, parked, l, win),
           UNCHANGED <<open, parked, hasLot, hasFree, programError>>, up',
           free' = [d \in Names |-> free'[d]],
           \A d \in hasFree : free'[d] = free[d]
    PROVE  SpaceInv'
<1> USE DEF SpaceInv, Shapes, Members, WindowsBelowTop, SpacesAtLevel,
            SavedAtSpace, NoProgramError
<1>1. /\ lot' = [d \in Names |-> lot'[d]]
      /\ win' = [d \in Names |-> win'[d]]
      /\ \A d \in hasLot : lot'[d].y = "level"
      /\ \A d \in Names \ hasLot : lot'[d] = l[d]
      /\ \A d \in Names : win'[d] = win[d] \/ win'[d].y = "level"
  BY DEF ReviewParking
<1>2. \A d \in Names \ hasLot : d \in parked \/ d \notin open => lot'[d].y = "top"
  BY <1>1
<1>3. Shapes'
  BY <1>1, <1>2
<1>4. Members'
  BY <1>1, <1>2
<1>5. WindowsBelowTop'
  <2>1. \A d \in open : win'[d].y # "top"
    <3> SUFFICES ASSUME NEW d \in open PROVE win'[d].y # "top"
      OBVIOUS
    <3>1. win'[d] = win[d] \/ win'[d].y = "level"
      BY <1>1
    <3>2. win[d].y # "top"
      OBVIOUS
    <3> QED BY <3>1, <3>2
  <2>2. \A d \in hasFree : free'[d].y # "top"
    OBVIOUS
  <2> QED BY <2>1, <2>2
<1>6. SpacesAtLevel'
  BY <1>1, <1>2
<1>7. SavedAtSpace'
  BY <1>1, <1>2
<1>8. NoProgramError'
  BY <1>1, <1>2
<1> QED BY <1>3, <1>4, <1>5, <1>6, <1>7, <1>8

LEMMA FindAllKeeps ==
    ASSUME SpaceInv, FindAllConsoles PROVE SpaceInv'
<1> USE DEF SpaceInv, Shapes, Members, WindowsBelowTop, SpacesAtLevel,
            SavedAtSpace, NoProgramError
<1>1. \A c \in open : IsParked(c) => c \in hasLot /\ win[c].y = "level"
  BY ParkedHasLot DEF IsParked, AtLot
<1>2. \A c \in open : Restored(c)[c].y # "top"
  BY DEF Restored, NewPlace
<1>3. \A c \in Names : IsParked(c) => c \in open
  BY DEF IsParked
<1>4. hasLot' = hasLot
  BY <1>1 DEF FindAllConsoles
<1>5. \A c \in hasFree' : free'[c].y # "top"
  <2> SUFFICES ASSUME NEW c \in hasFree' PROVE free'[c].y # "top"
    OBVIOUS
  <2>1. CASE c \in open /\ IsParked(c)
    BY <1>2, <2>1 DEF FindAllConsoles
  <2>2. CASE ~(c \in open /\ IsParked(c))
    BY <1>3, <2>2 DEF FindAllConsoles
  <2> QED BY <2>1, <2>2
<1>6. \A c \in Names : lot'[c] = IF IsParked(c) THEN win[c] ELSE lot[c]
  BY DEF FindAllConsoles
<1> QED BY <1>1, <1>3, <1>4, <1>5, <1>6 DEF FindAllConsoles, NewPlace

LEMMA SpaceInvStep ==
    ASSUME SpaceInv, NoTop, [Next]_vars PROVE SpaceInv'
<1>1. ASSUME NEW c \in Names, Park(c) PROVE SpaceInv'
  <2>1. CASE ParkAgain(c)
    BY <2>1, ParkAgainKeeps
  <2>2. CASE Repark(c)
    <3> DEFINE p == [x |-> lot[c].x, y |-> lot[c].y, w |-> stub[c]]
    <3>1. p.y = "level"
      BY <2>2 DEF Repark, SpaceInv, SpacesAtLevel
    <3>2. /\ c \in open /\ ParkAt(c, p) /\ up
          /\ UNCHANGED <<open, up, programError>>
      BY <2>2 DEF Repark, Alive
    <3>3. parked' \subseteq parked \cup {c}
      BY <2>2, AskedFacts DEF Repark, SaveConfig
    <3> HIDE DEF p
    <3> QED BY <3>1, <3>2, <3>3, ParkAtKeeps
  <2>3. CASE ParkFirst(c)
    <3> DEFINE p == [x |-> FreeX(c), y |-> "level", w |-> stub[c]]
    <3>1. p.y = "level"
      OBVIOUS
    <3>2. /\ c \in open /\ ParkAt(c, p) /\ up
          /\ UNCHANGED <<open, up, programError>>
      BY <2>3 DEF ParkFirst, Alive
    <3>3. parked' \subseteq parked \cup {c}
      BY <2>3, AskedFacts DEF ParkFirst
    <3> HIDE DEF p
    <3> QED BY <3>1, <3>2, <3>3, ParkAtKeeps
  <2> QED BY <1>1, <2>1, <2>2, <2>3 DEF Park
<1>2. ASSUME NEW c \in Names, FindMoved(c) PROVE SpaceInv'
  BY <1>2 DEF FindMoved, Alive, SpaceInv, Shapes, Members, WindowsBelowTop,
              SpacesAtLevel, SavedAtSpace, NoProgramError
<1>3. ASSUME NEW c \in Names, NEW x \in Xs, NEW y \in Levels, Move(c, x, y)
      PROVE  SpaceInv'
  <2>1. y # "top"
    BY DEF NoTop
  <2> QED BY <1>3, <2>1 DEF Move, Alive, SpaceInv, Shapes, Members,
                WindowsBelowTop, SpacesAtLevel, SavedAtSpace, NoProgramError
<1>4. CASE Tidy
  BY <1>4, ReviewKeeps DEF Tidy, SpaceInv, Shapes
<1>5. CASE Quit
  <2>1. /\ UNCHANGED <<open, win, lot, hasLot, free, hasFree, programError>>
        /\ parked' = Asked(open, parked, win, lot)
    BY <1>5 DEF Quit, SaveConfig
  <2>2. parked' \subseteq parked /\ \A c \in parked' : c \in open => AtLot(c, win, lot)
    BY <2>1, AskedFacts
  <2> QED BY <2>1, <2>2 DEF SpaceInv, Shapes, Members, WindowsBelowTop,
                SpacesAtLevel, SavedAtSpace, NoProgramError, AtLot
<1>6. CASE Start
  <2> DEFINE l == [c \in Names |-> IF c \in hasLot THEN lot[c] ELSE Unset]
  <2>1. /\ ReviewParking(hasLot, parked, l, win)
        /\ UNCHANGED <<open, parked, hasLot, hasFree, programError>> /\ up'
        /\ free' = [c \in Names |-> IF c \in hasFree THEN free[c] ELSE Unset]
    BY <1>6 DEF Start
  <2>2. free' = [c \in Names |-> free'[c]]
    BY <2>1
  <2>3. \A c \in hasFree : c \in Names => free'[c] = free[c]
    BY <2>1
  <2>4. \A c \in Names : c \in hasLot \/ l[c] = lot[c] \/ l[c].y = "top"
    BY DEF Unset
  <2>5. \A c \in hasFree : free'[c] = free[c]
    BY <2>3 DEF SpaceInv, Members
  <2> HIDE DEF l
  <2> QED BY <2>1, <2>2, <2>4, <2>5, ReviewKeeps
<1>7. CASE UNCHANGED vars
  BY <1>7 DEF vars, SpaceInv, Shapes, Members, WindowsBelowTop, SpacesAtLevel,
              SavedAtSpace, NoProgramError, AtLot
<1>8. CASE Next
  BY <1>8, <1>1, <1>2, <1>3, <1>4, <1>5, <1>6, CloseKeeps, UnParkKeeps,
     RenameKeeps, AddKeeps, FindAllKeeps DEF Next
<1> QED BY <1>7, <1>8

-----------------------------------------------------------------------------
(* The row *)

\* The spaces S in l follow each other without gaps.
Packed(S, l) ==
    \A c \in S :
        /\ l[c].x = FirstX + RowLength(l, {d \in S : l[d].x < l[c].x})
        /\ \A d \in S \ {c} : l[c].x # l[d].x

\* The spaces that reviewParking() and park() are given: finitely many, each as
\* wide as a stub.
Spaces(S, l) ==
    /\ S \in SUBSET Names /\ IsFiniteSet(S) /\ l \in [Names -> Place]
    /\ \A c \in S : l[c].w \in Widths

\* Spaces that come earlier by f, an order or a position, end before those that
\* come later begin, if each begins where those before it end.
LEMMA EarlierEndsBefore ==
    ASSUME NEW S, NEW l, Spaces(S, l), NEW f, \A c \in S : f[c] \in Int,
           NEW c \in S, NEW d \in S, f[c] < f[d]
    PROVE  RowLength(l, {e \in S : f[e] < f[c]}) + l[c].w + Sep
               <= RowLength(l, {e \in S : f[e] < f[d]})
<1> DEFINE T == {e \in S : f[e] < f[c]}
           U == {e \in S : f[e] < f[d]}
<1>1. U \in SUBSET S /\ T \in SUBSET U /\ c \in U \ T
  OBVIOUS
<1>2. IsFiniteSet(U) /\ HasWidths(l, U)
  BY <1>1, SomeOfTheRow DEF Spaces
<1> HIDE DEF T, U
<1>3. RowLength(l, T) + l[c].w + Sep <= RowLength(l, U)
  BY <1>1, <1>2, RowLengthGrows, PlaceFacts
<1> QED BY <1>3 DEF T, U

LEMMA PackedGaps ==
    ASSUME NEW S, NEW l, Spaces(S, l), Packed(S, l), NEW c \in S, NEW d \in S,
           l[c].x < l[d].x
    PROVE  l[c].x + l[c].w + Sep <= l[d].x
<1> DEFINE f == [e \in S |-> l[e].x]
           Before(e) == {a \in S : l[a].x < l[e].x}
<1>1. \A e \in S : f[e] = l[e].x /\ f[e] \in Int /\ l[e].w \in Nat
  BY PlaceFacts DEF Spaces
<1>2. \A e \in S : {a \in S : f[a] < f[e]} = Before(e)
  BY <1>1
<1>3. RowLength(l, Before(c)) + l[c].w + Sep <= RowLength(l, Before(d))
  <2>1. f[c] < f[d] /\ \A e \in S : f[e] \in Int
    BY <1>1
  <2> HIDE DEF f, Before
  <2>2. RowLength(l, {a \in S : f[a] < f[c]}) + l[c].w + Sep
            <= RowLength(l, {a \in S : f[a] < f[d]})
    BY <2>1, EarlierEndsBefore
  <2> QED BY <1>2, <2>2
<1>4. \A e \in S : Before(e) \in SUBSET S /\ l[e].x = FirstX + RowLength(l, Before(e))
  BY DEF Packed
<1> HIDE DEF Before
<1>5. RowLength(l, Before(c)) \in Nat /\ RowLength(l, Before(d)) \in Nat
  BY <1>4, SomeOfTheRow DEF Spaces
<1> QED BY <1>1, <1>3, <1>4, <1>5, PlaceFacts

\* What the sort gives is a strict order of the spaces.
LEMMA OrdersFacts ==
    ASSUME NEW S, IsFiniteSet(S), NEW l, NEW r \in Orders(S, l)
    PROVE  /\ \A c \in S : r[c] \in Int
           /\ \A c, d \in S : c # d => r[c] < r[d] \/ r[d] < r[c]
           /\ \A c, d \in S : l[c].x < l[d].x => c = d \/ r[c] < r[d]
<1>1. r \in [S -> 1..Cardinality(S)] /\ Cardinality(S) \in Nat
  BY FS_CardinalityType DEF Orders
<1>2. \A c \in S : r[c] \in Int
  BY <1>1
<1>3. \A c, d \in S : c # d => r[c] # r[d] /\ (l[c].x < l[d].x => r[c] < r[d])
  BY DEF Orders
<1> QED BY <1>2, <1>3

\* Closed up in the order r, a space comes before another in the row just if
\* it does so in r.
LEMMA PackedXOrder ==
    ASSUME NEW S, NEW l, Spaces(S, l), NEW r \in Orders(S, l), NEW c \in S, NEW d \in S
    PROVE  r[c] < r[d] <=> PackedX(S, l, r, c) < PackedX(S, l, r, d)
<1>1. \A e \in S : r[e] \in Int /\ l[e].w \in Nat /\ l[e].w > 0 /\ PackedX(S, l, r, e) \in Nat
  BY OrdersFacts, PackedXType, PlaceFacts DEF Spaces
<1>2. ASSUME NEW a \in S, NEW b \in S, r[a] < r[b]
      PROVE  PackedX(S, l, r, a) < PackedX(S, l, r, b)
  <2> DEFINE Before(e) == {x \in S : r[x] < r[e]}
  <2>0. \A e \in S : r[e] \in Int
    BY <1>1
  <2>1. RowLength(l, Before(a)) + l[a].w + Sep <= RowLength(l, Before(b))
    BY <1>2, <2>0, EarlierEndsBefore
  <2>2. Before(a) \in SUBSET S /\ Before(b) \in SUBSET S
    OBVIOUS
  <2>3. /\ PackedX(S, l, r, a) = FirstX + RowLength(l, Before(a))
        /\ PackedX(S, l, r, b) = FirstX + RowLength(l, Before(b))
    BY DEF PackedX
  <2> HIDE DEF Before
  <2>4. RowLength(l, Before(a)) \in Nat /\ RowLength(l, Before(b)) \in Nat
    BY <2>2, SomeOfTheRow DEF Spaces
  <2> QED BY <1>1, <2>1, <2>3, <2>4, PlaceFacts
<1>3. CASE r[c] < r[d]
  BY <1>2, <1>3
<1>4. CASE ~ (r[c] < r[d])
  <2>1. CASE c = d
    BY <1>1, <1>4, <2>1
  <2>2. CASE c # d
    <3>1. r[d] < r[c]
      BY <1>4, <2>2, OrdersFacts DEF Spaces
    <3>2. PackedX(S, l, r, d) < PackedX(S, l, r, c)
      BY <1>2, <3>1
    <3> QED BY <1>1, <1>4, <3>2
  <2> QED BY <2>1, <2>2
<1> QED BY <1>3, <1>4

\* reviewParking() packs the row, keeps its order and the widths in it, and
\* puts the windows of the parked consoles into their spaces.
LEMMA ReviewPacks ==
    ASSUME NEW S, NEW P, NEW l, NEW w, Spaces(S, l), ReviewParking(S, P, l, w)
    PROVE  /\ Packed(S, lot')
           /\ \A c, d \in S : l[c].x < l[d].x => lot'[c].x < lot'[d].x
           /\ \A c \in S : lot'[c].w = l[c].w
           /\ \A c \in S \cap P : win'[c] = lot'[c]
           /\ untidy' = FALSE
<1>1. PICK r \in Orders(S, l) :
        /\ lot' = [c \in Names |->
                      IF c \in S
                      THEN [x |-> PackedX(S, l, r, c), y |-> "level", w |-> l[c].w]
                      ELSE l[c]]
        /\ win' = [c \in Names |-> IF c \in S \cap P THEN lot'[c] ELSE w[c]]
        /\ untidy' = FALSE
  BY DEF ReviewParking
<1>2. S \in SUBSET Names /\ IsFiniteSet(S)
  BY DEF Spaces
<1>3. \A c \in S : /\ lot'[c].x = PackedX(S, l, r, c) /\ lot'[c].w = l[c].w
                   /\ lot'[c].x \in Nat /\ l[c].x \in Int
  BY <1>1, <1>2, PackedXType, PlaceFacts DEF Spaces
<1>4. \A c, d \in S : r[c] < r[d] <=> lot'[c].x < lot'[d].x
  BY <1>3, PackedXOrder
<1>5. \A c, d \in S : l[c].x < l[d].x => lot'[c].x < lot'[d].x
  BY <1>2, <1>3, <1>4, OrdersFacts
<1>6. ASSUME NEW c \in S
      PROVE  lot'[c].x = FirstX + RowLength(lot', {d \in S : lot'[d].x < lot'[c].x})
  <2> DEFINE T == {d \in S : r[d] < r[c]}
  <2>1. T = {d \in S : lot'[d].x < lot'[c].x}
    BY <1>4
  <2>2. IsFiniteSet(T) /\ \A d \in T : lot'[d].w = l[d].w
    BY <1>2, <1>3, FS_Subset
  <2>3. lot'[c].x = FirstX + RowLength(l, T)
    BY <1>3 DEF PackedX
  <2> HIDE DEF T
  <2>4. RowLength(lot', T) = RowLength(l, T)
    BY <2>2, RowLengthSame
  <2> QED BY <2>1, <2>3, <2>4
<1>7. \A c \in S : \A d \in S \ {c} : lot'[c].x # lot'[d].x
  <2> SUFFICES ASSUME NEW c \in S, NEW d \in S, c # d PROVE lot'[c].x # lot'[d].x
    OBVIOUS
  <2>1. r[c] < r[d] \/ r[d] < r[c]
    BY <1>2, OrdersFacts
  <2>2. lot'[c].x < lot'[d].x \/ lot'[d].x < lot'[c].x
    BY <1>4, <2>1
  <2> QED BY <1>3, <2>2
<1>8. \A c \in S \cap P : win'[c] = lot'[c]
  BY <1>1, <1>2
<1> QED BY <1>1, <1>3, <1>5, <1>6, <1>7, <1>8 DEF Packed

\* It leaves a row that is packed as it is.
LEMMA ReviewLeaves ==
    ASSUME NEW S, NEW P, NEW l, NEW w, Spaces(S, l), Packed(S, l), ReviewParking(S, P, l, w)
    PROVE  \A c \in S : lot'[c].x = l[c].x
<1>1. PICK r \in Orders(S, l) :
           lot' = [c \in Names |->
                      IF c \in S
                      THEN [x |-> PackedX(S, l, r, c), y |-> "level", w |-> l[c].w]
                      ELSE l[c]]
  BY DEF ReviewParking
<1>2. ASSUME NEW c \in S PROVE lot'[c].x = l[c].x
  <2>1. lot'[c].x = PackedX(S, l, r, c)
    BY <1>1 DEF Spaces
  <2>2. \A d \in S : /\ r[d] \in Int /\ l[d].x \in Int
                     /\ d # c => l[c].x # l[d].x
                     /\ l[d].x < l[c].x => d = c \/ r[d] < r[c]
                     /\ l[c].x < l[d].x => d = c \/ r[c] < r[d]
    BY OrdersFacts, PlaceFacts DEF Spaces, Packed
  <2>3. \A d \in S : r[d] < r[c] <=> l[d].x < l[c].x
    BY <2>2
  <2>4. {d \in S : r[d] < r[c]} = {d \in S : l[d].x < l[c].x}
    BY <2>3
  <2>5. l[c].x = FirstX + RowLength(l, {d \in S : l[d].x < l[c].x})
    BY DEF Packed
  <2> QED BY <2>1, <2>4, <2>5 DEF PackedX
<1> QED BY <1>2

\* The part of the invariant that is about the row, and what a step does to
\* the order of it.
RowGood == StubsFit /\ WindowsInSpaces /\ RowIsPacked

OrderStays ==
    ~untidy => \A c, d \in hasLot \cap hasLot' :
        lot[c].x < lot[d].x => lot'[c].x < lot'[d].x

\* What the invariant says of the spaces and the parked windows.
LEMMA RowFacts ==
    ASSUME IInv
    PROVE  /\ Spaces(hasLot, lot)
           /\ ~untidy => Packed(hasLot, lot)
           /\ \A c \in hasLot : /\ lot[c].w = stub[c] /\ lot[c].y = "level"
                                /\ c \in open /\ lot[c] \in Place
           /\ \A c \in open : IsParked(c) => c \in hasLot
           /\ \A c \in hasLot \cap parked : win[c].w = stub[c] /\ win[c] \in Place
           /\ ~untidy => \A c \in hasLot \cap parked : AtLot(c, win, lot) => win[c] = lot[c]
<1>1. hasLot \in SUBSET Names /\ IsFiniteSet(hasLot) /\ hasLot \subseteq open
  BY FS_Subset DEF IInv, TypeOK, RowInv
<1>2. \A c \in hasLot : /\ lot[c].w = stub[c] /\ lot[c].y = "level" /\ lot[c] \in Place
                        /\ stub[c] \in Widths
  BY <1>1 DEF IInv, TypeOK, RowInv, StubsFit, SpaceInv, SpacesAtLevel
<1>3. \A c \in hasLot \cap parked : win[c].w = stub[c] /\ win[c] \in Place
  BY <1>1 DEF IInv, TypeOK, RowInv, StubsFit
<1>4. ~untidy => Packed(hasLot, lot)
  BY DEF IInv, RowInv, RowIsPacked, Packed
<1>5. Spaces(hasLot, lot)
  BY <1>1, <1>2 DEF Spaces, IInv, TypeOK
<1>6. \A c \in open : IsParked(c) => c \in hasLot
  BY ParkedHasLot DEF IInv
<1>7. ASSUME ~untidy, NEW c \in hasLot \cap parked, AtLot(c, win, lot) PROVE win[c] = lot[c]
  <2>1. win[c].x = lot[c].x
    BY <1>7 DEF IInv, RowInv, WindowsInSpaces
  <2>2. win[c].y = lot[c].y
    BY <1>7 DEF AtLot
  <2>3. win[c].w = lot[c].w /\ win[c] \in Place /\ lot[c] \in Place
    BY <1>2, <1>3
  <2> QED BY <2>1, <2>2, <2>3 DEF Place
<1> QED BY <1>1, <1>2, <1>3, <1>4, <1>5, <1>6, <1>7

\* reviewParking() of the spaces there are after the step.
LEMMA ReviewGood ==
    ASSUME NEW P, NEW l, NEW w, Spaces(hasLot', l), ReviewParking(hasLot', P, l, w),
           \A c \in hasLot' : l[c].w = stub'[c],
           \A c \in hasLot \cap hasLot' : l[c].x = lot[c].x,
           parked' \subseteq P
    PROVE  RowGood' /\ OrderStays
<1>1. /\ Packed(hasLot', lot')
      /\ \A c, d \in hasLot' : l[c].x < l[d].x => lot'[c].x < lot'[d].x
      /\ \A c \in hasLot' : lot'[c].w = l[c].w
      /\ \A c \in hasLot' \cap P : win'[c] = lot'[c]
      /\ untidy' = FALSE
  BY ReviewPacks
<1>2. StubsFit'
  BY <1>1 DEF StubsFit
<1>3. WindowsInSpaces'
  BY <1>1 DEF WindowsInSpaces
<1>4. RowIsPacked'
  BY <1>1 DEF RowIsPacked, Packed
<1>5. OrderStays
  BY <1>1 DEF OrderStays
<1> QED BY <1>2, <1>3, <1>4, <1>5 DEF RowGood

\* A step that leaves the spaces as they are, and puts no window of a parked
\* console elsewhere.
LEMMA SameRowGood ==
    ASSUME IInv, hasLot' = hasLot, lot' \in [Names -> Place],
           ~untidy' => ~untidy /\ lot' = lot,
           \A c \in hasLot : lot'[c].w = stub'[c],
           \A c \in hasLot : ~untidy => lot'[c].x = lot[c].x,
           \A c \in hasLot \cap parked' : win'[c].w = stub'[c],
           \A c \in hasLot \cap parked' :
               \/ c \in parked /\ win'[c] = win[c]
               \/ ~untidy' /\ AtLot(c, win', lot') => win'[c].x = lot'[c].x
    PROVE  RowGood' /\ OrderStays
<1>1. StubsFit'
  BY DEF StubsFit
<1>2. WindowsInSpaces'
  <2> SUFFICES ASSUME ~untidy', NEW c \in hasLot, c \in parked', AtLot(c, win', lot')
               PROVE  win'[c].x = lot'[c].x
    BY DEF WindowsInSpaces, AtLot
  <2>1. ~untidy /\ lot' = lot
    OBVIOUS
  <2>2. CASE c \in parked /\ win'[c] = win[c]
    BY <2>1, <2>2 DEF IInv, RowInv, WindowsInSpaces, AtLot
  <2>3. CASE ~(c \in parked /\ win'[c] = win[c])
    BY <2>3
  <2> QED BY <2>2, <2>3
<1>3. RowIsPacked'
  BY RowFacts DEF RowIsPacked, Packed
<1>4. OrderStays
  BY DEF OrderStays
<1> QED BY <1>1, <1>2, <1>3, <1>4 DEF RowGood

\* park() appends to the row.
LEMMA FreeXIs ==
    ASSUME IInv, ~untidy, NEW c \in open, c \notin hasLot
    PROVE  FreeX(c) = FirstX + RowLength(lot, hasLot)
<1> DEFINE others == {d \in open \ {c} : IsParked(d) \/ d \in hasLot}
           f == [d \in hasLot |-> RightEdge(d)]
           x == [d \in hasLot |-> lot[d].x]
<1>1. others = hasLot
  BY RowFacts
<1>2. ASSUME NEW d \in hasLot
      PROVE  /\ RightEdge(d) = lot[d].x + lot[d].w
             /\ lot[d].x \in Int /\ lot[d].w \in Nat
  <2>1. lot[d].w = stub[d] /\ lot[d] \in Place
    BY RowFacts
  <2>2. IsParked(d) => win[d] = lot[d]
    BY RowFacts DEF IsParked
  <2> QED BY <2>1, <2>2, PlaceFacts DEF RightEdge
<1>3. CASE hasLot = {}
  <2>1. FreeX(c) = FirstX
    BY <1>1, <1>3 DEF FreeX
  <2>2. RowLength(lot, {}) = 0
    BY RowLengthStep, FS_EmptySet
  <2> QED BY <1>3, <2>1, <2>2, PlaceFacts
<1>4. CASE hasLot # {}
  <2>0. IsFiniteSet(hasLot) /\ hasLot \in SUBSET Names /\ lot \in [Names -> Place]
    BY RowFacts DEF Spaces
  <2>1. PICK m \in hasLot : \A d \in hasLot : lot[m].x >= lot[d].x
    <3>1. \A d \in hasLot : x[d] = lot[d].x /\ x[d] \in Int
      BY <1>2
    <3>2. \E m \in hasLot : \A d \in hasLot : x[m] >= x[d]
      <4> HIDE DEF x
      <4> QED BY <1>4, <2>0, <3>1, GreatestOf
    <3> QED BY <3>1, <3>2
  <2>2. Packed(hasLot, lot) /\ Spaces(hasLot, lot)
    BY RowFacts
  <2>3. \A d \in hasLot : d # m => lot[d].x < lot[m].x
    <3> SUFFICES ASSUME NEW d \in hasLot, d # m PROVE lot[d].x < lot[m].x
      OBVIOUS
    <3>1. lot[m].x # lot[d].x
      BY <2>2 DEF Packed
    <3>2. lot[m].x \in Int /\ lot[d].x \in Int /\ lot[m].x >= lot[d].x
      BY <1>2, <2>1
    <3> QED BY <3>1, <3>2
  <2>4. \A d \in hasLot : RightEdge(d) <= RightEdge(m)
    <3> SUFFICES ASSUME NEW d \in hasLot, d # m PROVE RightEdge(d) <= RightEdge(m)
      BY <1>2
    <3>1. lot[d].x + lot[d].w + Sep <= lot[m].x
      BY <2>2, <2>3, PackedGaps
    <3> QED BY <1>2, <3>1, PlaceFacts
  <2>5. lot[m].x = FirstX + RowLength(lot, hasLot \ {m})
    <3>1. {d \in hasLot : lot[d].x < lot[m].x} = hasLot \ {m}
      BY <1>2, <2>3
    <3> QED BY <2>2, <3>1 DEF Packed
  <2>6. RowLength(lot, hasLot) = lot[m].w + Sep + RowLength(lot, hasLot \ {m})
    <3>1. HasWidths(lot, hasLot)
      BY <2>0, SomeOfTheRow
    <3> QED BY <2>0, <3>1, RowLengthTakeOff, PlaceFacts
  <2>7. RowLength(lot, hasLot \ {m}) \in Nat
    BY <2>0, SomeOfTheRow
  <2>8. Max({0} \cup {RightEdge(d) : d \in hasLot}) = RightEdge(m)
    <3> DEFINE A == {0} \cup {f[d] : d \in hasLot}
    <3>1. \A d \in hasLot : f[d] = RightEdge(d) /\ f[d] \in Int
      BY <1>2
    <3>2. Max(A) \in A /\ Max(A) \in Int /\ \A a \in A : Max(A) >= a
      <4> HIDE DEF f
      <4> QED BY <2>0, <3>1, MaxIs
    <3>3. A = {0} \cup {RightEdge(d) : d \in hasLot}
      BY <3>1
    <3>4. RightEdge(m) \in A /\ RightEdge(m) \in Nat
      BY <1>2, <2>5, <2>7, <3>3, PlaceFacts
    <3>5. Max(A) = 0 \/ \E d \in hasLot : Max(A) = RightEdge(d)
      BY <3>2, <3>3
    <3> HIDE DEF A
    <3>6. Max(A) >= RightEdge(m)
      BY <3>2, <3>4
    <3>7. Max(A) <= RightEdge(m)
      BY <2>4, <3>2, <3>4, <3>5
    <3> QED BY <3>2, <3>3, <3>4, <3>6, <3>7
  <2>9. FreeX(c) = Max({0} \cup {RightEdge(d) : d \in hasLot}) + Sep
    <3> HIDE DEF others
    <3>1. FreeX(c) = IF others = {} THEN FirstX
                     ELSE Max({0} \cup {RightEdge(d) : d \in others}) + Sep
      BY DEF FreeX, others
    <3> QED BY <1>1, <1>4, <3>1
  <2> QED BY <1>2, <2>5, <2>6, <2>7, <2>8, <2>9, PlaceFacts
<1> QED BY <1>3, <1>4

LEMMA ParkRow ==
    ASSUME IInv, TypeOK', NEW c \in Names, Park(c) PROVE RowGood' /\ OrderStays
<1>0. lot \in [Names -> Place] /\ win \in [Names -> Place] /\ lot' \in [Names -> Place]
  BY DEF IInv, TypeOK
<1>1. CASE ParkAgain(c)
  <2>1. /\ win' = [win EXCEPT ![c] = lot[c]]
        /\ UNCHANGED <<stub, parked, lot, hasLot, untidy>>
    BY <1>1 DEF ParkAgain
  <2>2. \A d \in Names : win'[d] = IF d = c THEN lot[d] ELSE win[d]
    BY <1>0, <2>1
  <2>3. \A d \in hasLot : lot'[d].w = stub'[d] /\ d \in Names
    BY <2>1, RowFacts DEF Spaces
  <2>4. \A d \in hasLot \cap parked' : win'[d].w = stub'[d]
    BY <2>1, <2>2, <2>3, RowFacts
  <2>5. \A d \in hasLot \cap parked' :
            \/ d \in parked /\ win'[d] = win[d]
            \/ ~untidy' /\ AtLot(d, win', lot') => win'[d].x = lot'[d].x
    BY <2>1, <2>2, <2>3
  <2> QED BY <1>0, <2>1, <2>3, <2>4, <2>5, SameRowGood
<1>2. CASE Repark(c)
  <2> DEFINE p == [x |-> lot[c].x, y |-> lot[c].y, w |-> stub[c]]
  <2>1. /\ ParkAt(c, p) /\ c \in hasLot /\ UNCHANGED <<stub, untidy>>
        /\ parked' \subseteq parked \cup {c}
    BY <1>2, AskedFacts DEF Repark, SaveConfig
  <2>2. lot[c] = p
    <3>1. lot[c].w = stub[c] /\ lot[c] \in Place
      BY <2>1, RowFacts
    <3> QED BY <3>1 DEF Place
  <2> HIDE DEF p
  <2>3. /\ lot' = lot /\ hasLot' = hasLot
        /\ \A d \in Names : win'[d] = IF d = c THEN lot[d] ELSE win[d]
    BY <1>0, <2>1, <2>2 DEF ParkAt
  <2>4. \A d \in hasLot : lot'[d].w = stub'[d] /\ d \in Names
    BY <2>1, <2>3, RowFacts DEF Spaces
  <2>5. \A d \in hasLot \cap parked' : win'[d].w = stub'[d]
    BY <2>1, <2>3, <2>4, RowFacts
  <2>6. \A d \in hasLot \cap parked' :
            \/ d \in parked /\ win'[d] = win[d]
            \/ ~untidy' /\ AtLot(d, win', lot') => win'[d].x = lot'[d].x
    BY <2>1, <2>3, <2>4
  <2> QED BY <1>0, <2>1, <2>3, <2>4, <2>5, <2>6, SameRowGood
<1>3. CASE ParkFirst(c)
  <2> DEFINE p == [x |-> FreeX(c), y |-> "level", w |-> stub[c]]
  <2>1. /\ ParkAt(c, p) /\ c \in open /\ c \notin hasLot /\ UNCHANGED <<stub, untidy>>
        /\ parked' \subseteq parked \cup {c}
    BY <1>3, AskedFacts DEF ParkFirst, Alive
  <2>2. p.x = FreeX(c) /\ p.w = stub[c]
    OBVIOUS
  <2> HIDE DEF p
  <2>3. /\ hasLot' = hasLot \cup {c} /\ hasLot \subseteq Names
        /\ \A d \in Names : lot'[d] = IF d = c THEN p ELSE lot[d]
        /\ \A d \in Names : win'[d] = IF d = c THEN p ELSE win[d]
    BY <1>0, <2>1, RowFacts DEF ParkAt, Spaces
  <2>4. \A d \in hasLot : d # c /\ lot'[d] = lot[d]
    BY <2>1, <2>3
  <2>5. \A d \in hasLot' : lot'[d].w = stub'[d]
    BY <2>1, <2>2, <2>3, <2>4, RowFacts
  <2>6. \A d \in hasLot' \cap parked' : win'[d].w = stub'[d]
    BY <2>1, <2>2, <2>3, RowFacts
  <2>7. StubsFit'
    BY <2>5, <2>6 DEF StubsFit
  <2>8. WindowsInSpaces'
    <3> SUFFICES ASSUME ~untidy', NEW d \in hasLot', d \in parked', AtLot(d, win', lot')
                 PROVE  win'[d].x = lot'[d].x
      BY DEF WindowsInSpaces, AtLot
    <3>1. CASE d = c
      BY <2>3, <3>1
    <3>2. CASE d # c
      <4>1. win'[d] = win[d] /\ lot'[d] = lot[d] /\ d \in hasLot \cap parked /\ ~untidy
        BY <2>1, <2>3, <3>2
      <4> QED BY <4>1, RowFacts DEF AtLot
    <3> QED BY <3>1, <3>2
  <2>9. RowIsPacked'
    <3> SUFFICES ASSUME ~untidy PROVE Packed(hasLot', lot')
      BY <2>1 DEF RowIsPacked, Packed
    <3>1. /\ Packed(hasLot, lot) /\ Spaces(hasLot, lot)
          /\ \A d \in hasLot : lot[d] \in Place
      BY RowFacts
    <3>2. lot'[c].x = FirstX + RowLength(lot, hasLot)
      BY <2>1, <2>2, <2>3, FreeXIs
    <3>3. \A d \in hasLot : lot[d].x < lot'[c].x
      <4> SUFFICES ASSUME NEW d \in hasLot PROVE lot[d].x < lot'[c].x
        OBVIOUS
      <4> DEFINE T == {e \in hasLot : lot[e].x < lot[d].x}
      <4>1. lot[d].x = FirstX + RowLength(lot, T)
        BY <3>1 DEF Packed
      <4>2. T \in SUBSET hasLot /\ d \in hasLot \ T
        BY <3>1, PlaceFacts
      <4> HIDE DEF T
      <4>3. /\ HasWidths(lot, hasLot) /\ RowLength(lot, T) \in Nat
            /\ RowLength(lot, hasLot) \in Nat /\ IsFiniteSet(hasLot)
        BY <3>1, <4>2, SomeOfTheRow DEF Spaces
      <4>4. RowLength(lot, T) + lot[d].w + Sep <= RowLength(lot, hasLot)
        BY <4>2, <4>3, RowLengthGrows, PlaceFacts
      <4>5. lot[d].w \in Nat /\ lot[d].w > 0
        BY <3>1, PlaceFacts DEF Spaces
      <4> QED BY <3>2, <4>1, <4>3, <4>4, <4>5, PlaceFacts
    <3>4. lot'[c].x \in Int /\ \A d \in hasLot : lot'[d].x \in Int
      BY <1>0, <2>3, PlaceFacts
    <3>5. ASSUME NEW d \in hasLot'
          PROVE  lot'[d].x = FirstX + RowLength(lot', {e \in hasLot' : lot'[e].x < lot'[d].x})
      <4>1. CASE d = c
        <5>1. {e \in hasLot' : lot'[e].x < lot'[d].x} = hasLot
          BY <2>3, <2>4, <3>3, <3>4, <4>1
        <5>2. RowLength(lot', hasLot) = RowLength(lot, hasLot)
          BY <2>4, <3>1, RowLengthSame DEF Spaces
        <5> QED BY <3>2, <4>1, <5>1, <5>2
      <4>2. CASE d # c
        <5> DEFINE T == {e \in hasLot : lot[e].x < lot[d].x}
        <5>1. d \in hasLot /\ lot'[d].x = lot[d].x
          BY <2>3, <2>4, <4>2
        <5>2. {e \in hasLot' : lot'[e].x < lot'[d].x} = T
          BY <2>3, <2>4, <3>3, <3>4, <5>1
        <5>3. lot[d].x = FirstX + RowLength(lot, T)
          BY <3>1, <5>1 DEF Packed
        <5>4. IsFiniteSet(T) /\ \A e \in T : lot'[e].w = lot[e].w
          BY <2>4, <3>1, FS_Subset DEF Spaces
        <5> HIDE DEF T
        <5>5. RowLength(lot', T) = RowLength(lot, T)
          BY <5>4, RowLengthSame
        <5> QED BY <5>1, <5>2, <5>3, <5>5
      <4> QED BY <4>1, <4>2
    <3>6. \A d \in hasLot' : \A e \in hasLot' \ {d} : lot'[d].x # lot'[e].x
      <4> SUFFICES ASSUME NEW d \in hasLot', NEW e \in hasLot', d # e
                   PROVE  lot'[d].x # lot'[e].x
        OBVIOUS
      <4>1. CASE d = c
        <5>1. e \in hasLot /\ lot'[e] = lot[e]
          BY <2>3, <2>4, <4>1
        <5> QED BY <3>3, <3>4, <4>1, <5>1
      <4>2. CASE e = c
        <5>1. d \in hasLot /\ lot'[d] = lot[d]
          BY <2>3, <2>4, <4>2
        <5> QED BY <3>3, <3>4, <4>2, <5>1
      <4>3. CASE d # c /\ e # c
        <5>1. d \in hasLot /\ lot'[d] = lot[d] /\ e \in hasLot /\ lot'[e] = lot[e]
          BY <2>3, <2>4, <4>3
        <5> QED BY <3>1, <5>1 DEF Packed
      <4> QED BY <4>1, <4>2, <4>3
    <3> QED BY <3>5, <3>6 DEF Packed
  <2>10. OrderStays
    BY <2>4 DEF OrderStays
  <2> QED BY <2>7, <2>8, <2>9, <2>10 DEF RowGood
<1> QED BY <1>1, <1>2, <1>3 DEF Park

\* Spaces of which some were given up, and one that has none is changed.
LEMMA FewerSpaces ==
    ASSUME IInv, NEW S \in SUBSET hasLot, NEW l \in [Names -> Place],
           \A d \in S : l[d] = lot[d]
    PROVE  Spaces(S, l) /\ \A d \in S : l[d].w = stub[d] /\ l[d].x = lot[d].x
<1>1. Spaces(hasLot, lot) /\ \A d \in hasLot : lot[d].w = stub[d]
  BY RowFacts
<1>2. IsFiniteSet(S)
  BY <1>1, FS_Subset DEF Spaces
<1> QED BY <1>1, <1>2 DEF Spaces

LEMMA UnParkRow ==
    ASSUME IInv, TypeOK', NEW c \in Names, NEW shift \in BOOLEAN, UnPark(c, shift)
    PROVE  RowGood' /\ OrderStays
<1>0. lot \in [Names -> Place] /\ win \in [Names -> Place] /\ lot' \in [Names -> Place]
  BY DEF IInv, TypeOK
<1>1. /\ c \in open /\ IsParked(c) /\ stub' = stub /\ parked' \subseteq parked \ {c}
  BY AskedFacts DEF UnPark, Vacate, Alive, SaveConfig
<1>2. c \in hasLot \cap parked /\ AtLot(c, win, lot)
  BY <1>1, RowFacts DEF IsParked
<1> DEFINE l == [lot EXCEPT ![c] = win[c]]
<1>3. CASE shift
  <2>1. hasLot' = hasLot \ {c} /\ ReviewParking(hasLot \ {c}, parked, l, Restored(c))
    BY <1>3 DEF UnPark, Vacate
  <2>2. /\ l \in [Names -> Place] /\ hasLot \ {c} \in SUBSET hasLot
        /\ \A d \in hasLot \ {c} : l[d] = lot[d]
    BY <1>0
  <2> HIDE DEF l
  <2>3. /\ Spaces(hasLot', l)
        /\ \A d \in hasLot' : l[d].w = stub'[d] /\ l[d].x = lot[d].x
    BY <1>1, <2>1, <2>2, FewerSpaces
  <2>4. ReviewParking(hasLot', parked, l, Restored(c)) /\ parked' \subseteq parked
    BY <1>1, <2>1
  <2> QED BY <2>3, <2>4, ReviewGood
<1>4. CASE ~shift
  <2>1. /\ hasLot' = hasLot /\ lot' = l /\ win' = Restored(c) /\ UNCHANGED untidy
    BY <1>2, <1>4 DEF UnPark, Vacate
  <2>2. /\ \A d \in Names : lot'[d] = IF d = c THEN win[d] ELSE lot[d]
        /\ \A d \in Names : d # c => win'[d] = win[d]
    BY <1>0, <2>1 DEF Restored
  <2>3. ~untidy => win[c] = lot[c]
    BY <1>2, RowFacts
  <2> HIDE DEF l
  <2>4. ~untidy => lot' = lot
    BY <1>0, <2>2, <2>3
  <2>5. \A d \in hasLot : lot'[d].w = stub'[d] /\ d \in Names
    BY <1>1, <1>2, <2>2, RowFacts DEF Spaces
  <2>6. \A d \in hasLot \cap parked' : d # c /\ d \in parked /\ win'[d] = win[d]
    BY <1>1, <2>2, <2>5
  <2>7. \A d \in hasLot \cap parked' : win'[d].w = stub'[d]
    BY <1>1, <2>6, RowFacts
  <2>8. ~untidy' => ~untidy /\ lot' = lot
    BY <2>1, <2>4
  <2>9. \A d \in hasLot : ~untidy => lot'[d].x = lot[d].x
    BY <2>4
  <2> QED BY <1>0, <2>1, <2>5, <2>6, <2>7, <2>8, <2>9, SameRowGood
<1> QED BY <1>3, <1>4

LEMMA RenameRow ==
    ASSUME IInv, TypeOK', NEW c \in Names, NEW w \in Widths, NEW tools \in BOOLEAN,
           Rename(c, w, tools)
    PROVE  RowGood' /\ OrderStays
<1> DEFINE P == Asked({c}, parked, win, lot)
           l == IF c \in hasLot THEN [lot EXCEPT ![c] = [@ EXCEPT !.w = w]] ELSE lot
           v == IF IsParked(c) THEN [win EXCEPT ![c] = [@ EXCEPT !.w = w]] ELSE win
<1>0. lot \in [Names -> Place] /\ stub \in [Names -> Widths]
  BY DEF IInv, TypeOK
<1>1. /\ ReviewParking(hasLot, P, l, v) /\ hasLot' = hasLot
      /\ stub' = [stub EXCEPT ![c] = w]
      /\ parked' = P \/ SaveConfig(P)
  BY DEF Rename
<1>2. parked' \subseteq P
  BY <1>1, AskedFacts DEF SaveConfig
<1>3. Spaces(hasLot, lot) /\ \A d \in hasLot : lot[d].w = stub[d] /\ lot[d] \in Place /\ d \in Names
  BY RowFacts DEF Spaces
<1>4. l \in [Names -> Place]
  <2>1. [lot[c] EXCEPT !.w = w] \in Place
    BY <1>0, PlaceFacts
  <2> QED BY <1>0, <2>1
<1>5. \A d \in hasLot : l[d].x = lot[d].x /\ l[d].w = IF d = c THEN w ELSE lot[d].w
  <2> SUFFICES ASSUME NEW d \in hasLot
               PROVE  l[d].x = lot[d].x /\ l[d].w = IF d = c THEN w ELSE lot[d].w
    OBVIOUS
  <2>1. CASE d = c
    <3>1. l[d] = [lot[c] EXCEPT !.w = w] /\ lot[c] \in Place
      BY <1>0, <2>1
    <3>2. [lot[c] EXCEPT !.w = w].x = lot[c].x /\ [lot[c] EXCEPT !.w = w].w = w
      BY <3>1 DEF Place
    <3> HIDE DEF l
    <3> QED BY <2>1, <3>1, <3>2
  <2>2. CASE d # c
    BY <1>0, <1>3, <2>2
  <2> QED BY <2>1, <2>2
<1> HIDE DEF P, l, v
<1>6. \A d \in hasLot : l[d].w = stub'[d]
  BY <1>0, <1>1, <1>3, <1>5
<1>7. Spaces(hasLot', l)
  BY <1>1, <1>3, <1>4, <1>5 DEF Spaces
<1>8. ReviewParking(hasLot', P, l, v)
  BY <1>1
<1> QED BY <1>1, <1>2, <1>5, <1>6, <1>7, <1>8, ReviewGood

LEMMA CloseRow ==
    ASSUME IInv, TypeOK', NEW c \in Names, Close(c) PROVE RowGood' /\ OrderStays
<1> DEFINE l == [lot EXCEPT ![c] = Unset]
           v == [win EXCEPT ![c] = Unset]
<1>1. /\ ReviewParking(hasLot \ {c}, parked \ {c}, l, v)
      /\ hasLot' = hasLot \ {c} /\ stub' = stub
      /\ parked' \subseteq parked \ {c}
  BY AskedFacts DEF Close, SaveConfig
<1>2. /\ l \in [Names -> Place] /\ hasLot \ {c} \in SUBSET hasLot
      /\ \A d \in hasLot \ {c} : l[d] = lot[d]
  BY PlaceFacts DEF IInv, TypeOK
<1> HIDE DEF l, v
<1>3. /\ Spaces(hasLot', l)
      /\ \A d \in hasLot' : l[d].w = stub'[d] /\ l[d].x = lot[d].x
  BY <1>1, <1>2, FewerSpaces
<1>4. ReviewParking(hasLot', parked \ {c}, l, v)
  BY <1>1
<1> QED BY <1>1, <1>3, <1>4, ReviewGood

LEMMA AddRow ==
    ASSUME IInv, TypeOK', NEW c \in Names, NEW w \in Widths, NEW x \in Xs, NEW y \in Levels,
           NEW garbage \in BOOLEAN, NEW tools \in BOOLEAN, Add(c, w, x, y, garbage, tools)
    PROVE  RowGood' /\ OrderStays
<1>0. win \in [Names -> Place] /\ stub \in [Names -> Widths] /\ lot \in [Names -> Place]
  BY DEF IInv, TypeOK
<1>1. /\ c \notin open /\ stub' = [stub EXCEPT ![c] = w]
      /\ win' = [win EXCEPT ![c] = [x |-> x, y |-> y, w |-> Wide]]
      /\ UNCHANGED <<lot, hasLot, untidy>>
      /\ parked' \subseteq parked \cup {c}
  BY AskedFacts DEF Add, SaveConfig
<1>2. \A d \in hasLot : d # c /\ d \in Names /\ lot[d].w = stub[d]
  BY <1>1, RowFacts DEF Spaces
<1>3. \A d \in hasLot : win'[d] = win[d] /\ stub'[d] = stub[d]
  BY <1>0, <1>1, <1>2
<1>4. \A d \in hasLot \cap parked' : d \in parked /\ win'[d] = win[d]
  BY <1>1, <1>2, <1>3
<1>5. \A d \in hasLot \cap parked' : win'[d].w = stub'[d]
  BY <1>3, <1>4, RowFacts
<1>6. \A d \in hasLot : lot'[d].w = stub'[d]
  BY <1>1, <1>2, <1>3
<1> QED BY <1>0, <1>1, <1>4, <1>5, <1>6, SameRowGood

LEMMA FindAllRow ==
    ASSUME IInv, TypeOK', FindAllConsoles PROVE RowGood' /\ OrderStays
<1>0. lot \in [Names -> Place] /\ lot' \in [Names -> Place]
  BY DEF IInv, TypeOK
<1>1. /\ lot' = [c \in Names |-> IF IsParked(c) THEN win[c] ELSE lot[c]]
      /\ hasLot' = hasLot \cup {c \in open : IsParked(c)}
      /\ parked' = {} /\ UNCHANGED <<stub, untidy>>
  BY DEF FindAllConsoles
<1>2. hasLot' = hasLot /\ \A c \in hasLot : c \in Names /\ lot[c].w = stub[c]
  BY <1>1, RowFacts DEF Spaces
<1>3. ASSUME NEW c \in Names, IsParked(c)
      PROVE  win[c].w = stub[c] /\ (~untidy => win[c] = lot[c])
  <2>1. c \in open /\ c \in parked /\ AtLot(c, win, lot)
    BY <1>3 DEF IsParked, IInv, TypeOK
  <2> QED BY <1>3, <2>1, RowFacts
<1>4. \A c \in hasLot : lot'[c].w = stub'[c]
  BY <1>1, <1>2, <1>3
<1>5. ~untidy => lot' = lot
  BY <1>0, <1>1, <1>3
<1>6. \A c \in hasLot : ~untidy => lot'[c].x = lot[c].x
  BY <1>5
<1> QED BY <1>0, <1>1, <1>2, <1>4, <1>5, <1>6, SameRowGood

LEMMA RestRow ==
    ASSUME IInv, TypeOK',
           \/ \E c \in Names : FindMoved(c) \/ \E x \in Xs, y \in Levels : Move(c, x, y)
           \/ Tidy \/ Quit \/ Start \/ UNCHANGED vars
    PROVE  RowGood' /\ OrderStays
<1>0. /\ lot \in [Names -> Place] /\ win \in [Names -> Place] /\ lot' \in [Names -> Place]
      /\ \A c \in hasLot : c \in Names /\ lot[c].w = stub[c]
  BY RowFacts DEF IInv, TypeOK, Spaces
<1>1. ASSUME UNCHANGED <<win, lot, hasLot, stub, untidy>>, parked' \subseteq parked
      PROVE  RowGood' /\ OrderStays
  <2>1. \A c \in hasLot \cap parked' : c \in parked /\ win'[c] = win[c] /\ win'[c].w = stub'[c]
    BY <1>1, RowFacts
  <2>2. \A c \in hasLot : lot'[c].w = stub'[c]
    BY <1>0, <1>1
  <2> QED BY <1>0, <1>1, <2>1, <2>2, SameRowGood
<1>2. ASSUME NEW c \in Names, FindMoved(c) PROVE RowGood' /\ OrderStays
  BY <1>1, <1>2 DEF FindMoved
<1>3. CASE Quit
  BY <1>1, <1>3, AskedFacts DEF Quit, SaveConfig
<1>4. CASE UNCHANGED vars
  BY <1>1, <1>4 DEF vars
<1>5. ASSUME NEW c \in Names, NEW x \in Xs, NEW y \in Levels, Move(c, x, y)
      PROVE  RowGood' /\ OrderStays
  <2>1. /\ win' = [win EXCEPT ![c] = [x |-> x, y |-> y, w |-> win[c].w]]
        /\ untidy' = (untidy \/ (c \in parked /\ AtLot(c, win', lot) /\ x # lot[c].x))
        /\ UNCHANGED <<stub, parked, lot, hasLot>>
    BY <1>5 DEF Move
  <2>2. /\ \A d \in Names : d # c => win'[d] = win[d]
        /\ win'[c] = [x |-> x, y |-> y, w |-> win[c].w]
    BY <1>0, <2>1
  <2>3. win'[c].x = x /\ win'[c].w = win[c].w
    BY <2>2
  <2>4. \A d \in hasLot \cap parked' : win'[d].w = stub'[d]
    BY <1>0, <2>1, <2>2, <2>3, RowFacts
  <2>5. \A d \in hasLot \cap parked' :
            \/ d \in parked /\ win'[d] = win[d]
            \/ ~untidy' /\ AtLot(d, win', lot') => win'[d].x = lot'[d].x
    <3> SUFFICES ASSUME NEW d \in hasLot, d \in parked', d = c,
                        ~untidy', AtLot(d, win', lot')
                 PROVE  win'[d].x = lot'[d].x
      BY <1>0, <2>1, <2>2
    <3> QED BY <2>1, <2>3
  <2>6. \A d \in hasLot : lot'[d].w = stub'[d]
    BY <1>0, <2>1
  <2>7. ~untidy' => ~untidy /\ lot' = lot
    BY <2>1
  <2>8. hasLot' = hasLot /\ \A d \in hasLot : ~untidy => lot'[d].x = lot[d].x
    BY <2>1
  <2> QED BY <1>0, <2>4, <2>5, <2>6, <2>7, <2>8, SameRowGood
<1>6. CASE Tidy
  <2>1. ReviewParking(hasLot', parked, lot, win) /\ UNCHANGED <<stub, parked, hasLot>>
    BY <1>6 DEF Tidy
  <2>2. Spaces(hasLot', lot) /\ \A c \in hasLot' : lot[c].w = stub'[c]
    BY <1>0, <2>1, RowFacts
  <2> QED BY <2>1, <2>2, ReviewGood
<1>7. CASE Start
  <2> DEFINE l == [c \in Names |-> IF c \in hasLot THEN lot[c] ELSE Unset]
  <2>1. ReviewParking(hasLot, parked, l, win) /\ UNCHANGED <<stub, parked, hasLot>>
    BY <1>7 DEF Start
  <2>2. l \in [Names -> Place] /\ \A c \in hasLot : l[c] = lot[c]
    BY <1>0, PlaceFacts
  <2> HIDE DEF l
  <2>3. hasLot \in SUBSET hasLot
    OBVIOUS
  <2>4. Spaces(hasLot, l) /\ \A c \in hasLot : l[c].w = stub[c] /\ l[c].x = lot[c].x
    BY <2>2, <2>3, FewerSpaces
  <2>5. /\ Spaces(hasLot', l) /\ ReviewParking(hasLot', parked, l, win)
        /\ \A c \in hasLot' : l[c].w = stub'[c] /\ l[c].x = lot[c].x
    BY <2>1, <2>4
  <2> QED BY <2>1, <2>5, ReviewGood
<1> QED BY <1>2, <1>3, <1>4, <1>5, <1>6, <1>7

-----------------------------------------------------------------------------
(* The theorems *)

LEMMA RowStep ==
    ASSUME IInv, TypeOK', [Next]_vars PROVE RowGood' /\ OrderStays
<1>1. CASE Next
  <2>1. ASSUME NEW c \in Names, Park(c) PROVE RowGood' /\ OrderStays
    BY <2>1, ParkRow
  <2>2. ASSUME NEW c \in Names, NEW shift \in BOOLEAN, UnPark(c, shift)
        PROVE  RowGood' /\ OrderStays
    BY <2>2, UnParkRow
  <2>3. ASSUME NEW c \in Names, NEW w \in Widths, NEW tools \in BOOLEAN, Rename(c, w, tools)
        PROVE  RowGood' /\ OrderStays
    BY <2>3, RenameRow
  <2>4. ASSUME NEW c \in Names, NEW w \in Widths, NEW x \in Xs, NEW y \in Levels,
               NEW garbage \in BOOLEAN, NEW tools \in BOOLEAN,
               Add(c, w, x, y, garbage, tools)
        PROVE  RowGood' /\ OrderStays
    BY <2>4, AddRow
  <2>5. ASSUME NEW c \in Names, Close(c) PROVE RowGood' /\ OrderStays
    BY <2>5, CloseRow
  <2>6. CASE FindAllConsoles
    BY <2>6, FindAllRow
  <2>7. CASE \/ \E c \in Names : FindMoved(c) \/ \E x \in Xs, y \in Levels : Move(c, x, y)
             \/ Tidy \/ Quit \/ Start
    BY <2>7, RestRow
  <2> QED BY <1>1, <2>1, <2>2, <2>3, <2>4, <2>5, <2>6, <2>7 DEF Next
<1> QED BY <1>1, RestRow

LEMMA IInvInit == Init => IInv
<1> SUFFICES ASSUME Init PROVE IInv
  OBVIOUS
<1>1. TypeInv /\ SpaceInv
  BY TypeInvInit, SpaceInvInit
<1>2. hasLot = {}
  BY DEF Init
<1>3. StubsFit /\ WindowsInSpaces /\ RowIsPacked
  BY <1>2 DEF StubsFit, WindowsInSpaces, RowIsPacked
<1> QED BY <1>1, <1>3 DEF IInv, TypeInv, RowInv

LEMMA IInvStep ==
    ASSUME NoTop PROVE IInv /\ [Next]_vars => IInv' /\ OrderStays
<1> SUFFICES ASSUME IInv, [Next]_vars PROVE IInv' /\ OrderStays
  OBVIOUS
<1>1. TypeInv /\ SpaceInv
  BY DEF IInv, TypeInv, RowInv
<1>2. TypeInv'
  BY <1>1, TypeInvStep
<1>3. SpaceInv'
  BY <1>1, SpaceInvStep
<1>4. TypeOK'
  BY <1>2 DEF TypeInv
<1>5. RowGood' /\ OrderStays
  BY <1>4, RowStep
<1> QED BY <1>2, <1>3, <1>5 DEF IInv, TypeInv, RowInv, RowGood

\* As long as no window is at the very top of the screen, only consoles with a
\* space are put into it, and the row of the spaces is packed unless the user
\* has moved a window in it: from this the theorems below follow.
THEOREM ParkingInvariance == ASSUME NoTop PROVE Spec => []IInv
<1>1. IInv /\ [Next]_vars => IInv'
  BY IInvStep
<1> QED BY <1>1, IInvInit, PTL DEF Spec

-----------------------------------------------------------------------------
\* setLocation() is never called with a location that is not set, although
\* m_parked of a new console may be anything.
THEOREM LocationsAreSet ==
    ASSUME NoTop PROVE Spec => []NoProgramError
<1>1. IInv => NoProgramError
  BY DEF IInv, SpaceInv
<1> QED BY <1>1, ParkingInvariance, PTL

\* The configuration never says that a console was parked which was not.
THEOREM ConfigTruthful ==
    ASSUME NoTop PROVE Spec => []ConfigIsTruthful
<1>1. IInv => ConfigIsTruthful
  BY ParkedHasLot DEF IInv, SpaceInv, SavedAtSpace, ConfigIsTruthful, Members,
                      IsParked, AtLot
<1> QED BY <1>1, ParkingInvariance, PTL

\* The row starts at m_parkFirstX and its spaces follow each other m_parkSep
\* apart, for any number of consoles and in whatever order they are parked,
\* renamed, unparked and closed, as long as the user moves none along the row.
THEOREM RowPacked ==
    ASSUME NoTop PROVE Spec => []RowIsPacked
<1>1. IInv => RowIsPacked
  BY DEF IInv, RowInv
<1> QED BY <1>1, ParkingInvariance, PTL

\* No step swaps two spaces of a tidy row, although the sort of
\* reviewParking() is not stable.
THEOREM OrderKept ==
    ASSUME NoTop PROVE Spec => OrderIsKept
<1> DEFINE Kept == ~untidy => \A c, d \in hasLot \cap hasLot' :
                        lot[c].x < lot[d].x => lot'[c].x < lot'[d].x
<1>1. IInv /\ [Next]_vars => Kept
  BY IInvStep DEF OrderStays
<1>2. Spec => [][Kept]_vars
  <2> HIDE DEF Kept
  <2> QED BY <1>1, ParkingInvariance, PTL DEF Spec
<1> QED BY <1>2 DEF OrderIsKept

\* reviewParking() of a row that is tidy and of windows that are in it.
LEMMA StartMovesNothing ==
    ASSUME IInv, ~up, ~untidy, Start PROVE win' = win
<1> DEFINE l == [c \in Names |-> IF c \in hasLot THEN lot[c] ELSE Unset]
<1>1. ReviewParking(hasLot, parked, l, win)
  BY DEF Start
<1>2. /\ l \in [Names -> Place] /\ win \in [Names -> Place]
      /\ hasLot \in SUBSET Names /\ \A c \in hasLot : l[c] = lot[c]
  BY PlaceFacts, RowFacts DEF IInv, TypeOK, Spaces
<1>3. hasLot \in SUBSET hasLot
  OBVIOUS
<1> HIDE DEF l
<1>4. Spaces(hasLot, l)
  BY <1>2, <1>3, FewerSpaces
<1>5. Packed(hasLot, l)
  <2>1. Packed(hasLot, lot) /\ IsFiniteSet(hasLot)
    BY RowFacts DEF Spaces
  <2>2. ASSUME NEW c \in hasLot
        PROVE  l[c].x = FirstX + RowLength(l, {d \in hasLot : l[d].x < l[c].x})
    <3> DEFINE T == {d \in hasLot : lot[d].x < lot[c].x}
    <3>1. {d \in hasLot : l[d].x < l[c].x} = T
      BY <1>2
    <3>2. IsFiniteSet(T) /\ \A d \in T : l[d].w = lot[d].w
      BY <1>2, <2>1, FS_Subset
    <3>3. lot[c].x = FirstX + RowLength(lot, T)
      BY <2>1 DEF Packed
    <3> HIDE DEF T
    <3>4. RowLength(l, T) = RowLength(lot, T)
      BY <3>2, RowLengthSame
    <3> QED BY <1>2, <3>1, <3>3, <3>4
  <2> QED BY <1>2, <2>1, <2>2 DEF Packed
<1>6. \A c \in hasLot : lot'[c].x = l[c].x
  BY <1>1, <1>4, <1>5, ReviewLeaves
<1>7. /\ Packed(hasLot, lot')
      /\ \A c, d \in hasLot : l[c].x < l[d].x => lot'[c].x < lot'[d].x
      /\ \A c \in hasLot : lot'[c].w = l[c].w
      /\ \A c \in hasLot \cap parked : win'[c] = lot'[c]
      /\ untidy' = FALSE
  BY <1>1, <1>4, ReviewPacks
<1>8. /\ win' = [c \in Names |-> win'[c]]
      /\ \A c \in Names : c \notin hasLot \cap parked => win'[c] = win[c]
      /\ \A c \in hasLot : lot'[c] = [x |-> lot'[c].x, y |-> "level", w |-> l[c].w]
  BY <1>1, <1>2 DEF ReviewParking
<1>9. ASSUME NEW c \in hasLot \cap parked PROVE win'[c] = win[c]
  <2>1. win[c] = lot[c]
    BY RowFacts DEF IInv, SpaceInv, SavedAtSpace
  <2>2. lot[c].y = "level" /\ lot[c] \in Place
    BY RowFacts
  <2>3. lot'[c] = [x |-> lot[c].x, y |-> "level", w |-> lot[c].w]
    BY <1>2, <1>6, <1>8
  <2>4. lot'[c] = lot[c]
    BY <2>2, <2>3 DEF Place
  <2> QED BY <1>7, <2>1, <2>4
<1>10. \A c \in Names : win'[c] = win[c]
  BY <1>8, <1>9
<1> QED BY <1>2, <1>8, <1>10

\* Stopping the plugin and starting it again moves no window, if the row was
\* tidy: what reviewParking() makes of what was saved is what was saved.
THEOREM RestartMoves ==
    ASSUME NoTop PROVE Spec => RestartMovesNothing
<1> DEFINE Stay == ~up /\ up' /\ ~untidy => win' = win
<1>1. ASSUME IInv, [Next]_vars PROVE Stay
  <2>1. CASE Start
    BY <1>1, <2>1, StartMovesNothing
  <2>2. CASE ~Start
    <3>1. ~up => up' = up
      BY <1>1, <2>2 DEF Next, vars, Park, ParkAgain, Repark, ParkFirst, FindMoved, Close,
            UnPark, Vacate, Rename, Move, Add, Tidy, FindAllConsoles, Quit, Alive
    <3> QED BY <3>1
  <2> QED BY <2>1, <2>2
<1>2. Spec => [][Stay]_vars
  <2> HIDE DEF Stay
  <2>1. IInv /\ [Next]_vars => Stay
    BY <1>1
  <2> QED BY <2>1, ParkingInvariance, PTL DEF Spec
<1> QED BY <1>2 DEF RestartMovesNothing
=============================================================================
