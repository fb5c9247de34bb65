------------------------------ MODULE Parking ------------------------------
(***************************************************************************)
(* Where the consoles are on the screen.  Parking a console shrinks its    *)
(* window to a stub, in a space of its own in a row at the parking level;  *)
(* unparking puts the window back and keeps the space, unless the shift    *)
(* key is down.  reviewParking() closes the gaps in the row.  m_parked     *)
(* says that a console was parked, isParked() whether it still is: the     *)
(* user may have moved the window, which calls nothing in the plugin.      *)
(*                                                                         *)
(* Distances are in one unit, conversions between DIP and pixels are left  *)
(* out, and so are the heights of windows and of the margin of 4 px within *)
(* which isParked() takes a window to be at the level of its space.        *)
(***************************************************************************)
EXTENDS Integers, FiniteSets, FiniteSetsExt

CONSTANTS
    Names,       \* the consoles there may be
    Widths,      \* widths of a stub: they depend on the console's name
    Wide,        \* the width of a window that was never parked
    Xs,          \* bound: where from the left the user puts a window
    Levels,      \* how far down the user puts a window, see PlaceLevels
    FirstX, Sep  \* m_parkFirstX, m_parkSep

\* level: that of the parking; top: within the margin of the top of the screen.
PlaceLevels == {"level", "off", "top"}

ASSUME GeometryAssumption ==
    /\ Widths \subseteq Nat \ {0} /\ Wide \in Nat \ {0} /\ Xs \subseteq Nat
    /\ FirstX \in Nat /\ Sep \in Nat
    /\ Levels \subseteq PlaceLevels

VARIABLES
    open,          \* m_consoles
    stub,          \* GetMinSize().x of each console
    win,           \* position and size of its window
    parked,        \* consoles with m_parked set
    lot, hasLot,   \* m_parkedLocation, and those where it is set
    free, hasFree, \* m_notParkedLocation likewise
    up,            \* the plugin is loaded; if not, the rest is its configuration
    programError,  \* setLocation() was called with a location that is not set
    untidy         \* history: the user has moved a parked window along the
                   \* row since reviewParking() last ran

vars == <<open, stub, win, parked, lot, hasLot, free, hasFree, up,
          programError, untidy>>

Place == [x : Int, y : PlaceLevels, w : Nat]

\* A location that is not set; what unPark() invents.
Unset    == [x |-> 0, y |-> "top", w |-> 0]
NewPlace == [x |-> 0, y |-> "off", w |-> Wide]

TypeOK ==
    /\ open \subseteq Names
    /\ stub \in [Names -> Widths]
    /\ win \in [Names -> Place]
    /\ lot \in [Names -> Place]
    /\ free \in [Names -> Place]
    /\ parked \subseteq open /\ hasLot \subseteq open /\ hasFree \subseteq open
    /\ {up, programError, untidy} \subseteq BOOLEAN

-----------------------------------------------------------------------------
\* isParked(), and the part of it that depends on windows w and spaces l.
AtLot(c, w, l) == w[c].y = l[c].y
IsParked(c)    == c \in parked /\ AtLot(c, win, lot)

\* What is left of m_parked once isParked() has been asked of the consoles S.
Asked(S, P, w, l) == {c \in P : c \in S => AtLot(c, w, l)}

\* Mutant: what is saved is m_parked, without asking isParked().
SaveConfigUnasked(P) == parked' = P

\* SaveConfig() asks every console; what it writes is the state itself.
SaveConfig(P) == parked' = Asked(open', P, win', lot')

\* Mutant: the comparison of the sort the wrong way round.
OrdersReversed(S, l) ==
    {r \in [S -> 1..Cardinality(S)] :
        \A c, d \in S : c # d =>
            r[c] # r[d] /\ (l[c].x > l[d].x => r[c] < r[d])}

\* The order in which the sort by position leaves the spaces: it is not stable.
Orders(S, l) ==
    {r \in [S -> 1..Cardinality(S)] :
        \A c, d \in S : c # d =>
            r[c] # r[d] /\ (l[c].x < l[d].x => r[c] < r[d])}

\* What the spaces S take of the row, each with the separation after it.
RowLength(l, S) == MapThenSumSet(LAMBDA d : l[d].w + Sep, S)

\* Where the space of c starts once those before it have been closed up.
PackedX(S, l, r, c) == FirstX + RowLength(l, {d \in S : r[d] < r[c]})

\* reviewParking() of consoles S with a space, m_parked in P, spaces l and
\* windows w.  It looks at m_parked, and does not ask isParked().
ReviewParking(S, P, l, w) ==
    \E r \in Orders(S, l) :
        /\ lot' = [c \in Names |->
                      IF c \in S
                      THEN [x |-> PackedX(S, l, r, c), y |-> "level", w |-> l[c].w]
                      ELSE l[c]]
        /\ win' = [c \in Names |-> IF c \in S \cap P THEN lot'[c] ELSE w[c]]
        /\ untidy' = FALSE

-----------------------------------------------------------------------------
Alive(c) == up /\ ~programError /\ c \in open

\* LoadConfig() finds no configuration: one console, whose m_parked is never
\* initialised, as in every console that is added.
Init ==
    \E c \in Names, w \in Widths :
        /\ open = {c}
        /\ stub = [d \in Names |-> w]
        /\ win = [d \in Names |-> IF d = c THEN NewPlace ELSE Unset]
        /\ parked \in {{}, {c}}
        /\ lot = [d \in Names |-> Unset] /\ hasLot = {}
        /\ free = [d \in Names |-> Unset] /\ hasFree = {}
        /\ up = TRUE /\ programError = FALSE /\ untidy = FALSE

\* setLocation(m_parkedLocation) of a console that is parked already.
ParkAgain(c) ==
    /\ Alive(c) /\ IsParked(c)
    /\ programError' = (c \notin hasLot)
    /\ win' = [win EXCEPT ![c] = lot[c]]
    /\ UNCHANGED <<open, stub, parked, lot, hasLot, free, hasFree, up, untidy>>

\* park() remembers where the window was, and makes it a stub at place p.
ParkAt(c, p) ==
    /\ free' = [free EXCEPT ![c] = win[c]]
    /\ hasFree' = hasFree \cup {c}
    /\ lot' = [lot EXCEPT ![c] = p]
    /\ hasLot' = hasLot \cup {c}
    /\ win' = [win EXCEPT ![c] = p]

Repark(c) ==
    /\ Alive(c) /\ ~IsParked(c) /\ c \in hasLot
    /\ ParkAt(c, [x |-> lot[c].x, y |-> lot[c].y, w |-> stub[c]])
    /\ UNCHANGED <<open, stub, up, programError, untidy>>
    /\ SaveConfig(parked \cup {c})

\* The right-hand edge of console d as park() sees it, and the first free x.
RightEdge(d) == IF IsParked(d) THEN win[d].x + stub[d] ELSE lot[d].x + lot[d].w

\* Mutant: the spaces of consoles that are not parked now are overlooked.
FreeXOfParked(c) ==
    LET others == {d \in open \ {c} : IsParked(d)}
    IN  IF others = {} THEN FirstX
        ELSE Max({0} \cup {RightEdge(d) : d \in others}) + Sep

FreeX(c) ==
    LET others == {d \in open \ {c} : IsParked(d) \/ d \in hasLot}
    IN  IF others = {} THEN FirstX
        ELSE Max({0} \cup {RightEdge(d) : d \in others}) + Sep

\* A first parking is not saved.
ParkFirst(c) ==
    /\ Alive(c) /\ ~IsParked(c) /\ c \notin hasLot
    /\ ParkAt(c, [x |-> FreeX(c), y |-> "level", w |-> stub[c]])
    /\ parked' = Asked(open, parked, win, lot) \cup {c}
    /\ UNCHANGED <<open, stub, up, programError, untidy>>

Park(c) == ParkAgain(c) \/ Repark(c) \/ ParkFirst(c)

\* unPark(), by the close button or because something is written to the
\* console.  With the shift key down the space is given up.
Restored(c) == [win EXCEPT ![c] = IF c \in hasFree THEN free[c] ELSE NewPlace]

Vacate(c, shift) ==
    /\ Alive(c) /\ IsParked(c)
    /\ free' = [free EXCEPT ![c] = Restored(c)[c]]
    /\ hasFree' = hasFree \cup {c}
    /\ \/ /\ shift
          /\ hasLot' = hasLot \ {c}
          /\ ReviewParking(hasLot \ {c}, parked, [lot EXCEPT ![c] = win[c]], Restored(c))
       \/ /\ ~shift
          /\ hasLot' = hasLot \cup {c}
          /\ lot' = [lot EXCEPT ![c] = win[c]]
          /\ win' = Restored(c)
          /\ UNCHANGED untidy
    /\ UNCHANGED <<open, stub, up, programError>>

\* Mutant: m_parked is not reset.
UnParkStillParked(c, shift) == Vacate(c, shift) /\ SaveConfig(parked)

UnPark(c, shift) == Vacate(c, shift) /\ SaveConfig(parked \ {c})

\* isParked() is asked by message(), print() or OnClose(), and says no.
FindMoved(c) ==
    /\ Alive(c) /\ c \in parked /\ ~IsParked(c)
    /\ parked' = parked \ {c}
    /\ UNCHANGED <<open, stub, win, lot, hasLot, free, hasFree, up,
                   programError, untidy>>

\* consoleName(), or a change of name in the tools, which saves.
Rename(c, w, tools) ==
    LET P == Asked({c}, parked, win, lot)
        l == IF c \in hasLot THEN [lot EXCEPT ![c] = [@ EXCEPT !.w = w]] ELSE lot
        v == IF IsParked(c) THEN [win EXCEPT ![c] = [@ EXCEPT !.w = w]] ELSE win
    IN  /\ Alive(c)
        /\ stub' = [stub EXCEPT ![c] = w]
        /\ UNCHANGED <<open, hasLot, free, hasFree, up, programError>>
        /\ ReviewParking(hasLot, P, l, v)
        /\ IF tools THEN SaveConfig(P) ELSE parked' = P

\* consoleAdd(), or the tools, which save.  garbage: what m_parked starts as.
Add(c, w, x, y, garbage, tools) ==
    /\ up /\ ~programError /\ c \notin open
    /\ open' = open \cup {c}
    /\ stub' = [stub EXCEPT ![c] = w]
    /\ win' = [win EXCEPT ![c] = [x |-> x, y |-> y, w |-> Wide]]
    /\ UNCHANGED <<lot, hasLot, free, hasFree, up, programError, untidy>>
    /\ LET P == IF garbage THEN parked \cup {c} ELSE parked
       IN  IF tools THEN SaveConfig(P) ELSE parked' = P

\* Mutant: the console is still in m_consoles when its space is reviewed.
CloseKeepingSpace(c) ==
    /\ Alive(c) /\ Cardinality(open) > 1
    /\ open' = open \ {c}
    /\ hasFree' = hasFree \ {c}
    /\ free' = [free EXCEPT ![c] = Unset]
    /\ UNCHANGED <<stub, hasLot, up, programError>>
    /\ ReviewParking(hasLot, parked \ {c}, lot, [win EXCEPT ![c] = Unset])
    /\ SaveConfig(parked \ {c})

\* deleteMe(), of a console that is not busy.
Close(c) ==
    /\ Alive(c) /\ Cardinality(open) > 1
    /\ open' = open \ {c}
    /\ hasLot' = hasLot \ {c} /\ hasFree' = hasFree \ {c}
    /\ free' = [free EXCEPT ![c] = Unset]
    /\ ReviewParking(hasLot \ {c}, parked \ {c}, [lot EXCEPT ![c] = Unset],
                     [win EXCEPT ![c] = Unset])
    /\ UNCHANGED <<stub, up, programError>>
    /\ SaveConfig(parked \ {c})

\* The button Tidy of the tools and of the console's menu.
Tidy ==
    /\ up /\ ~programError
    /\ ReviewParking(hasLot, parked, lot, win)
    /\ UNCHANGED <<open, stub, parked, hasLot, free, hasFree, up, programError>>

\* The button of the tools that brings all consoles into view; the shift key is
\* up.  The windows, a few pixels apart in the code, are all at NewPlace.
FindAllConsoles ==
    /\ up /\ ~programError
    /\ lot' = [c \in Names |-> IF IsParked(c) THEN win[c] ELSE lot[c]]
    /\ hasLot' = hasLot \cup {c \in open : IsParked(c)}
    /\ free' = [c \in Names |-> IF IsParked(c) THEN Restored(c)[c] ELSE free[c]]
    /\ hasFree' = hasFree \cup {c \in open : IsParked(c)}
    /\ win' = [c \in Names |-> IF c \in open THEN NewPlace ELSE win[c]]
    /\ parked' = {}
    /\ UNCHANGED <<open, stub, up, programError, untidy>>

\* The user moves the window; no code of the plugin runs.
Move(c, x, y) ==
    /\ Alive(c)
    /\ win' = [win EXCEPT ![c] = [x |-> x, y |-> y, w |-> win[c].w]]
    /\ untidy' = (untidy \/ (c \in parked /\ AtLot(c, win', lot) /\ x # lot[c].x))
    /\ UNCHANGED <<open, stub, parked, lot, hasLot, free, hasFree, up, programError>>

\* DeInit() saves; Init() loads the configuration and reviews the parking.
Quit ==
    /\ up /\ ~programError
    /\ up' = FALSE
    /\ UNCHANGED <<open, stub, win, lot, hasLot, free, hasFree, programError, untidy>>
    /\ SaveConfig(parked)

Start ==
    /\ ~up
    /\ up' = TRUE
    /\ free' = [c \in Names |-> IF c \in hasFree THEN free[c] ELSE Unset]
    /\ ReviewParking(hasLot, parked,
                     [c \in Names |-> IF c \in hasLot THEN lot[c] ELSE Unset], win)
    /\ UNCHANGED <<open, stub, parked, hasLot, hasFree, programError>>

Next ==
    \/ \E c \in Names :
          \/ Park(c)
          \/ FindMoved(c)
          \/ Close(c)
          \/ \E shift \in BOOLEAN : UnPark(c, shift)
          \/ \E w \in Widths, tools \in BOOLEAN : Rename(c, w, tools)
          \/ \E x \in Xs, y \in Levels : Move(c, x, y)
          \/ \E w \in Widths, x \in Xs, y \in Levels, garbage, tools \in BOOLEAN :
                Add(c, w, x, y, garbage, tools)
    \/ Tidy
    \/ FindAllConsoles
    \/ Quit
    \/ Start

Spec == Init /\ [][Next]_vars

-----------------------------------------------------------------------------
\* setLocation() is never called with a location that is not set: what the
\* message "program error" in it is about.
NoProgramError == ~programError

\* As long as the user has not moved a parked window along the row, the row
\* starts at m_parkFirstX and its spaces follow each other m_parkSep apart, in
\* whatever order consoles were parked, renamed, unparked and closed.
RowIsPacked ==
    ~untidy => \A c \in hasLot :
        /\ lot[c].x = FirstX + RowLength(lot, {d \in hasLot : lot[d].x < lot[c].x})
        /\ \A d \in hasLot \ {c} : lot[c].x # lot[d].x

\* A console keeps its place in the row: parking it again, renaming it, tidying
\* or restarting never swaps two spaces.
OrderIsKept ==
    [][~untidy => \A c, d \in hasLot \cap hasLot' :
          lot[c].x < lot[d].x => lot'[c].x < lot'[d].x]_vars

\* Stopping the plugin and starting it again puts every window back where it
\* was, if the row was tidy: a console saved as parked really was.
RestartMovesNothing == [][~up /\ up' /\ ~untidy => win' = win]_vars

\* What the configuration says while the plugin is not loaded: a console saved
\* as parked has a space, and its window was saved at the level of it.
ConfigIsTruthful == ~up => \A c \in parked : c \in hasLot /\ AtLot(c, win, lot)

\* "When a parked console is moved to a different level, it is no longer
\* regarded as parked": renaming, unparking or closing another one leaves it
\* where it is.
Lifted(c) == c \in parked /\ ~AtLot(c, win, lot)

LiftedIsNotParked ==
    [][\A c \in open \cap open' :
          Lifted(c) => \/ win'[c] = win[c]
                       \/ Park(c)
                       \/ Tidy \/ FindAllConsoles
                       \/ \E x \in Xs, y \in Levels : Move(c, x, y)]_vars
=============================================================================
