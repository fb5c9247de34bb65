----------------------------- MODULE ParkingInv -----------------------------
(***************************************************************************)
(* The inductive invariant of Parking, if no window is at the very top of  *)
(* the screen.                                                             *)
(***************************************************************************)
EXTENDS Parking

NoTop == "top" \notin Levels

\* The variables that hold a function do.
Shapes ==
    /\ win = [c \in Names |-> win[c]]
    /\ lot = [c \in Names |-> lot[c]]
    /\ free = [c \in Names |-> free[c]]

Members ==
    /\ open \subseteq Names
    /\ parked \subseteq open /\ hasLot \subseteq open /\ hasFree \subseteq open

\* No window is at the top, and none goes back there.
WindowsBelowTop ==
    /\ \A c \in open : win[c].y # "top"
    /\ \A c \in hasFree : free[c].y # "top"

\* A space is at the parking level.  A console without one has m_parked only
\* if it never had a space, whose position is then that of the top left.
SpacesAtLevel ==
    /\ \A c \in hasLot : lot[c].y = "level"
    /\ \A c \in Names \ hasLot : c \in parked \/ c \notin open => lot[c].y = "top"

SavedAtSpace == ~up => \A c \in parked : AtLot(c, win, lot)

SpaceInv ==
    /\ Shapes
    /\ Members
    /\ WindowsBelowTop
    /\ SpacesAtLevel
    /\ SavedAtSpace
    /\ NoProgramError

\* A space, and the window of a parked console even when it was moved, is as
\* wide as the stub of its console.
StubsFit ==
    /\ \A c \in hasLot : lot[c].w = stub[c]
    /\ \A c \in hasLot \cap parked : win[c].w = stub[c]

\* The window of a parked console is where its space is.
WindowsInSpaces ==
    ~untidy => \A c \in hasLot \cap parked : AtLot(c, win, lot) => win[c].x = lot[c].x

RowInv ==
    /\ IsFiniteSet(open)
    /\ StubsFit
    /\ WindowsInSpaces
    /\ RowIsPacked

\* Only consoles with a space are put into it, and the row of the spaces has
\* neither gaps nor overlaps.
IInv == TypeOK /\ SpaceInv /\ RowInv
=============================================================================
