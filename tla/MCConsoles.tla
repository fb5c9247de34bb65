----------------------------- MODULE MCConsoles -----------------------------
(* Instances of Consoles for TLC. *)
EXTENDS ConsolesInv, TLC

\* Consoles and entry ids are only ever compared.
Symmetry == Permutations(Consoles) \cup Permutations(Ids)

-----------------------------------------------------------------------------
(***************************************************************************)
(* What is never read is not told apart:                                   *)
(*   of the status all but the interrupts that Outcome() looks at, and of  *)
(*   a console without a heap, which run() resets, the whole status;       *)
(*   mWaiting where it is not cached; in a console without a heap, which   *)
(*   gets nothing to wait for, a cache that says what the full check would;*)
(*   whom and what a brief without callbackId is for; given without has;   *)
(*   which modal call a running script is back from while it is timed, and *)
(*   whether it was a dialogue or a prompt when it is not.                 *)
(***************************************************************************)
SeenConsole(c) ==
    [c EXCEPT !.status = IF c.ctx = NoConsole THEN {} ELSE @ \cap Interrupts,
              !.waiting = @ /\ c.waitingCached,
              !.waitingCached = @ /\ (c.ctx # NoConsole \/ c.waiting # SomethingAwaited(c))]

SeenBrief(b) ==
    [b EXCEPT !.given = @ /\ b.has,
              !.caller = IF b.callbackId = NoId THEN NoConsole ELSE @,
              !.request = IF b.callbackId = NoId THEN NoId ELSE @]

SeenFrame(f) ==
    [f EXCEPT !.modal = IF f.box \/ @ = "no" THEN @
                        ELSE IF con[f.con].timed THEN "no" ELSE "dialogue"]

\* (Comparing con makes TLC evaluate the whole function, before it is saved.)
View == <<exists, con = con, [c \in Consoles |-> SeenConsole(con[c])],
          [c \in Consoles |-> SeenBrief(brief[c])],
          [c \in Consoles |-> [i \in DOMAIN queue[c] |-> SeenBrief(queue[c][i])]],
          [i \in DOMAIN stack |-> SeenFrame(stack[i])], fault>>
=============================================================================
