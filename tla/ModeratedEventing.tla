-------------------------- MODULE ModeratedEventing --------------------------
(***************************************************************************)
(* What the moderated LastChange eventing of the renderer promises to a     *)
(* control point, whatever the flags and timers that implement it.  A value *)
(* changes at any time; a control point is told of the first change of a    *)
(* quiet period at once, and of whatever changed since when the moderation  *)
(* window closes.  A change inside the window is told late, never lost.     *)
(***************************************************************************)

CONSTANT Value          (* the values of the evented state *)

VARIABLES value,        (* the renderer's current value                     *)
          told,         (* the value control points were last told          *)
          window        (* TRUE while a moderation window is open           *)

vars == <<value, told, window>>

Init == /\ value \in Value
        /\ told = value
        /\ window = FALSE

(* A change outside a window is told at once, and opens one. *)
ChangeQuiet == /\ ~window
               /\ value' \in Value \ {value}
               /\ told' = value'
               /\ window' = TRUE

(* A change inside a window waits for the window to close. *)
ChangeModerated == /\ window
                   /\ value' \in Value \ {value}
                   /\ UNCHANGED <<told, window>>

(* The window is shared with other state, whose change may open it. *)
OpenWindow == /\ ~window
              /\ window' = TRUE
              /\ UNCHANGED <<value, told>>

CloseWindow == /\ window
               /\ window' = FALSE
               /\ told' = value
               /\ UNCHANGED value

Next == ChangeQuiet \/ ChangeModerated \/ OpenWindow \/ CloseWindow

SafeSpec == Init /\ [][Next]_vars

Spec == SafeSpec /\ WF_vars(CloseWindow)
=============================================================================
