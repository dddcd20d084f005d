--------------------------------- MODULE Ux ---------------------------------
(***************************************************************************)
(* The confirmation of a request by the user: ux_validate of the SDK        *)
(* (app/sdk/ux/ux.c), which an app runs, on top of sys_wait_button of the   *)
(* VM (ecall.c, io.c).                                                      *)
(*                                                                          *)
(* The device reports a button event with the buttons that are down.  Events*)
(* count only while the app waits for a button: those that come while it    *)
(* draws a screen go to the VM's own menu.                                  *)
(*                                                                          *)
(* A mask is the set of its buttons.  BUTTON_EVT_FAST is left out:          *)
(* to_button_mask sets it and then drops it.                                *)
(***************************************************************************)
EXTENDS Integers, Sequences

CONSTANTS
    Items,                          \* the actions of the items, in order
    BUTTON_FAST_THRESHOLD_CS        \* 8

ASSUME UxAssumption ==
    /\ Items \in Seq({"NONE", "VALIDATE", "REJECT"}) /\ Len(Items) > 0
    /\ BUTTON_FAST_THRESHOLD_CS \in Nat \ {0}

VARIABLES
    down,                   \* the buttons that are down
    wait_for_button,
    g_button_mask, g_button_same_mask_counter,
    n, refresh,             \* locals of ux_validate; n counts from 1 here
    shown,                  \* the item on the screen
    result,                 \* what ux_validate returned
    seen,                   \* history: events since the app waits and a button is down
    answer                  \* history: what sys_wait_button returned last

buttonVars == <<g_button_mask, g_button_same_mask_counter>>
uxVars == <<down, wait_for_button, buttonVars, n, refresh, shown, result, seen, answer>>

Buttons == {"LEFT", "RIGHT"}
None == "none"
-----------------------------------------------------------------------------
(* ecall.c *)

\* Faulty variant: the last event replaces the earlier ones.
MaskLast(new) == IF new = {} THEN g_button_mask ELSE new

\* The buttons pressed since all were up.
Mask(new) == g_button_mask \cup new

SameMask(new) ==
    IF new = g_button_mask THEN g_button_same_mask_counter + 1 ELSE g_button_same_mask_counter

\* The counter only matters up to the threshold.
Capped(k) == IF k > BUTTON_FAST_THRESHOLD_CS THEN BUTTON_FAST_THRESHOLD_CS ELSE k

\* to_button_mask updates its static variables ...
UpdateMask(new) ==
    LET mask == IF new = {} THEN {} ELSE Mask(new)
    IN  /\ g_button_mask' = mask
        /\ g_button_same_mask_counter' =
              IF new = {} \/ new # mask THEN 0 ELSE Capped(SameMask(new))

\* ... and returns the buttons once they are released, unless they were held for long.
to_button_mask(new) ==
    IF new = {} /\ SameMask(new) < BUTTON_FAST_THRESHOLD_CS THEN Mask(new) ELSE {}
-----------------------------------------------------------------------------
(* ux.c *)

Running == result = None

\* Faulty variant: the screen is not drawn again.
DrawsFirstOnly(moved) == FALSE
Draws(moved) == moved

\* What ux_validate does with the button that wait_input returned.
Handle(button) ==
    LET left  == button = {"LEFT"} /\ n > 1
        right == button = {"RIGHT"} /\ n < Len(Items)
    IN  \/ /\ button = Buttons
           /\ Items[n] # "NONE"
           /\ result' = (IF Items[n] = "VALIDATE" THEN "validated" ELSE "rejected")
           /\ wait_for_button' = FALSE
           /\ UNCHANGED <<n, refresh>>
        \/ /\ button = Buttons
           /\ Items[n] = "NONE"                 \* wait_input waits again
           /\ UNCHANGED <<n, refresh, result, wait_for_button>>
        \/ /\ button # Buttons
           /\ n' = IF left THEN n - 1 ELSE IF right THEN n + 1 ELSE n
           /\ refresh' = Draws(left \/ right)
           /\ wait_for_button' = ~refresh'
           /\ UNCHANGED result

\* display_item draws the screen, one system call after another.
DisplayItem ==
    /\ Running /\ refresh /\ ~wait_for_button
    /\ shown' = n
    /\ refresh' = FALSE
    /\ wait_for_button' = TRUE
    /\ seen' = <<>>
    /\ UNCHANGED <<down, buttonVars, n, result, answer>>

\* An event while the app waits: io_event, then sys_wait_button.
ButtonEvent(new) ==
    /\ Running /\ wait_for_button
    /\ down' = new
    /\ UpdateMask(new)
    /\ seen' = IF new = {} THEN <<>> ELSE Append(seen, new)
    /\ LET button == to_button_mask(new)
       IN  /\ answer' = button
           /\ \/ button = {} /\ UNCHANGED <<wait_for_button, n, refresh, result>>
              \/ button # {} /\ Handle(button)
    /\ UNCHANGED shown

\* An event while it does not.
LostEvent(new) ==
    /\ Running /\ ~wait_for_button
    /\ down' = new
    /\ UNCHANGED <<wait_for_button, buttonVars, n, refresh, shown, result, seen, answer>>

\* The user presses or releases buttons, or the device reports those held once more.
Push ==
    \E new \in SUBSET Buttons :
        /\ Len(seen) < BUTTON_FAST_THRESHOLD_CS + 1 \/ new = {}     \* bound
        /\ ButtonEvent(new) \/ LostEvent(new)

UxInit ==
    /\ down = {} /\ wait_for_button = FALSE
    /\ g_button_mask = {} /\ g_button_same_mask_counter = 0
    /\ n = 1 /\ refresh = TRUE /\ shown = 0 /\ result = None
    /\ seen = <<>> /\ answer = {}

Returned == ~Running /\ UNCHANGED uxVars

UxNext == DisplayItem \/ Push \/ Returned

UxSpec == UxInit /\ [][UxNext]_uxVars
-----------------------------------------------------------------------------
(* Properties. *)

\* A request is accepted or rejected only at the item that is on the screen.
ConfirmsWhatIsShown ==
    /\ result = "validated" => Items[shown] = "VALIDATE"
    /\ result = "rejected" => Items[shown] = "REJECT"

\* A press ends when all buttons are up.  Its answer is every button that was down while
\* the app waited, in whatever order they were pressed and released; a press of fewer
\* events than the threshold is not lost; and an answer never comes before the release.
AnswersAreThePresses ==
    [][wait_for_button =>
        LET pressed == UNION {seen[i] : i \in DOMAIN seen}
        IN  /\ answer' \in {{}, pressed}
            /\ answer' # {} => down' = {}
            /\ down' = {} /\ Len(seen) < BUTTON_FAST_THRESHOLD_CS => answer' = pressed]_uxVars
=============================================================================
