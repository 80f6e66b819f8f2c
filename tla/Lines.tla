--------------------------------- MODULE Lines ---------------------------------
(***************************************************************************)
(* A byte stream of either line driver, its reader and its owner.          *)
(***************************************************************************)
EXTENDS IoxTty, IoxCanbus

LinesInit == TtyInit \/ CanInit

\* What two receive tasks do to one FIFO is not followed.
LinesNext ==
    /\ Cardinality(Feeding) <= 1
    /\ Reads \/ WaitDisturbed \/ TtyNext \/ CanNext

LinesSpec == LinesInit /\ [][LinesNext]_lines
=============================================================================
