----------------------------- MODULE FramePipe -----------------------------
(***************************************************************************)
(* What each direction of the websocket bridge promises: a first-in        *)
(* first-out pipe of numbered frames.  While the pipe is open no frame it  *)
(* took is dropped; a frame may only be lost by shutting the pipe, and     *)
(* what came out is always the first few frames that went in, each once,   *)
(* in order.                                                               *)
(***************************************************************************)
EXTENDS Naturals, Sequences

VARIABLES taken,      \* how many frames went in: frame n is the n-th one
          delivered,  \* the frames that came out, in order
          open        \* FALSE once the pipe is shut, for good

pipeVars == <<taken, delivered, open>>

Init == taken = 0 /\ delivered = <<>> /\ open = TRUE

\* A frame that does not fit is taken and shuts the pipe in the same step.
Take == /\ open
        /\ taken' = taken + 1
        /\ open' \in BOOLEAN
        /\ UNCHANGED delivered

Deliver == /\ Len(delivered) < taken
           /\ delivered' = Append(delivered, Len(delivered) + 1)
           /\ UNCHANGED <<taken, open>>

Shut == open /\ open' = FALSE /\ UNCHANGED <<taken, delivered>>

Next == Take \/ Deliver \/ Shut

SafeSpec == Init /\ [][Next]_pipeVars

\* An open pipe does not hold a frame back for ever.
Spec == SafeSpec /\ WF_pipeVars(open /\ Deliver)
=============================================================================
