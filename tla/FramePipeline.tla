---------------------------- MODULE FramePipeline ----------------------------
(***************************************************************************)
(* What pipelining frames promises (Renderer: "Pipeline two frames"): the  *)
(* frames' data are taken in turn, none before the GPU is through with the *)
(* frame that used it last, and frames are finished in the order in which  *)
(* they were begun.                                                        *)
(***************************************************************************)
EXTENDS Naturals

CONSTANT FrameCount           \* frames_in_flight.size()

VARIABLES
  at,                         \* the frame data taken last
  flight,                     \* frame data in use
  ahead                       \* <<f, g>>: f was begun before g

FpSlots == 0 .. FrameCount - 1

FpTypeOK == at \in FpSlots /\ flight \subseteq FpSlots /\ ahead \subseteq flight \X flight

FpInit == at = 0 /\ flight = {} /\ ahead = {}

Begin ==
  /\ at' = (at + 1) % FrameCount
  /\ at' \notin flight
  /\ flight' = flight \cup {at'}
  /\ ahead' = ahead \cup flight \X {at'}

Finish(f) ==
  /\ \A g \in flight : <<g, f>> \notin ahead
  /\ flight' = flight \ {f}
  /\ ahead' = {p \in ahead : p[1] # f}
  /\ at' = at

FpNext == Begin \/ \E f \in flight : Finish(f)

FpSpec == FpInit /\ [][FpNext]_<<at, flight, ahead>>
=============================================================================
