------------------------------ MODULE PixelPath ------------------------------
(***************************************************************************)
(* The simulated sensor of Lab4 wired to the camera controller, as in      *)
(* Lab4/hw/hdl/camera_top.vhd: their registers, and the signals between    *)
(* them in the cycle that ends with the next edge of Pclk.  CameraCapture  *)
(* and CameraTop say what drives the two.                                  *)
(*                                                                         *)
(* A pixel is its position: row and column from 1, and the frame it is of. *)
(***************************************************************************)
EXTENDS Naturals, Sequences

CONSTANTS
  ConfigRange, NoPixel, ColourDepth,
  FrameTags       \* bound: frames are numbered modulo this

ASSUME ConfigRangeAssumption == ConfigRange \in Nat \ {0, 1}
ASSUME ColourDepthAssumption == ColourDepth \in Nat \ {0}
ASSUME FrameTagsAssumption == FrameTags \in Nat \ {0}

VARIABLES
  reg_state, config, reg_start, reg_stop,
  width_counter, height_counter, blank_counter,
  state_current, cnt_row, state_c, data_b_reg,
  fifo_g1, fifo_r, data_g1_out, data_r_out, data_b_out, data_g2_out,
  frame        \* history: number of the sensor's frame

sensorVars == <<reg_state, config, reg_start, reg_stop,
                width_counter, height_counter, blank_counter>>
controllerVars == <<state_current, cnt_row, state_c, data_b_reg, fifo_g1, fifo_r,
                    data_g1_out, data_r_out, data_b_out, data_g2_out>>

sensor == INSTANCE CmosSensor
controller == INSTANCE CameraController
-----------------------------------------------------------------------------
fvalid == sensor!frame_valid
lvalid == sensor!line_valid

Pixel(f, row, col) == [frame |-> f, row |-> row, col |-> col]
data == IF lvalid THEN Pixel(frame, height_counter, width_counter) ELSE NoPixel

\* The four pixels of the block of frame f that ends in row r and column c.
BlockAt(f, r, c) ==
  [g1 |-> Pixel(f, r - 1, c - 1), r |-> Pixel(f, r - 1, c),
   b |-> Pixel(f, r, c - 1), g2 |-> Pixel(f, r, c)]

\* The edge of the controller.
ControllerEdge(start, enable_mux) ==
  controller!ClockEdge(start, enable_mux, fvalid, lvalid, data)

\* A frame begins when fvalid rises.
FrameBegins == ~fvalid /\ fvalid'
CountFrames == frame' = IF FrameBegins THEN (frame + 1) % FrameTags ELSE frame
=============================================================================
