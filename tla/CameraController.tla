-------------------------- MODULE CameraController --------------------------
(***************************************************************************)
(* Lab4/hw/hdl/CameraController.vhd, on the pixel clock: the multiplexer,  *)
(* the FIFOs that hold a line of green and red pixels, the registers for   *)
(* the blue and the second green pixel (PixelRegister.vhd), and the unit   *)
(* that combines them into words for the pixel FIFO.                       *)
(***************************************************************************)
EXTENDS Naturals, Sequences

CONSTANTS
  NoPixel,
  ColourDepth   \* lpm_numwords of fifo_single_clk, 512 in the source

VARIABLES
  state_current, cnt_row,      \* CameraMux
  state_c, data_b_reg,         \* AverageAndCombine
  fifo_g1, fifo_r,             \* contents of the colour FIFOs
  data_g1_out, data_r_out,     \* their registered outputs
  data_b_out, data_g2_out      \* the latches of the pixel registers

muxVars == <<state_current, cnt_row>>
combineVars == <<state_c, data_b_reg>>
storeVars == <<fifo_g1, fifo_r, data_g1_out, data_r_out, data_b_out, data_g2_out>>
vars == <<muxVars, combineVars, storeVars>>

camera_mux == INSTANCE CameraMux
average_and_combine == INSTANCE AverageAndCombine
-----------------------------------------------------------------------------
(* Signals of the cycle that ends with the next edge.                      *)

\* A pixel register is transparent while it is enabled.
latched(colour, old, lvalid, pixel) ==
  IF camera_mux!enable_out(lvalid) = colour THEN pixel ELSE old
data_b(lvalid, pixel) == latched("B", data_b_out, lvalid, pixel)
data_g2(lvalid, pixel) == latched("G2", data_g2_out, lvalid, pixel)

enable_b_out(lvalid) == camera_mux!enable_out(lvalid) = "B"

\* The request and the word the pixel FIFO sees.
wrfifo(start, full_pixel) == average_and_combine!wrfifo(start, full_pixel)
wrdata(lvalid, pixel) ==
  average_and_combine!wrdata(data_r_out, data_g1_out, data_g2(lvalid, pixel))
-----------------------------------------------------------------------------
Init ==
  /\ camera_mux!Init /\ average_and_combine!Init
  /\ fifo_g1 = << >> /\ fifo_r = << >>
  /\ data_g1_out = NoPixel /\ data_r_out = NoPixel
  /\ data_b_out = NoPixel /\ data_g2_out = NoPixel

\* Mutant: the FIFOs keep what they hold.
Reset_registers ==
  /\ camera_mux!Reset /\ average_and_combine!Reset
  /\ UNCHANGED <<fifo_g1, fifo_r>>
  /\ data_g1_out' = NoPixel /\ data_r_out' = NoPixel
  /\ data_b_out' = NoPixel /\ data_g2_out' = NoPixel

\* clear_fifo empties the FIFOs together with the registers.
Reset ==
  /\ camera_mux!Reset /\ average_and_combine!Reset
  /\ fifo_g1' = << >> /\ fifo_r' = << >>
  /\ data_g1_out' = NoPixel /\ data_r_out' = NoPixel
  /\ data_b_out' = NoPixel /\ data_g2_out' = NoPixel

\* An scfifo with overflow and underflow checking: what a request finds
\* impossible it leaves undone, and the output keeps its value.
after_read(queue, rdreq) == IF rdreq /\ queue # << >> THEN Tail(queue) ELSE queue
output(queue, q, rdreq) == IF rdreq /\ queue # << >> THEN Head(queue) ELSE q
after_write(queue, before, wrreq, pixel) ==
  IF wrreq /\ Len(before) < ColourDepth THEN Append(queue, pixel) ELSE queue

ColourFifos(lvalid, pixel) ==
  LET colour == camera_mux!enable_out(lvalid)
      rdreq == average_and_combine!read_r(enable_b_out(lvalid))
  IN /\ fifo_g1' = after_write(after_read(fifo_g1, rdreq), fifo_g1,
                               colour = "G1", pixel)
     /\ fifo_r' = after_write(after_read(fifo_r, rdreq), fifo_r,
                              colour = "R", pixel)
     /\ data_g1_out' = output(fifo_g1, data_g1_out, rdreq)
     /\ data_r_out' = output(fifo_r, data_r_out, rdreq)

PixelRegisters(lvalid, pixel) ==
  /\ data_b_out' = data_b(lvalid, pixel)
  /\ data_g2_out' = data_g2(lvalid, pixel)

ClockEdge(start, enable_mux, fvalid, lvalid, pixel) ==
  /\ camera_mux!ClockEdge(enable_mux, fvalid, lvalid)
  /\ ColourFifos(lvalid, pixel)
  /\ PixelRegisters(lvalid, pixel)
  /\ average_and_combine!ClockEdge(start, enable_b_out(lvalid),
                                   data_b(lvalid, pixel))
=============================================================================
