---------------------------- MODULE CameraCapture ----------------------------
(***************************************************************************)
(* The pixel-clock half of Lab4: the simulated sensor feeding the camera   *)
(* controller, closed by software that configures the sensor and switches  *)
(* the capture on and off, and by a pixel FIFO that may be full.           *)
(*                                                                         *)
(* One edge of Pclk is one step.                                           *)
(***************************************************************************)
EXTENDS PixelPath

CONSTANTS
  ConfigValues,   \* what software writes to each configuration register
  MidFrame        \* a capture or the sensor may be stopped, or started,
                  \* within a frame

ASSUME MidFrameAssumption == MidFrame \in BOOLEAN

VARIABLES
  wanted,      \* start_reg: what software wants, on the other clock
  start,       \* the two wires that carry it, each seen a cycle late or not
  enable_mux,
  words,       \* history: words combined in this frame
  whole,       \* history: this frame was captured from its beginning
  cut          \* history: a frame was cut short since the last reset

captureVars == <<sensorVars, controllerVars, wanted, start, enable_mux,
                 frame, words, whole, cut>>

Width == config["frame_width"]
Height == config["frame_height"]
-----------------------------------------------------------------------------
CaptureInit ==
  /\ sensor!Init /\ controller!Init
  /\ wanted = FALSE /\ start = FALSE /\ enable_mux = FALSE
  /\ frame = 0 /\ words = 0 /\ whole = FALSE /\ cut = FALSE

(* Software configures the sensor while it is idle and starts it last, as  *)
(* test_CameraTop.vhd does, with values it has chosen for every register.  *)
configured == \A r \in sensor!registers : config[r] \in ConfigValues[r]

\* Capture is switched between frames, early enough for both wires to have
\* settled when the next one begins; or, once after a reset, at any time.
cutting == MidFrame /\ ~cut
pause == cutting \/ (~fvalid /\ ~fvalid')

Command(command) ==
  \/ command = sensor!NoCommand
  \/ /\ reg_state = "IDLE" /\ ~reg_start
     /\ \E r \in sensor!registers : \E v \in ConfigValues[r] :
          command = sensor!Configure(r, v)
  \/ configured /\ command = sensor!Start
  \/ reg_state = "FRAME_FRAME_BLANK" /\ command = sensor!Stop
  \/ cutting /\ command = sensor!Stop

captureCommands ==
  {sensor!NoCommand, sensor!Start, sensor!Stop} \union
  UNION {{sensor!Configure(r, v) : v \in ConfigValues[r]} : r \in sensor!registers}

(* The start register drives both wires; neither is synchronised with      *)
(* Pclk, so an edge may see the change on one of them before the other.    *)
Control ==
  /\ wanted' \in (IF pause THEN BOOLEAN ELSE {wanted})
  /\ start' = wanted' \/ (start' = start /\ start = wanted)
  /\ enable_mux' = wanted' \/ (enable_mux' = enable_mux /\ enable_mux = wanted)

(* History.                                                                *)
CaptureRecord ==
  /\ CountFrames
  /\ words' = IF FrameBegins THEN 0
              ELSE IF controller!wrfifo(start, FALSE) THEN words + 1 ELSE words
  /\ whole' = IF FrameBegins THEN wanted
              ELSE whole /\ wanted' /\ fvalid
  /\ cut' = (\/ cut
             \/ wanted' # wanted /\ (fvalid \/ fvalid')
             \/ fvalid /\ reg_state' = "IDLE")

PclkStep ==
  /\ \E command \in captureCommands : Command(command) /\ sensor!ClockEdge(command)
  /\ ControllerEdge(start, enable_mux)
  /\ Control
  /\ CaptureRecord

\* nrst restarts the design; the sensor runs on.
CaptureReset ==
  /\ controller!Reset
  /\ wanted' = FALSE /\ start' = FALSE /\ enable_mux' = FALSE
  /\ whole' = FALSE /\ cut' = FALSE
  /\ UNCHANGED <<sensorVars, frame, words>>

CaptureNext == PclkStep \/ CaptureReset

CaptureSpec == CaptureInit /\ [][CaptureNext]_captureVars
-----------------------------------------------------------------------------
(* Properties.                                                             *)

\* What software may write to the sensor: frames of whole blocks, lines that
\* fit into the colour FIFOs, at least one cycle before the first line, and
\* nothing a register cannot hold.
Settings ==
  /\ \A r \in sensor!registers : ConfigValues[r] \subseteq 0 .. ConfigRange - 1
  /\ \A size \in ConfigValues["frame_width"] \union ConfigValues["frame_height"] :
       size % 2 = 0 /\ size > 0
  /\ \A w \in ConfigValues["frame_width"] : w \div 2 <= ColourDepth
  /\ \A b \in ConfigValues["frame_line_blank"] : b > 0

\* What follows holds for captures on whole frames since the last reset.  A
\* frame that is cut short, by software or by the sensor, spoils what comes
\* after it, up to the next reset, in whatever state of the sensor that comes.

\* Every word is made of the four pixels of one 2x2 block of one frame, each
\* in the place of its colour, although two of them wait a line in a FIFO,
\* one a cycle in a latch, and capture is switched on and off in between.
BlockCoherent ==
  ~cut /\ controller!wrfifo(start, FALSE) =>
    /\ lvalid
    /\ controller!wrdata(lvalid, data) = BlockAt(frame, height_counter, width_counter)

\* Between frames nothing is left over in the colour FIFOs and the next line
\* is taken for a green and red one.
AlignedBetweenFrames ==
  ~cut /\ reg_state = "FRAME_FRAME_BLANK" => fifo_g1 = << >> /\ fifo_r = << >> /\ cnt_row = 0

\* No pixel is offered to a colour FIFO that is full.
ColourFifosSuffice ==
  cut \/ /\ controller!camera_mux!enable_out(lvalid) = "G1" => Len(fifo_g1) < ColourDepth
         /\ controller!camera_mux!enable_out(lvalid) = "R" => Len(fifo_r) < ColourDepth

\* A frame that was captured from its beginning has given one word for each
\* of its blocks when it ends.
FrameComplete ==
  ~cut /\ whole /\ reg_state = "FRAME_FRAME_BLANK" => 4 * words = Width * Height

\* While sensor and capture run, words keep coming.
CaptureFairSpec == CaptureSpec /\ WF_captureVars(PclkStep)
WordsKeepComing ==
  []<>(controller!wrfifo(start, FALSE) \/ ~wanted \/ sensor!status_idle \/ cut)
=============================================================================
