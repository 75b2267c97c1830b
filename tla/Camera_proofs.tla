--------------------------- MODULE Camera_proofs ---------------------------
(***************************************************************************)
(* Proofs about the camera.  First what one edge of the pixel clock does   *)
(* within a frame that is captured, for any sensor setting; then           *)
(* CameraCapture, whenever captures are switched; then CameraTop at every  *)
(* pace its rules allow.                                                   *)
(***************************************************************************)
EXTENDS CameraCapture, CameraTop, SequenceTheorems, TLAPS

-----------------------------------------------------------------------------
(* The pixel half: where sensor and controller are.                        *)

Blanks == {"FRAME_FRAME_BLANK", "FRAME_LINE_BLANK", "LINE_LINE_BLANK", "LINE_FRAME_BLANK"}
Colours == {"G1", "R", "G2", "B"}
Pixels == [frame : Nat, row : Nat, col : Nat] \union {NoPixel}

half(n) == n \div 2
odd(n) == n % 2 = 1

SensorTypes ==
  /\ reg_state \in Blanks \union {"IDLE", "VALID"}
  /\ config \in [sensor!registers -> Nat]
  /\ reg_start \in BOOLEAN /\ reg_stop \in BOOLEAN
  /\ width_counter \in Nat /\ height_counter \in Nat /\ blank_counter \in Nat

ControllerTypes ==
  /\ state_current \in Colours \union {"IDLE", "WAITDATA"} /\ cnt_row \in {0, 1}
  /\ state_c \in {"IDLE", "WAITDATA", "READDATA"}
  /\ fifo_g1 \in Seq(Pixels) /\ fifo_r \in Seq(Pixels)
  /\ {data_g1_out, data_r_out, data_b_out, data_g2_out} \subseteq Pixels

\* What the sensor holds is a setting of whole blocks that fit.
Fits ==
  /\ Width \in 1 .. ConfigRange - 1 /\ Width % 2 = 0 /\ half(Width) <= ColourDepth
  /\ Height \in 1 .. ConfigRange - 1 /\ Height % 2 = 0
  /\ config["frame_line_blank"] > 0

\* The sensor runs on such a setting, and inside of its frame.
Scanning ==
  /\ reg_start \/ reg_state # "IDLE" => Fits
  /\ reg_state = "VALID" => width_counter \in 1 .. Width /\ height_counter \in 1 .. Height
  /\ reg_state = "LINE_LINE_BLANK" => height_counter \in 1 .. Height - 1

\* The colour of the pixel in row r and column c.
colour(r, c) ==
  IF odd(r) THEN (IF odd(c) THEN "G1" ELSE "R") ELSE (IF odd(c) THEN "B" ELSE "G2")

\* A colour FIFO holds n green or red pixels of a row, after the first ones.
Greens(row, first, n) ==
  Len(fifo_g1) = n /\ \A i \in 1 .. n : fifo_g1[i] = Pixel(frame, row, 2 * (first + i) - 1)
Reds(row, first, n) ==
  Len(fifo_r) = n /\ \A i \in 1 .. n : fifo_r[i] = Pixel(frame, row, 2 * (first + i))

\* A pixel of a captured frame is on the bus: the multiplexer has seen the one
\* before it, an odd row fills the colour FIFOs, an even row empties them, and
\* beside the second green pixel the other three of its block wait.
OnPixel ==
  LET r == height_counter
      c == width_counter
  IN /\ state_current = IF c = 1 THEN "WAITDATA" ELSE colour(r, c - 1)
     /\ cnt_row = IF odd(r) <=> c = 1 THEN 0 ELSE 1
     /\ state_c = IF colour(r, c) = "G2" THEN "READDATA" ELSE "WAITDATA"
     /\ odd(r) => Greens(r, 0, half(c)) /\ Reds(r, 0, half(c - 1))
     /\ ~odd(r) => /\ Greens(r - 1, half(c), half(Width) - half(c))
                   /\ Reds(r - 1, half(c), half(Width) - half(c))
     /\ colour(r, c) = "G2" =>
          /\ data_g1_out = Pixel(frame, r - 1, c - 1) /\ data_r_out = Pixel(frame, r - 1, c)
          /\ data_b_reg = Pixel(frame, r, c - 1)

\* A captured frame is between two lines, before its first, or after its last.
OffPixel ==
  /\ state_c # "READDATA"
  /\ reg_state = "FRAME_LINE_BLANK" => state_current \in {"IDLE", "WAITDATA"}
  /\ reg_state = "LINE_LINE_BLANK" => state_current \in {"WAITDATA", "R", "G2"}
  /\ reg_state = "LINE_FRAME_BLANK" => state_current \in {"WAITDATA", "G2"}
  /\ reg_state # "FRAME_LINE_BLANK" => state_c = "WAITDATA"
  /\ IF reg_state = "LINE_LINE_BLANK" /\ odd(height_counter)
       THEN /\ cnt_row = 1
            /\ Greens(height_counter, 0, half(Width)) /\ Reds(height_counter, 0, half(Width))
       ELSE cnt_row = 0 /\ fifo_g1 = << >> /\ fifo_r = << >>

\* After a captured frame nothing is stored and nothing awaited.
AtRest ==
  /\ fifo_g1 = << >> /\ fifo_r = << >> /\ cnt_row = 0
  /\ state_c # "READDATA"
  /\ state_current \in {"IDLE", "WAITDATA", "G2"}

\* The controller is where the sensor is.
Follows == IF ~fvalid THEN AtRest ELSE IF lvalid THEN OnPixel ELSE OffPixel

Framed == SensorTypes /\ ControllerTypes /\ Scanning /\ frame \in Nat
InFrame == Framed /\ fvalid /\ Follows

-----------------------------------------------------------------------------
(* Arithmetic of rows and columns.                                         *)

LEMMA Halves ==
  ASSUME NEW n \in Nat
  PROVE  /\ half(n) \in Nat /\ n % 2 \in {0, 1} /\ n = 2 * half(n) + (n % 2)
         /\ odd(n + 1) <=> ~odd(n)
         /\ half(n + 1) = IF odd(n) THEN half(n) + 1 ELSE half(n)
  BY DEF half, odd

LEMMA Ones == odd(1) /\ half(1) = 0 /\ half(0) = 0
  BY DEF odd, half

\* The line of an even number of pixels ends with an even one, and half of
\* what comes before an odd one is less than half of the line.
LEMMA Columns ==
  ASSUME NEW w \in Nat, NEW c \in 1 .. w, w % 2 = 0
  PROVE  /\ w = 2 * half(w) /\ half(c) <= half(w) /\ half(c - 1) <= half(c)
         /\ odd(c) => c < w /\ half(c) < half(w) /\ c = 2 * half(c) + 1 /\ half(c - 1) = half(c)
         /\ ~odd(c) => c = 2 * half(c) /\ half(c - 1) = half(c) - 1 /\ c > 1 /\ c - 1 \in Nat
         /\ c > 1 => (odd(c - 1) <=> ~odd(c))
  BY DEF half, odd

-----------------------------------------------------------------------------
(* The sensor.                                                             *)

\* Counters that have not reached the end of their register count on.
LEMMA CountsUp ==
  ASSUME NEW n \in Nat
  PROVE  sensor!up(n) \in Nat /\ (n + 1 < ConfigRange => sensor!up(n) = n + 1)
  BY ConfigRangeAssumption DEF sensor!up

\* The length of the blank the sensor is in.
blank_length ==
  CASE reg_state = "FRAME_FRAME_BLANK" -> config["frame_frame_blank"]
    [] reg_state = "FRAME_LINE_BLANK" -> config["frame_line_blank"]
    [] reg_state = "LINE_LINE_BLANK" -> config["line_line_blank"]
    [] reg_state = "LINE_FRAME_BLANK" -> config["line_frame_blank"]

\* The ways of the sensor through its frame.
Ends == reg_state' = "IDLE"
Begins ==
  /\ \/ reg_state = "IDLE" /\ reg_start
     \/ reg_state = "FRAME_FRAME_BLANK" /\ blank_counter = blank_length
  /\ reg_state' = "FRAME_LINE_BLANK" /\ blank_counter' = 1
BlankGoesOn ==
  /\ reg_state \in Blanks /\ reg_state' = reg_state /\ blank_counter # blank_length
  /\ blank_counter' = sensor!up(blank_counter)
  /\ UNCHANGED <<width_counter, height_counter>>
LineBegins ==
  /\ reg_state' = "VALID" /\ width_counter' = 1 /\ blank_counter = blank_length
  /\ \/ reg_state = "FRAME_LINE_BLANK" /\ height_counter' = 1
     \/ reg_state = "LINE_LINE_BLANK" /\ height_counter' = height_counter + 1
LineGoesOn ==
  /\ reg_state = "VALID" /\ reg_state' = "VALID" /\ width_counter < Width
  /\ width_counter' = width_counter + 1 /\ height_counter' = height_counter
LineEnds ==
  /\ reg_state = "VALID" /\ width_counter = Width /\ height_counter' = height_counter
  /\ blank_counter' = 1
  /\ \/ reg_state' = "LINE_LINE_BLANK" /\ height_counter < Height
     \/ /\ height_counter = Height
        /\ reg_state' = IF config["line_frame_blank"] > 0 THEN "LINE_FRAME_BLANK"
                        ELSE "FRAME_FRAME_BLANK"
FrameEnds ==
  /\ reg_state = "LINE_FRAME_BLANK" /\ reg_state' = "FRAME_FRAME_BLANK"
  /\ blank_counter = blank_length /\ blank_counter' = 1

LEMMA SensorMoves ==
  ASSUME SensorTypes, Scanning, sensor!NEXT_STATE_LOGIC
  PROVE  /\ \/ Ends \/ Begins \/ BlankGoesOn \/ LineBegins \/ LineGoesOn \/ LineEnds \/ FrameEnds
         /\ width_counter' \in Nat /\ height_counter' \in Nat /\ blank_counter' \in Nat
         /\ reg_state' = "IDLE" => reg_state = "IDLE" \/ reg_stop
         /\ reg_state = "IDLE" /\ ~reg_start => reg_state' = "IDLE"
  <1>1. /\ width_counter \in Nat /\ height_counter \in Nat /\ blank_counter \in Nat
        /\ sensor!up(width_counter) \in Nat /\ sensor!up(height_counter) \in Nat
        /\ sensor!up(blank_counter) \in Nat
    BY CountsUp DEF SensorTypes
  <1>2. CASE sensor!Idle
    BY <1>1, <1>2 DEF sensor!Idle, sensor!EnterFrame, sensor!EnterBlank, sensor!EnterLine,
      sensor!Stay, Begins, Ends, Scanning, Fits
  <1>3. CASE sensor!Stopped
    BY <1>1, <1>3 DEF sensor!Stopped, Ends
  <1>4. CASE sensor!Blanks
    <2>1. Fits
      BY <1>4 DEF Scanning, sensor!Blanks, sensor!Blank
    <2>2. CASE reg_state = "FRAME_FRAME_BLANK"
      BY <1>1, <1>4, <2>1, <2>2 DEF sensor!Blanks, sensor!Blank, sensor!EnterFrame, sensor!EnterBlank,
        Begins, BlankGoesOn, Blanks, blank_length, Fits
    <2>3. CASE reg_state = "FRAME_LINE_BLANK"
      BY <1>1, <1>4, <2>3 DEF sensor!Blanks, sensor!Blank, sensor!EnterLine, LineBegins, BlankGoesOn,
        Blanks, blank_length
    <2>4. CASE reg_state = "LINE_LINE_BLANK"
      <3>1. sensor!up(height_counter) = height_counter + 1
        BY <1>1, <2>1, <2>4, CountsUp, ConfigRangeAssumption DEF Scanning, Fits
      <3> QED
        BY <1>1, <1>4, <2>4, <3>1 DEF sensor!Blanks, sensor!Blank, sensor!EnterLine, LineBegins,
          BlankGoesOn, Blanks, blank_length
    <2>5. CASE reg_state = "LINE_FRAME_BLANK"
      BY <1>1, <1>4, <2>5 DEF sensor!Blanks, sensor!Blank, sensor!EnterBlank, FrameEnds, BlankGoesOn,
        Blanks, blank_length
    <2> QED
      BY <1>4, <2>2, <2>3, <2>4, <2>5 DEF sensor!Blanks, sensor!Blank
  <1>5. CASE sensor!Valid
    <2>1. /\ reg_state = "VALID" /\ width_counter \in 1 .. Width /\ height_counter \in 1 .. Height
          /\ Fits
      BY <1>5 DEF sensor!Valid, Scanning
    <2>2. width_counter < Width => sensor!up(width_counter) = width_counter + 1
      BY <1>1, <2>1, CountsUp, ConfigRangeAssumption DEF Fits
    <2> QED
      BY <1>1, <1>5, <2>1, <2>2 DEF sensor!Valid, sensor!EndOfLine, Width, Height, LineGoesOn, LineEnds, Fits
  <1> QED
    BY <1>2, <1>3, <1>4, <1>5 DEF sensor!NEXT_STATE_LOGIC

\* An edge on which the setting stays, unless the sensor is at rest and is
\* not started.
LEMMA SensorStays ==
  ASSUME SensorTypes, Scanning, sensor!NEXT_STATE_LOGIC,
         config' \in [sensor!registers -> Nat], reg_start' \in BOOLEAN, reg_stop' \in BOOLEAN,
         reg_start \/ reg_state # "IDLE" => config' = config,
         reg_start' => Fits'
  PROVE  SensorTypes' /\ Scanning'
  <1> DEFINE moves == Ends \/ Begins \/ BlankGoesOn \/ LineBegins \/ LineGoesOn \/ LineEnds \/ FrameEnds
  <1>1. /\ moves
        /\ width_counter' \in Nat /\ height_counter' \in Nat /\ blank_counter' \in Nat
        /\ reg_state = "IDLE" /\ ~reg_start => reg_state' = "IDLE"
    BY SensorMoves
  <1>2. SensorTypes'
    BY <1>1 DEF SensorTypes, Ends, Begins, BlankGoesOn, LineBegins, LineGoesOn, LineEnds, FrameEnds, Blanks
  <1>3. reg_start \/ reg_state # "IDLE" => Width' = Width /\ Height' = Height /\ Fits /\ Fits'
    BY DEF Width, Height, Scanning, Fits
  <1>4. (reg_start \/ reg_state # "IDLE" => Fits)'
    BY <1>1, <1>3
  <1>5. (reg_state = "VALID" => width_counter \in 1 .. Width /\ height_counter \in 1 .. Height)'
    BY <1>1, <1>3 DEF Scanning, SensorTypes, Fits, Ends, Begins, BlankGoesOn, LineBegins, LineGoesOn,
      LineEnds, FrameEnds, Blanks
  <1>6. (reg_state = "LINE_LINE_BLANK" => height_counter \in 1 .. Height - 1)'
    BY <1>1, <1>3 DEF Scanning, SensorTypes, Fits, Ends, Begins, BlankGoesOn, LineBegins, LineGoesOn,
      LineEnds, FrameEnds, Blanks
  <1> QED
    BY <1>2, <1>4, <1>5, <1>6 DEF Scanning

-----------------------------------------------------------------------------
(* The controller.                                                         *)

\* An edge of the controller, capturing or not, and one in a captured frame.
ControllerStep == \E on, enable \in BOOLEAN : ControllerEdge(on, enable)
CaptureStep == ControllerEdge(TRUE, TRUE)

\* An edge in a captured frame that is neither stopped nor another one after it.
FrameStep ==
  /\ CaptureStep /\ sensor!NEXT_STATE_LOGIC
  /\ reg_state' # "IDLE" /\ config' = config /\ frame' = frame

LEMMA CapturesAStep == CaptureStep => ControllerStep
  BY DEF CaptureStep, ControllerStep

\* The store the pixel of this cycle goes to, and whether the two FIFOs are
\* read for it.
offered == controller!camera_mux!enable_out(lvalid)
reads == state_c = "WAITDATA" /\ offered = "B"

LEMMA Offered ==
  ASSUME ControllerTypes
  PROVE  /\ offered \in Colours \union {"none"}
         /\ ~lvalid \/ state_current = "IDLE" => offered = "none"
         /\ lvalid /\ state_current = "WAITDATA" => offered = IF cnt_row = 0 THEN "G1" ELSE "B"
         /\ lvalid /\ state_current = "G1" => offered = "R"
         /\ lvalid /\ state_current = "R" => offered = "G1"
         /\ lvalid /\ state_current = "G2" => offered = "B"
         /\ lvalid /\ state_current = "B" => offered = "G2"
  BY DEF ControllerTypes, Colours, offered, controller!camera_mux!enable_out,
    controller!camera_mux!pixel_states, controller!camera_mux!neighbour,
    controller!camera_mux!first_of_line

LEMMA DataTyped ==
  ASSUME SensorTypes, frame \in Nat
  PROVE  data \in Pixels
  BY DEF SensorTypes, data, Pixel, Pixels

\* A FIFO that is neither read nor written keeps what it holds.
LEMMA FifosStay ==
  ASSUME ControllerStep, ~reads, offered \notin {"G1", "R"}
  PROVE  fifo_g1' = fifo_g1 /\ fifo_r' = fifo_r
  BY DEF ControllerStep, ControllerEdge, controller!ClockEdge, controller!ColourFifos, controller!after_read,
    controller!after_write, controller!enable_b_out, controller!average_and_combine!read_r,
    offered, reads

LEMMA GreenStored ==
  ASSUME ControllerStep, offered = "G1", Len(fifo_g1) < ColourDepth
  PROVE  fifo_g1' = Append(fifo_g1, data) /\ fifo_r' = fifo_r
  BY DEF ControllerStep, ControllerEdge, controller!ClockEdge, controller!ColourFifos, controller!after_read,
    controller!after_write, controller!enable_b_out, controller!average_and_combine!read_r, offered

LEMMA RedStored ==
  ASSUME ControllerStep, offered = "R", Len(fifo_r) < ColourDepth
  PROVE  fifo_r' = Append(fifo_r, data) /\ fifo_g1' = fifo_g1
  BY DEF ControllerStep, ControllerEdge, controller!ClockEdge, controller!ColourFifos, controller!after_read,
    controller!after_write, controller!enable_b_out, controller!average_and_combine!read_r, offered

LEMMA FifosRead ==
  ASSUME ControllerStep, reads, fifo_g1 # << >>, fifo_r # << >>
  PROVE  /\ fifo_g1' = Tail(fifo_g1) /\ data_g1_out' = Head(fifo_g1)
         /\ fifo_r' = Tail(fifo_r) /\ data_r_out' = Head(fifo_r)
  BY DEF ControllerStep, ControllerEdge, controller!ClockEdge, controller!ColourFifos, controller!after_read,
    controller!after_write, controller!output, controller!enable_b_out,
    controller!average_and_combine!read_r, offered, reads

\* What becomes of multiplexer and combining unit.
LEMMA MuxMoves ==
  ASSUME ControllerTypes, NEW on \in BOOLEAN, NEW enable \in BOOLEAN,
         ControllerEdge(on, enable)
  PROVE  /\ state_current = "IDLE" =>
              state_current' = IF fvalid /\ enable THEN "WAITDATA" ELSE "IDLE"
         /\ state_current = "WAITDATA" =>
              state_current' = IF ~enable \/ (~lvalid /\ ~fvalid) THEN "IDLE"
                               ELSE IF lvalid THEN offered ELSE "WAITDATA"
         /\ state_current \in Colours =>
              state_current' = IF ~enable THEN "IDLE"
                               ELSE IF lvalid THEN offered ELSE "WAITDATA"
         /\ cnt_row' = IF state_current' \in {"G1", "R"} THEN 1
                       ELSE IF state_current' \in {"B", "G2", "IDLE"} THEN 0 ELSE cnt_row
  BY DEF ControllerTypes, Colours, ControllerEdge, controller!ClockEdge,
    controller!camera_mux!ClockEdge, controller!camera_mux!Idle, controller!camera_mux!WaitData,
    controller!camera_mux!Pixel, controller!camera_mux!row_setting, controller!camera_mux!enable_out,
    controller!camera_mux!pixel_states, controller!camera_mux!neighbour,
    controller!camera_mux!first_of_line, offered

LEMMA CombineMoves ==
  ASSUME ControllerTypes, NEW on \in BOOLEAN, NEW enable \in BOOLEAN,
         ControllerEdge(on, enable)
  PROVE  /\ state_c' = IF reads THEN "READDATA" ELSE IF on THEN "WAITDATA" ELSE "IDLE"
         /\ reads => data_b_reg' = data
  BY DEF ControllerTypes, ControllerEdge, controller!ClockEdge,
    controller!average_and_combine!ClockEdge, controller!average_and_combine!state_setting,
    controller!average_and_combine!data_setting, controller!data_b, controller!latched,
    controller!enable_b_out, offered, reads

LEMMA ControllerTyped ==
  ASSUME SensorTypes, ControllerTypes, frame \in Nat, ControllerStep
  PROVE  ControllerTypes'
  <1>0. PICK on \in BOOLEAN, enable \in BOOLEAN : ControllerEdge(on, enable)
    BY DEF ControllerStep
  <1>1. state_current' \in Colours \union {"IDLE", "WAITDATA"} /\ cnt_row' \in {0, 1}
    BY <1>0, MuxMoves, Offered DEF ControllerTypes, Colours
  <1>2. state_c' \in {"IDLE", "WAITDATA", "READDATA"}
    BY <1>0, CombineMoves
  <1>3. ASSUME NEW queue \in Seq(Pixels), NEW rdreq \in BOOLEAN, NEW wrreq \in BOOLEAN, NEW q \in Pixels
        PROVE  /\ controller!after_write(controller!after_read(queue, rdreq), queue, wrreq, data) \in Seq(Pixels)
               /\ controller!output(queue, q, rdreq) \in Pixels
    <2>1. controller!after_read(queue, rdreq) \in Seq(Pixels) /\ controller!output(queue, q, rdreq) \in Pixels
      BY HeadTailProperties DEF controller!after_read, controller!output
    <2> QED
      BY <2>1, DataTyped, AppendProperties DEF controller!after_write
  <1>4. /\ fifo_g1' \in Seq(Pixels) /\ fifo_r' \in Seq(Pixels)
        /\ data_g1_out' \in Pixels /\ data_r_out' \in Pixels
    <2>1. controller!average_and_combine!read_r(controller!enable_b_out(lvalid)) \in BOOLEAN
      BY DEF controller!average_and_combine!read_r, controller!enable_b_out
    <2> QED
      BY <1>0, <1>3, <2>1 DEF ControllerTypes, ControllerEdge, controller!ClockEdge,
        controller!ColourFifos
  <1>5. data_b_out' \in Pixels /\ data_g2_out' \in Pixels
    BY <1>0, DataTyped DEF ControllerTypes, ControllerEdge, controller!ClockEdge, controller!PixelRegisters,
      controller!data_b, controller!data_g2, controller!latched
  <1> QED
    BY <1>1, <1>2, <1>4, <1>5 DEF ControllerTypes

\* A captured frame between its lines: nothing moves but the multiplexer,
\* which awaits the next line.
LEMMA OffPixelStep ==
  ASSUME InFrame, CaptureStep, ~lvalid
  PROVE  /\ OffPixel
         /\ state_current' = "WAITDATA" /\ cnt_row' = cnt_row /\ state_c' = "WAITDATA"
         /\ fifo_g1' = fifo_g1 /\ fifo_r' = fifo_r
  <1> USE CapturesAStep DEF InFrame, Framed
  <1>0. ControllerEdge(TRUE, TRUE)
    BY DEF CaptureStep
  <1>1. OffPixel
    BY DEF Follows
  <1>2. offered = "none"
    BY Offered
  <1>3. state_current \in {"IDLE", "WAITDATA"} \union Colours
    BY DEF ControllerTypes
  <1>4. state_current' = "WAITDATA"
    BY <1>0, <1>1, <1>3, MuxMoves
  <1>5. cnt_row' = cnt_row
    BY <1>0, <1>4, MuxMoves
  <1>6. state_c' = "WAITDATA"
    BY <1>0, <1>1, <1>2, CombineMoves DEF reads
  <1>7. fifo_g1' = fifo_g1 /\ fifo_r' = fifo_r
    BY <1>2, FifosStay DEF reads
  <1> QED
    BY <1>1, <1>4, <1>5, <1>6, <1>7

\* The pixel on the bus is offered to the store of its colour.
LEMMA OnPixelNow ==
  ASSUME InFrame, lvalid
  PROVE  /\ OnPixel /\ fvalid
         /\ Width \in Nat /\ Width % 2 = 0 /\ half(Width) <= ColourDepth
         /\ Height \in Nat /\ Height % 2 = 0
         /\ width_counter \in 1 .. Width /\ height_counter \in 1 .. Height
         /\ offered = colour(height_counter, width_counter)
         /\ state_current \in {"WAITDATA"} \union Colours
  <1> USE DEF InFrame, Framed
  <1>1. reg_state = "VALID" /\ fvalid
    BY DEF lvalid, fvalid, sensor!line_valid, sensor!frame_valid
  <1>2. OnPixel
    BY <1>1 DEF Follows
  <1>3. /\ Width \in Nat /\ Width % 2 = 0 /\ half(Width) <= ColourDepth
        /\ Height \in Nat /\ Height % 2 = 0
        /\ width_counter \in 1 .. Width /\ height_counter \in 1 .. Height
    BY <1>1 DEF Scanning, Fits
  <1>4. offered = colour(height_counter, width_counter)
    <2>1. CASE width_counter = 1
      <3>1. state_current = "WAITDATA" /\ cnt_row = IF odd(height_counter) THEN 0 ELSE 1
        BY <1>2, <2>1 DEF OnPixel
      <3> QED
        BY <2>1, <3>1, Offered, Ones DEF colour
    <2>2. CASE width_counter > 1
      <3>1. odd(width_counter - 1) <=> ~odd(width_counter)
        BY <1>3, <2>2, Columns
      <3>2. state_current = colour(height_counter, width_counter - 1)
        BY <1>2, <2>2 DEF OnPixel
      <3> QED
        BY <3>1, <3>2, Offered DEF colour
    <2> QED
      BY <1>3, <2>1, <2>2
  <1>5. state_current \in {"WAITDATA"} \union Colours
    BY <1>2, <1>3 DEF OnPixel, colour, Colours
  <1> QED
    BY <1>1, <1>2, <1>3, <1>4, <1>5

\* An odd row finds room for its next pixel.
LEMMA RoomLeft ==
  ASSUME InFrame, lvalid, odd(height_counter)
  PROVE  /\ odd(width_counter) => Len(fifo_g1) < ColourDepth
         /\ ~odd(width_counter) => Len(fifo_r) < ColourDepth
  <1> DEFINE c == width_counter
  <1>1. /\ OnPixel /\ c \in 1 .. Width /\ Width \in Nat /\ Width % 2 = 0
        /\ half(Width) <= ColourDepth
    BY OnPixelNow
  <1>2. Len(fifo_g1) = half(c) /\ Len(fifo_r) = half(c - 1)
    BY <1>1 DEF OnPixel, Greens, Reds
  <1>3. odd(c) => half(c) < half(Width)
    BY <1>1, Columns
  <1>4. ~odd(c) => half(c - 1) = half(c) - 1 /\ half(c) <= half(Width)
    BY <1>1, Columns
  <1>5. c \in Nat /\ half(c) \in Nat /\ half(Width) \in Nat
    <2>1. c \in Nat
      BY <1>1
    <2> QED
      BY <1>1, <2>1, Halves
  <1> QED
    BY <1>1, <1>2, <1>3, <1>4, <1>5, ColourDepthAssumption

\* And it is taken for that colour.
LEMMA OnPixelStep ==
  ASSUME InFrame, CaptureStep, lvalid
  PROVE  /\ state_current' = offered
         /\ cnt_row' = IF odd(height_counter) THEN 1 ELSE 0
         /\ reads <=> offered = "B"
         /\ state_c' = IF offered = "B" THEN "READDATA" ELSE "WAITDATA"
  <1> USE OnPixelNow DEF InFrame, Framed
  <1>0. ControllerEdge(TRUE, TRUE)
    BY DEF CaptureStep
  <1>1. offered \in Colours
    BY DEF colour, Colours
  <1>2. state_current' = offered
    BY <1>0, <1>1, MuxMoves
  <1>3. cnt_row' = IF odd(height_counter) THEN 1 ELSE 0
    BY <1>0, <1>2, MuxMoves DEF colour
  <1>4. reads <=> offered = "B"
    BY DEF OnPixel, reads
  <1> QED
    BY <1>0, <1>2, <1>3, <1>4, CombineMoves

\* What the colour FIFOs hold after this cycle.
GreensNext(row, first, n) ==
  Len(fifo_g1') = n /\ \A i \in 1 .. n : fifo_g1'[i] = Pixel(frame, row, 2 * (first + i) - 1)
RedsNext(row, first, n) ==
  Len(fifo_r') = n /\ \A i \in 1 .. n : fifo_r'[i] = Pixel(frame, row, 2 * (first + i))

LEMMA Stored ==
  ASSUME NEW queue \in Seq(Pixels), NEW pixel \in Pixels
  PROVE  /\ Append(queue, pixel) \in Seq(Pixels)
         /\ Len(Append(queue, pixel)) = Len(queue) + 1
         /\ \A i \in 1 .. Len(queue) : Append(queue, pixel)[i] = queue[i]
         /\ Append(queue, pixel)[Len(queue) + 1] = pixel
  BY AppendProperties

LEMMA Fetched ==
  ASSUME NEW queue \in Seq(Pixels), queue # << >>
  PROVE  /\ Len(queue) \in Nat \ {0} /\ Head(queue) = queue[1]
         /\ Len(Tail(queue)) = Len(queue) - 1
         /\ \A i \in 1 .. Len(queue) - 1 : Tail(queue)[i] = queue[i + 1]
  BY HeadTailProperties, EmptySeq

\* Odd rows: a green pixel, then a red one.
LEMMA GreenTaken ==
  ASSUME InFrame, CaptureStep, lvalid, odd(height_counter), odd(width_counter)
  PROVE  /\ GreensNext(height_counter, 0, half(width_counter + 1))
         /\ RedsNext(height_counter, 0, half(width_counter))
  <1> DEFINE r == height_counter
             c == width_counter
             n == half(c)
  <1>1. /\ OnPixel /\ offered = "G1" /\ r \in Nat /\ c \in Nat /\ c \in 1 .. Width
        /\ Width \in Nat /\ Width % 2 = 0
    BY OnPixelNow, OnPixelStep DEF colour
  <1>2. /\ n \in Nat /\ half(c - 1) = n /\ half(c + 1) = n + 1 /\ 2 * (n + 1) - 1 = c
    <2>1. c = 2 * n + 1 /\ half(c - 1) = n
      BY <1>1, Columns
    <2>2. n \in Nat /\ half(c + 1) = n + 1
      BY <1>1, Halves
    <2> QED
      BY <1>1, <2>1, <2>2
  <1>3. Greens(r, 0, n) /\ Reds(r, 0, n)
    BY <1>1, <1>2 DEF OnPixel
  <1>4. /\ fifo_g1 \in Seq(Pixels) /\ data \in Pixels /\ data = Pixel(frame, r, c)
    BY DataTyped DEF InFrame, Framed, ControllerTypes, data
  <1>5. Len(fifo_g1) < ColourDepth /\ Len(fifo_g1) = n
    BY <1>3, RoomLeft DEF Greens
  <1>6. fifo_g1' = Append(fifo_g1, data) /\ fifo_r' = fifo_r
    BY <1>1, <1>5, GreenStored, CapturesAStep
  <1>7. GreensNext(r, 0, n + 1)
    <2>1. Len(fifo_g1') = n + 1 /\ fifo_g1'[n + 1] = data /\ \A i \in 1 .. n : fifo_g1'[i] = fifo_g1[i]
      BY <1>4, <1>5, <1>6, Stored
    <2>2. ASSUME NEW i \in 1 .. n + 1
          PROVE  fifo_g1'[i] = Pixel(frame, r, 2 * (0 + i) - 1)
      <3>1. CASE i = n + 1
        BY <1>2, <1>4, <2>1, <3>1
      <3>2. CASE i \in 1 .. n
        BY <1>3, <2>1, <3>2 DEF Greens
      <3> QED
        BY <1>2, <3>1, <3>2
    <2> QED
      BY <2>1, <2>2 DEF GreensNext
  <1>8. RedsNext(r, 0, n)
    BY <1>3, <1>6 DEF Reds, RedsNext
  <1> QED
    BY <1>2, <1>7, <1>8

LEMMA RedTaken ==
  ASSUME InFrame, CaptureStep, lvalid, odd(height_counter), ~odd(width_counter)
  PROVE  /\ GreensNext(height_counter, 0, half(width_counter + 1))
         /\ RedsNext(height_counter, 0, half(width_counter))
  <1> DEFINE r == height_counter
             c == width_counter
             n == half(c - 1)
  <1>1. /\ OnPixel /\ offered = "R" /\ r \in Nat /\ c \in Nat /\ c \in 1 .. Width
        /\ Width \in Nat /\ Width % 2 = 0
    BY OnPixelNow, OnPixelStep DEF colour
  <1>2. /\ n \in Nat /\ half(c) = n + 1 /\ half(c + 1) = n + 1 /\ 2 * (n + 1) = c
    <2>1. c = 2 * half(c) /\ half(c - 1) = half(c) - 1 /\ c - 1 \in Nat
      BY <1>1, Columns
    <2>2. half(c) \in Nat /\ half(c - 1) \in Nat /\ half(c + 1) = half(c)
      BY <1>1, <2>1, Halves
    <2> QED
      BY <1>1, <2>1, <2>2
  <1>3. Greens(r, 0, n + 1) /\ Reds(r, 0, n)
    BY <1>1, <1>2 DEF OnPixel
  <1>4. /\ fifo_r \in Seq(Pixels) /\ data \in Pixels /\ data = Pixel(frame, r, c)
    BY DataTyped DEF InFrame, Framed, ControllerTypes, data
  <1>5. Len(fifo_r) < ColourDepth /\ Len(fifo_r) = n
    BY <1>3, RoomLeft DEF Reds
  <1>6. fifo_r' = Append(fifo_r, data) /\ fifo_g1' = fifo_g1
    BY <1>1, <1>5, RedStored, CapturesAStep
  <1>7. RedsNext(r, 0, n + 1)
    <2>1. Len(fifo_r') = n + 1 /\ fifo_r'[n + 1] = data /\ \A i \in 1 .. n : fifo_r'[i] = fifo_r[i]
      BY <1>4, <1>5, <1>6, Stored
    <2>2. ASSUME NEW i \in 1 .. n + 1
          PROVE  fifo_r'[i] = Pixel(frame, r, 2 * (0 + i))
      <3>1. CASE i = n + 1
        BY <1>2, <1>4, <2>1, <3>1
      <3>2. CASE i \in 1 .. n
        BY <1>3, <2>1, <3>2 DEF Reds
      <3> QED
        BY <1>2, <3>1, <3>2
    <2> QED
      BY <2>1, <2>2 DEF RedsNext
  <1>8. GreensNext(r, 0, n + 1)
    BY <1>3, <1>6 DEF Greens, GreensNext
  <1> QED
    BY <1>2, <1>7, <1>8

\* Even rows: a blue pixel fetches the two above it, then the second green
\* one completes the word.
LEMMA BlueTaken ==
  ASSUME InFrame, CaptureStep, lvalid, ~odd(height_counter), odd(width_counter)
  PROVE  LET above == height_counter - 1
             read == half(width_counter + 1)
         IN /\ GreensNext(above, read, half(Width) - read)
            /\ RedsNext(above, read, half(Width) - read)
            /\ data_g1_out' = Pixel(frame, above, width_counter)
            /\ data_r_out' = Pixel(frame, above, width_counter + 1)
            /\ data_b_reg' = Pixel(frame, height_counter, width_counter)
  <1> DEFINE r == height_counter
             c == width_counter
             n == half(c)
             m == half(Width)
  <1>1. /\ OnPixel /\ offered = "B" /\ r \in Nat /\ c \in Nat /\ c \in 1 .. Width
        /\ Width \in Nat /\ Width % 2 = 0 /\ reads
    BY OnPixelNow, OnPixelStep DEF colour
  <1>2. /\ n \in Nat /\ m \in Nat /\ half(c + 1) = n + 1 /\ 2 * (n + 1) - 1 = c /\ n < m
    <2>1. c = 2 * n + 1 /\ n < m
      BY <1>1, Columns
    <2>2. n \in Nat /\ half(c + 1) = n + 1 /\ m \in Nat
      BY <1>1, Halves
    <2> QED
      BY <1>1, <2>1, <2>2
  <1>3. Greens(r - 1, n, m - n) /\ Reds(r - 1, n, m - n)
    BY <1>1 DEF OnPixel
  <1>4. fifo_g1 \in Seq(Pixels) /\ fifo_r \in Seq(Pixels) /\ data = Pixel(frame, r, c)
    BY DEF InFrame, Framed, ControllerTypes, data
  <1>5. fifo_g1 # << >> /\ fifo_r # << >> /\ Len(fifo_g1) = m - n /\ Len(fifo_r) = m - n
    BY <1>2, <1>3 DEF Greens, Reds
  <1>6. /\ fifo_g1' = Tail(fifo_g1) /\ data_g1_out' = Head(fifo_g1)
        /\ fifo_r' = Tail(fifo_r) /\ data_r_out' = Head(fifo_r)
    BY <1>1, <1>5, FifosRead, CapturesAStep
  <1>7. data_b_reg' = Pixel(frame, r, c)
    BY <1>1, <1>4, CombineMoves DEF InFrame, Framed, CaptureStep
  <1>8. data_g1_out' = Pixel(frame, r - 1, c) /\ data_r_out' = Pixel(frame, r - 1, c + 1)
    <2>1. 1 \in 1 .. m - n
      BY <1>2
    <2>2. fifo_g1[1] = Pixel(frame, r - 1, 2 * (n + 1) - 1) /\ fifo_r[1] = Pixel(frame, r - 1, 2 * (n + 1))
      BY <1>3, <2>1 DEF Greens, Reds
    <2>3. 2 * (n + 1) = c + 1
      BY <1>2
    <2> QED
      BY <1>2, <1>4, <1>5, <1>6, <2>2, <2>3, Fetched
  <1>9. GreensNext(r - 1, n + 1, m - (n + 1)) /\ RedsNext(r - 1, n + 1, m - (n + 1))
    <2>1. /\ Len(fifo_g1') = m - (n + 1) /\ Len(fifo_r') = m - (n + 1)
          /\ \A i \in 1 .. m - n - 1 : fifo_g1'[i] = fifo_g1[i + 1] /\ fifo_r'[i] = fifo_r[i + 1]
      BY <1>2, <1>4, <1>5, <1>6, Fetched
    <2>2. ASSUME NEW i \in 1 .. m - (n + 1)
          PROVE  /\ fifo_g1'[i] = Pixel(frame, r - 1, 2 * (n + 1 + i) - 1)
                 /\ fifo_r'[i] = Pixel(frame, r - 1, 2 * (n + 1 + i))
      <3>1. i \in 1 .. m - n - 1 /\ i + 1 \in 1 .. m - n /\ n + (i + 1) = n + 1 + i
        BY <1>2
      <3>2. /\ fifo_g1[i + 1] = Pixel(frame, r - 1, 2 * (n + (i + 1)) - 1)
            /\ fifo_r[i + 1] = Pixel(frame, r - 1, 2 * (n + (i + 1)))
        BY <1>3, <3>1 DEF Greens, Reds
      <3> QED
        BY <2>1, <3>1, <3>2
    <2> QED
      BY <2>1, <2>2 DEF GreensNext, RedsNext
  <1> QED
    BY <1>2, <1>7, <1>8, <1>9

LEMMA SecondGreenTaken ==
  ASSUME InFrame, CaptureStep, lvalid, ~odd(height_counter), ~odd(width_counter)
  PROVE  LET above == height_counter - 1
             read == half(width_counter + 1)
         IN /\ GreensNext(above, read, half(Width) - read)
            /\ RedsNext(above, read, half(Width) - read)
  <1>1. /\ OnPixel /\ offered = "G2" /\ width_counter \in Nat /\ ~reads
    BY OnPixelNow, OnPixelStep DEF colour
  <1>2. half(width_counter + 1) = half(width_counter)
    BY <1>1, Halves
  <1>3. fifo_g1' = fifo_g1 /\ fifo_r' = fifo_r
    BY <1>1, FifosStay, CapturesAStep
  <1> QED
    BY <1>1, <1>2, <1>3 DEF OnPixel, Greens, Reds, GreensNext, RedsNext

\* A step within a captured frame: what does not change.
LEMMA WithinFrame ==
  ASSUME InFrame, FrameStep
  PROVE  /\ CaptureStep /\ frame' = frame /\ Width' = Width /\ Height' = Height
         /\ Width \in Nat /\ Width % 2 = 0 /\ Height \in Nat /\ Height % 2 = 0
         /\ height_counter \in Nat /\ width_counter \in Nat
         /\ BlankGoesOn \/ LineBegins \/ LineGoesOn \/ LineEnds \/ FrameEnds
  <1>1. CaptureStep /\ frame' = frame /\ Width' = Width /\ Height' = Height
    BY DEF FrameStep, Width, Height
  <1>2. reg_state \notin {"IDLE", "FRAME_FRAME_BLANK"}
    BY DEF InFrame, fvalid, sensor!frame_valid
  <1>3. BlankGoesOn \/ LineBegins \/ LineGoesOn \/ LineEnds \/ FrameEnds
    BY <1>2, SensorMoves DEF InFrame, Framed, FrameStep, Ends, Begins
  <1> QED
    BY <1>1, <1>2, <1>3 DEF InFrame, Framed, SensorTypes, Scanning, Fits

LEMMA BlankStep ==
  ASSUME InFrame, FrameStep, BlankGoesOn \/ FrameEnds
  PROVE  Follows'
  <1> USE WithinFrame
  <1>1. ~lvalid /\ reg_state \in {"FRAME_LINE_BLANK", "LINE_LINE_BLANK", "LINE_FRAME_BLANK"}
    BY DEF InFrame, fvalid, lvalid, sensor!frame_valid, sensor!line_valid, BlankGoesOn, FrameEnds,
      Blanks
  <1>2. /\ OffPixel
        /\ state_current' = "WAITDATA" /\ cnt_row' = cnt_row /\ state_c' = "WAITDATA"
        /\ fifo_g1' = fifo_g1 /\ fifo_r' = fifo_r
    BY <1>1, OffPixelStep
  <1>3. CASE BlankGoesOn
    <2>1. reg_state' = reg_state /\ height_counter' = height_counter
      BY <1>3 DEF BlankGoesOn
    <2>2. fvalid' /\ ~lvalid'
      BY <1>1, <2>1 DEF fvalid, lvalid, sensor!frame_valid, sensor!line_valid
    <2>3. CASE reg_state = "LINE_LINE_BLANK" /\ odd(height_counter)
      <3>1. /\ Greens(height_counter, 0, half(Width)) /\ Reds(height_counter, 0, half(Width))
            /\ cnt_row = 1
        BY <1>2, <2>3 DEF OffPixel
      <3>2. Greens(height_counter, 0, half(Width))' /\ Reds(height_counter, 0, half(Width))'
        BY <1>2, <2>1, <3>1 DEF Greens, Reds, Pixel
      <3>3. OffPixel'
        BY <1>2, <2>1, <2>3, <3>1, <3>2 DEF OffPixel
      <3> QED
        BY <2>2, <3>3 DEF Follows
    <2>4. CASE ~(reg_state = "LINE_LINE_BLANK" /\ odd(height_counter))
      <3>1. OffPixel'
        BY <1>2, <2>1, <2>4 DEF OffPixel
      <3> QED
        BY <2>2, <3>1 DEF Follows
    <2> QED
      BY <2>3, <2>4
  <1>4. CASE FrameEnds
    <2>1. reg_state = "LINE_FRAME_BLANK" /\ ~fvalid'
      BY <1>4 DEF FrameEnds, fvalid, sensor!frame_valid
    <2>2. cnt_row = 0 /\ fifo_g1 = << >> /\ fifo_r = << >>
      BY <1>2, <2>1 DEF OffPixel
    <2> QED
      BY <1>2, <2>1, <2>2 DEF Follows, AtRest
  <1> QED
    BY <1>3, <1>4

LEMMA LineBeginStep ==
  ASSUME InFrame, FrameStep, LineBegins
  PROVE  Follows'
  <1> USE WithinFrame
  <1>1. ~lvalid /\ reg_state \in {"FRAME_LINE_BLANK", "LINE_LINE_BLANK"}
    BY DEF lvalid, sensor!line_valid, LineBegins
  <1>2. /\ OffPixel
        /\ state_current' = "WAITDATA" /\ cnt_row' = cnt_row /\ state_c' = "WAITDATA"
        /\ fifo_g1' = fifo_g1 /\ fifo_r' = fifo_r
    BY <1>1, OffPixelStep
  <1>3. reg_state' = "VALID" /\ width_counter' = 1 /\ fvalid' /\ lvalid'
    BY DEF LineBegins, fvalid, lvalid, sensor!frame_valid, sensor!line_valid
  <1>4. colour(height_counter', 1) # "G2"
    BY Ones DEF colour
  <1>5. CASE odd(height_counter')
    <2>1. cnt_row = 0 /\ fifo_g1 = << >> /\ fifo_r = << >>
      <3>1. ~(reg_state = "LINE_LINE_BLANK" /\ odd(height_counter))
        BY <1>5, Halves DEF LineBegins
      <3> QED
        BY <1>2, <3>1 DEF OffPixel
    <2>2. Greens(height_counter, 0, 0)' /\ Reds(height_counter, 0, 0)'
      BY <1>2, <2>1 DEF Greens, Reds
    <2>3. OnPixel'
      BY <1>2, <1>3, <1>4, <1>5, <2>1, <2>2, Ones DEF OnPixel
    <2> QED
      BY <1>3, <2>3 DEF Follows
  <1>6. CASE ~odd(height_counter')
    <2>1. /\ reg_state = "LINE_LINE_BLANK" /\ odd(height_counter)
          /\ height_counter' = height_counter + 1
      BY <1>6, Halves, Ones DEF LineBegins
    <2>2. /\ Greens(height_counter, 0, half(Width)) /\ Reds(height_counter, 0, half(Width))
          /\ cnt_row = 1
      BY <1>2, <2>1 DEF OffPixel
    <2>3. half(Width) \in Nat /\ half(Width) - 0 = half(Width) /\ height_counter' - 1 = height_counter
      <3>1. Width \in Nat /\ height_counter \in Nat
        OBVIOUS
      <3>2. half(Width) \in Nat
        BY <3>1, Halves
      <3> QED
        BY <2>1, <3>1, <3>2
    <2>4. Greens(height_counter - 1, 0, half(Width) - 0)' /\ Reds(height_counter - 1, 0, half(Width) - 0)'
      BY <1>2, <2>2, <2>3 DEF Greens, Reds, Pixel
    <2>5. OnPixel'
      BY <1>2, <1>3, <1>4, <1>6, <2>2, <2>4, Ones DEF OnPixel
    <2> QED
      BY <1>3, <2>5 DEF Follows
  <1> QED
    BY <1>5, <1>6

\* The colour FIFOs after a pixel of an odd and of an even row.
LEMMA PixelTaken ==
  ASSUME InFrame, CaptureStep, lvalid
  PROVE  LET r == height_counter
             c == width_counter
             read == half(c + 1)
         IN /\ odd(r) => GreensNext(r, 0, read) /\ RedsNext(r, 0, half(c))
            /\ ~odd(r) => /\ GreensNext(r - 1, read, half(Width) - read)
                          /\ RedsNext(r - 1, read, half(Width) - read)
  <1>1. CASE odd(height_counter) /\ odd(width_counter)
    BY <1>1, GreenTaken
  <1>2. CASE odd(height_counter) /\ ~odd(width_counter)
    BY <1>2, RedTaken
  <1>3. CASE ~odd(height_counter) /\ odd(width_counter)
    BY <1>3, BlueTaken
  <1>4. CASE ~odd(height_counter) /\ ~odd(width_counter)
    BY <1>4, SecondGreenTaken
  <1> QED
    BY <1>1, <1>2, <1>3, <1>4

LEMMA LineGoesOnStep ==
  ASSUME InFrame, FrameStep, LineGoesOn
  PROVE  Follows'
  <1> USE WithinFrame
  <1> DEFINE r == height_counter
             c == width_counter
  <1>1. /\ lvalid /\ reg_state' = "VALID" /\ c' = c + 1 /\ r' = r /\ fvalid' /\ lvalid'
        /\ r \in Nat /\ c \in Nat /\ c < Width /\ Width \in Nat /\ Width' = Width /\ frame' = frame
    BY DEF lvalid, fvalid, sensor!line_valid, sensor!frame_valid, LineGoesOn
  <1>2. /\ state_current' = colour(r, c) /\ cnt_row' = IF odd(r) THEN 1 ELSE 0
        /\ state_c' = IF colour(r, c) = "B" THEN "READDATA" ELSE "WAITDATA"
        /\ c \in 1 .. Width
    BY <1>1, OnPixelNow, OnPixelStep
  <1>3. odd(c + 1) <=> ~odd(c)
    BY <1>1, Halves
  <1>4. c' # 1 /\ c' - 1 = c /\ colour(r', c' - 1) = colour(r, c)
    BY <1>1, <1>2
  <1>5. colour(r', c') = "G2" <=> colour(r, c) = "B"
    BY <1>1, <1>3 DEF colour
  <1>6. (odd(height_counter) => Greens(height_counter, 0, half(width_counter))
                                /\ Reds(height_counter, 0, half(width_counter - 1)))'
    <2>1. SUFFICES ASSUME odd(r')
                   PROVE  (Greens(height_counter, 0, half(width_counter))
                           /\ Reds(height_counter, 0, half(width_counter - 1)))'
      OBVIOUS
    <2>2. GreensNext(r, 0, half(c + 1)) /\ RedsNext(r, 0, half(c))
      BY <1>1, <2>1, PixelTaken
    <2> QED
      BY <1>1, <1>4, <2>2 DEF Greens, Reds, GreensNext, RedsNext, Pixel
  <1>7. (~odd(height_counter) =>
           /\ Greens(height_counter - 1, half(width_counter), half(Width) - half(width_counter))
           /\ Reds(height_counter - 1, half(width_counter), half(Width) - half(width_counter)))'
    <2>1. SUFFICES ASSUME ~odd(r')
                   PROVE  (Greens(height_counter - 1, half(width_counter), half(Width) - half(width_counter))
                           /\ Reds(height_counter - 1, half(width_counter), half(Width) - half(width_counter)))'
      OBVIOUS
    <2>2. /\ GreensNext(r - 1, half(c + 1), half(Width) - half(c + 1))
          /\ RedsNext(r - 1, half(c + 1), half(Width) - half(c + 1))
      BY <1>1, <2>1, PixelTaken
    <2> QED
      BY <1>1, <1>4, <2>2 DEF Greens, Reds, GreensNext, RedsNext, Pixel
  <1>8. (colour(height_counter, width_counter) = "G2" =>
          /\ data_g1_out = Pixel(frame, height_counter - 1, width_counter - 1)
          /\ data_r_out = Pixel(frame, height_counter - 1, width_counter)
          /\ data_b_reg = Pixel(frame, height_counter, width_counter - 1))'
    <2>1. SUFFICES ASSUME colour(r', c') = "G2"
                   PROVE  (/\ data_g1_out = Pixel(frame, height_counter - 1, width_counter - 1)
                           /\ data_r_out = Pixel(frame, height_counter - 1, width_counter)
                           /\ data_b_reg = Pixel(frame, height_counter, width_counter - 1))'
      OBVIOUS
    <2>2. ~odd(r) /\ odd(c)
      BY <1>5, <2>1 DEF colour
    <2>3. /\ data_g1_out' = Pixel(frame, r - 1, c) /\ data_r_out' = Pixel(frame, r - 1, c + 1)
          /\ data_b_reg' = Pixel(frame, r, c)
      BY <1>1, <2>2, BlueTaken
    <2> QED
      BY <1>1, <1>4, <2>3 DEF Pixel
  <1>9. OnPixel'
    BY <1>1, <1>2, <1>4, <1>5, <1>6, <1>7, <1>8 DEF OnPixel
  <1> QED
    BY <1>1, <1>9 DEF Follows

LEMMA LineEndStep ==
  ASSUME InFrame, FrameStep, LineEnds
  PROVE  Follows'
  <1> USE WithinFrame
  <1> DEFINE r == height_counter
             c == width_counter
  <1>1. /\ lvalid /\ ~lvalid' /\ c = Width /\ r' = r
        /\ r \in Nat /\ Width \in Nat /\ Width % 2 = 0 /\ Width' = Width /\ frame' = frame
        /\ Height \in Nat /\ Height % 2 = 0 /\ c \in Nat
    BY DEF lvalid, fvalid, sensor!line_valid, sensor!frame_valid, LineEnds
  <1>2. /\ state_current' = colour(r, c) /\ cnt_row' = IF odd(r) THEN 1 ELSE 0
        /\ state_c' = IF colour(r, c) = "B" THEN "READDATA" ELSE "WAITDATA"
    BY <1>1, OnPixelNow, OnPixelStep
  <1>3. ~odd(c) /\ half(c + 1) = half(Width) /\ half(c) = half(Width) /\ half(Width) \in Nat
    <2>1. ~odd(Width)
      BY <1>1 DEF odd
    <2>2. half(Width) \in Nat /\ half(Width + 1) = half(Width)
      BY <1>1, <2>1, Halves
    <2> QED
      BY <1>1, <2>1, <2>2
  <1>4. state_c' = "WAITDATA" /\ state_current' = IF odd(r) THEN "R" ELSE "G2"
    BY <1>2, <1>3 DEF colour
  <1>5. CASE odd(r)
    <2>1. reg_state' = "LINE_LINE_BLANK" /\ fvalid'
      <3>1. r # Height
        BY <1>1, <1>5 DEF odd
      <3> QED
        BY <3>1 DEF LineEnds, fvalid, sensor!frame_valid
    <2>2. GreensNext(r, 0, half(Width)) /\ RedsNext(r, 0, half(Width))
      BY <1>1, <1>3, <1>5, PixelTaken
    <2>3. Greens(height_counter, 0, half(Width))' /\ Reds(height_counter, 0, half(Width))'
      BY <1>1, <2>2 DEF Greens, Reds, GreensNext, RedsNext, Pixel
    <2>4. OffPixel'
      BY <1>1, <1>2, <1>4, <1>5, <2>1, <2>3 DEF OffPixel
    <2> QED
      BY <1>1, <2>1, <2>4 DEF Follows
  <1>6. CASE ~odd(r)
    <2>1. GreensNext(r - 1, half(Width), 0) /\ RedsNext(r - 1, half(Width), 0)
      BY <1>1, <1>3, <1>6, PixelTaken
    <2>2. fifo_g1' \in Seq(Pixels) /\ fifo_r' \in Seq(Pixels)
      BY ControllerTyped, CapturesAStep DEF InFrame, Framed, ControllerTypes
    <2>3. fifo_g1' = << >> /\ fifo_r' = << >> /\ cnt_row' = 0
      BY <1>2, <1>6, <2>1, <2>2, EmptySeq DEF GreensNext, RedsNext
    <2>4. reg_state' \in {"LINE_LINE_BLANK", "LINE_FRAME_BLANK", "FRAME_FRAME_BLANK"}
      BY DEF LineEnds
    <2>5. OffPixel'
      BY <1>1, <1>4, <1>6, <2>3, <2>4 DEF OffPixel
    <2>6. ~fvalid' => AtRest'
      BY <1>4, <1>6, <2>3 DEF AtRest
    <2> QED
      BY <1>1, <2>5, <2>6 DEF Follows
  <1> QED
    BY <1>5, <1>6

\* In a captured frame the controller follows the sensor.
LEMMA FollowsStep ==
  ASSUME InFrame, FrameStep
  PROVE  Follows'
  BY WithinFrame, BlankStep, LineBeginStep, LineGoesOnStep, LineEndStep

-----------------------------------------------------------------------------
(* CameraCapture: the inductive invariant, part by part.                   *)

HistoryTypes ==
  /\ wanted \in BOOLEAN /\ start \in BOOLEAN /\ enable_mux \in BOOLEAN
  /\ words \in Nat /\ whole \in BOOLEAN /\ cut \in BOOLEAN

\* Within a frame both wires show what software wants.
Wires == fvalid => start = wanted /\ enable_mux = wanted

\* Between frames, and in frames that are not captured, nothing is stored and
\* nothing awaited.
Resting ==
  /\ fifo_g1 = << >> /\ fifo_r = << >> /\ cnt_row = 0
  /\ state_c # "READDATA"
  /\ IF fvalid THEN state_current = "IDLE"
     ELSE /\ state_current \in {"IDLE", "WAITDATA", "G2"}
          /\ state_current = "G2" => wanted /\ enable_mux

\* The words of a frame that is captured as a whole, four pixels each.
Counted ==
  whole =>
    /\ wanted
    /\ reg_state \in {"VALID", "LINE_FRAME_BLANK", "FRAME_FRAME_BLANK",
                      "FRAME_LINE_BLANK", "LINE_LINE_BLANK"}
    /\ reg_state = "FRAME_LINE_BLANK" => words = 0
    /\ reg_state = "VALID" =>
         4 * words = IF odd(height_counter) THEN (height_counter - 1) * Width
                     ELSE (height_counter - 2) * Width + 4 * half(width_counter - 1)
    /\ reg_state = "LINE_LINE_BLANK" =>
         4 * words = IF odd(height_counter) THEN (height_counter - 1) * Width
                     ELSE height_counter * Width
    /\ reg_state \in {"LINE_FRAME_BLANK", "FRAME_FRAME_BLANK"} => 4 * words = Height * Width

\* The controller is where the sensor is.
InStep ==
  /\ Wires
  /\ ~(fvalid /\ wanted) => Resting
  /\ fvalid /\ wanted => IF lvalid THEN OnPixel ELSE OffPixel

Capturing ==
  /\ Framed /\ HistoryTypes
  /\ ~cut => InStep /\ Counted

-----------------------------------------------------------------------------
(* Software of CameraCapture, and the records.                             *)

\* Registers that hold what software chose hold an allowed setting.
LEMMA Configured ==
  ASSUME Settings
  PROVE  (configured => Fits) /\ (configured' => Fits')
  <1>1. ASSUME NEW w \in ConfigValues["frame_width"], NEW h \in ConfigValues["frame_height"]
        PROVE  /\ w \in 1 .. ConfigRange - 1 /\ w % 2 = 0 /\ half(w) <= ColourDepth
               /\ h \in 1 .. ConfigRange - 1 /\ h % 2 = 0
    <2>1. w \in 0 .. ConfigRange - 1 /\ h \in 0 .. ConfigRange - 1
      BY DEF Settings, sensor!registers
    <2> QED
      BY <2>1, ConfigRangeAssumption DEF Settings, half
  <1>2. ASSUME NEW b \in ConfigValues["frame_line_blank"]
        PROVE  b > 0
    BY DEF Settings
  <1> QED
    BY <1>1, <1>2 DEF configured, Fits, Width, Height, sensor!registers

\* An edge of the sensor.
SensorStep == \E command \in captureCommands : Command(command) /\ sensor!ClockEdge(command)

\* What an edge does to the configuration.
LEMMA Configures ==
  ASSUME Settings, SensorTypes, SensorStep
  PROVE  /\ config' \in [sensor!registers -> Nat]
         /\ reg_start' \in BOOLEAN /\ reg_stop' \in BOOLEAN
         /\ reg_start' => reg_state = "IDLE" /\ configured
         /\ reg_start \/ reg_state # "IDLE" => config' = config
         /\ configured => configured'
  <1> PICK command \in captureCommands : Command(command) /\ sensor!ClockEdge(command)
    BY DEF SensorStep
  <1>1. reg_start' \in BOOLEAN /\ reg_stop' \in BOOLEAN
    BY DEF sensor!ClockEdge, sensor!MM_WRITE
  <1>2. reg_start' => reg_state = "IDLE" /\ configured
    <2>1. SUFFICES ASSUME reg_start'
                   PROVE  reg_state = "IDLE" /\ configured
      OBVIOUS
    <2>2. command.op = "start" /\ reg_state = "IDLE"
      BY <2>1 DEF sensor!ClockEdge, sensor!MM_WRITE
    <2>3. ASSUME NEW s \in sensor!registers, NEW v \in ConfigValues[s]
          PROVE  command # sensor!Configure(s, v)
      BY <2>2 DEF sensor!Configure
    <2>4. command # sensor!NoCommand /\ command # sensor!Stop
      BY <2>2 DEF sensor!NoCommand, sensor!Stop
    <2> QED
      BY <2>2, <2>3, <2>4 DEF Command
  <1>3. CASE config' = config
    BY <1>1, <1>2, <1>3 DEF SensorTypes, configured
  <1>4. CASE config' # config
    <2>1. /\ command.op = "config" /\ reg_state = "IDLE"
          /\ config' = [config EXCEPT ![command.register] = command.wrdata]
      BY <1>4 DEF sensor!ClockEdge, sensor!MM_WRITE
    <2>2. /\ ~reg_start
          /\ \E s \in sensor!registers : \E v \in ConfigValues[s] : command = sensor!Configure(s, v)
      BY <2>1 DEF Command, sensor!NoCommand, sensor!Start, sensor!Stop
    <2>3. PICK s \in sensor!registers : \E v \in ConfigValues[s] : command = sensor!Configure(s, v)
      BY <2>2
    <2>4. PICK v \in ConfigValues[s] : command = sensor!Configure(s, v)
      BY <2>3
    <2>5. config' = [config EXCEPT ![s] = v]
      BY <2>1, <2>4 DEF sensor!Configure
    <2>6. v \in Nat
      BY ConfigRangeAssumption DEF Settings
    <2> QED
      BY <1>1, <1>2, <2>1, <2>2, <2>5, <2>6 DEF SensorTypes, configured
  <1> QED
    BY <1>3, <1>4

\* An edge on which the capture goes on.
CaptureEdge ==
  SensorStep /\ ControllerEdge(start, enable_mux) /\ Control /\ CaptureRecord

LEMMA FramesCount ==
  ASSUME frame \in Nat, CountFrames
  PROVE  /\ frame' \in Nat
         /\ fvalid => frame' = frame
  <1>1. (frame + 1) % FrameTags \in Nat
    BY FrameTagsAssumption
  <1> QED
    BY <1>1 DEF CountFrames, FrameBegins

LEMMA HistoryTyped ==
  ASSUME HistoryTypes, Control, CaptureRecord
  PROVE  HistoryTypes'
  <1>1. wanted' \in BOOLEAN
    BY DEF HistoryTypes, Control
  <1>2. start' \in BOOLEAN /\ enable_mux' \in BOOLEAN
    BY <1>1 DEF HistoryTypes, Control
  <1>3. words' \in Nat
    <2>1. words' \in {0, words, words + 1}
      BY Zenon DEF CaptureRecord
    <2> QED
      BY <2>1 DEF HistoryTypes
  <1>4. whole' \in BOOLEAN /\ cut' \in BOOLEAN
    BY DEF HistoryTypes, CaptureRecord
  <1> QED
    BY <1>1, <1>2, <1>3, <1>4 DEF HistoryTypes

\* A step that cuts no frame short.
LEMMA NothingCut ==
  ASSUME HistoryTypes, Control, CaptureRecord, ~cut'
  PROVE  /\ ~cut
         /\ fvalid \/ fvalid' => /\ wanted' = wanted
                                 /\ start' = wanted' /\ enable_mux' = wanted'
         /\ fvalid => reg_state' # "IDLE" /\ frame' = frame
  BY DEF HistoryTypes, Control, CaptureRecord, CountFrames, FrameBegins

-----------------------------------------------------------------------------
(* Sensor and controller stay in step.                                     *)

\* Between frames the multiplexer goes back to rest, and waits at most for the
\* frame that begins.
LEMMA RestBetween ==
  ASSUME Settings, Capturing, CaptureEdge, ~cut', ~fvalid
  PROVE  InStep'
  <1> USE NothingCut DEF Capturing, Framed, CaptureEdge
  <1>0. ControllerStep /\ start \in BOOLEAN /\ enable_mux \in BOOLEAN /\ sensor!NEXT_STATE_LOGIC
    BY DEF ControllerStep, HistoryTypes, SensorStep, sensor!ClockEdge
  <1>1. Resting /\ ~lvalid
    BY DEF InStep, fvalid, lvalid, sensor!frame_valid, sensor!line_valid
  <1>2. /\ state_current \in {"IDLE", "WAITDATA", "G2"}
        /\ state_current = "G2" => wanted /\ enable_mux
    BY <1>1 DEF Resting
  <1>3. offered = "none"
    BY <1>1, Offered
  <1>4. fifo_g1' = << >> /\ fifo_r' = << >>
    BY <1>0, <1>1, <1>3, FifosStay DEF Resting, reads
  <1>5. state_c' \in {"WAITDATA", "IDLE"}
    BY <1>0, <1>3, CombineMoves DEF reads
  <1>6. /\ state_current' \in {"IDLE", "WAITDATA"} /\ cnt_row' = 0
        /\ state_current' = "WAITDATA" => wanted
    BY <1>0, <1>1, <1>2, MuxMoves DEF Resting, Colours
  <1>7. CASE ~fvalid'
    BY <1>4, <1>5, <1>6, <1>7 DEF InStep, Wires, Resting
  <1>8. CASE fvalid'
    <2>1. reg_state' = "FRAME_LINE_BLANK"
      BY <1>0, <1>8, SensorMoves DEF Ends, Begins, BlankGoesOn, LineBegins, LineGoesOn, LineEnds, FrameEnds,
        Blanks, fvalid, sensor!frame_valid
    <2>2. ~lvalid'
      BY <2>1 DEF lvalid, sensor!line_valid
    <2>3. wanted' = wanted /\ start' = wanted' /\ enable_mux' = wanted'
      BY <1>8
    <2>4. ~wanted' => Resting'
      BY <1>4, <1>5, <1>6, <1>8, <2>3 DEF Resting
    <2>5. OffPixel'
      BY <1>4, <1>5, <1>6, <2>1 DEF OffPixel
    <2> QED
      BY <1>8, <2>2, <2>3, <2>4, <2>5 DEF InStep, Wires
  <1> QED
    BY <1>7, <1>8

\* A frame that is not captured leaves the controller at rest.
LEMMA RestUncaptured ==
  ASSUME Settings, Capturing, CaptureEdge, ~cut', fvalid, ~wanted
  PROVE  InStep'
  <1> USE NothingCut DEF Capturing, Framed, CaptureEdge
  <1>0. ControllerStep /\ start \in BOOLEAN /\ enable_mux \in BOOLEAN
    BY DEF ControllerStep, HistoryTypes
  <1>1. Resting /\ state_current = "IDLE" /\ ~enable_mux
    BY DEF InStep, Resting, Wires, HistoryTypes
  <1>2. offered = "none"
    BY <1>1, Offered
  <1>3. fifo_g1' = << >> /\ fifo_r' = << >>
    BY <1>0, <1>1, <1>2, FifosStay DEF Resting, reads
  <1>4. state_c' \in {"WAITDATA", "IDLE"}
    BY <1>0, <1>2, CombineMoves DEF reads
  <1>5. state_current' = "IDLE" /\ cnt_row' = 0
    BY <1>0, <1>1, MuxMoves DEF Resting
  <1>6. ~wanted' /\ start' = wanted' /\ enable_mux' = wanted'
    OBVIOUS
  <1> QED
    BY <1>3, <1>4, <1>5, <1>6 DEF InStep, Wires, Resting

\* A frame that is captured: what one edge does to it was shown above.
LEMMA FrameCaptured ==
  ASSUME Settings, Capturing, CaptureEdge, ~cut', fvalid, wanted
  PROVE  InFrame /\ FrameStep
  <1>1. ~cut /\ reg_state' # "IDLE" /\ frame' = frame
    BY NothingCut DEF Capturing, CaptureEdge
  <1>2. InFrame
    BY <1>1 DEF Capturing, InFrame, InStep, Follows
  <1>3. start = TRUE /\ enable_mux = TRUE
    BY <1>1 DEF Capturing, InStep, Wires, HistoryTypes
  <1>4. CaptureStep
    BY <1>3 DEF CaptureEdge, CaptureStep
  <1>5. reg_state # "IDLE"
    BY DEF fvalid, sensor!frame_valid
  <1>6. config' = config
    BY <1>5, Configures DEF CaptureEdge, Capturing, Framed
  <1>7. sensor!NEXT_STATE_LOGIC
    BY DEF CaptureEdge, SensorStep, sensor!ClockEdge
  <1> QED
    BY <1>1, <1>2, <1>4, <1>6, <1>7 DEF FrameStep

LEMMA InStepKept ==
  ASSUME Settings, Capturing, CaptureEdge, ~cut'
  PROVE  InStep'
  <1>1. CASE fvalid /\ wanted
    <2>1. InFrame /\ FrameStep
      BY <1>1, FrameCaptured
    <2>2. Follows'
      BY <2>1, FollowsStep
    <2>3. wanted' /\ start' = wanted' /\ enable_mux' = wanted'
      BY <1>1, NothingCut DEF Capturing, CaptureEdge
    <2> QED
      BY <2>2, <2>3 DEF InStep, Wires, Resting, Follows, AtRest
  <1> QED
    BY <1>1, RestBetween, RestUncaptured

-----------------------------------------------------------------------------
(* The words of a frame.                                                   *)

\* A word is counted beside the second green pixel of its block.
LEMMA WordsCount ==
  ASSUME Settings, Capturing, CaptureEdge, ~cut', fvalid, wanted
  PROVE  words' = IF lvalid /\ ~odd(height_counter) /\ ~odd(width_counter) THEN words + 1 ELSE words
  <1>1. words' = IF state_c = "READDATA" /\ start THEN words + 1 ELSE words
    <2>1. fvalid /\ CaptureRecord
      BY DEF CaptureEdge
    <2> QED
      BY <2>1 DEF CaptureRecord, FrameBegins, controller!wrfifo, controller!average_and_combine!wrfifo
  <1>2. InFrame /\ FrameStep /\ CaptureStep
    BY FrameCaptured DEF FrameStep
  <1>3. CASE lvalid
    <2>1. start /\ OnPixel
      BY <1>2, <1>3, OnPixelNow, NothingCut DEF Capturing, InStep, Wires, CaptureEdge
    <2>2. state_c = "READDATA" <=> ~odd(height_counter) /\ ~odd(width_counter)
      BY <2>1 DEF OnPixel, colour
    <2> QED
      BY <1>1, <1>3, <2>1, <2>2
  <1>4. CASE ~lvalid
    BY <1>1, <1>2, <1>4, OffPixelStep DEF OffPixel
  <1> QED
    BY <1>3, <1>4

\* Two rows and two columns: what a block, a row and two rows add up to.
LEMMA Blocks ==
  ASSUME NEW w \in Nat, NEW r \in Nat
  PROVE  /\ (1 - 1) * w = 0 /\ ((r + 1) - 1) * w = r * w
         /\ ((r + 1) - 2) * w = (r - 1) * w
         /\ w % 2 = 0 => (r - 2) * w + 4 * half(w) = r * w
  <1>1. (r - 2) * w = r * w - 2 * w
    OBVIOUS
  <1>2. w % 2 = 0 => 4 * half(w) = 2 * w
    BY DEF half
  <1>3. ((r + 1) - 1) * w = r * w /\ ((r + 1) - 2) * w = (r - 1) * w
    <2>1. (r + 1) - 1 = r /\ (r + 1) - 2 = r - 1
      OBVIOUS
    <2> QED
      BY <2>1
  <1> QED
    BY <1>1, <1>2, <1>3

LEMMA CountedKept ==
  ASSUME Settings, Capturing, CaptureEdge, ~cut'
  PROVE  Counted'
  <1> SUFFICES ASSUME whole'
               PROVE  Counted'
    BY DEF Counted
  <1> DEFINE r == height_counter
             c == width_counter
  <1>1. CASE ~fvalid
    <2>1. fvalid' /\ wanted /\ words' = 0
      BY <1>1 DEF CaptureEdge, CaptureRecord, FrameBegins
    <2>2. reg_state' = "FRAME_LINE_BLANK"
      BY <1>1, <2>1, SensorMoves DEF CaptureEdge, SensorStep, sensor!ClockEdge, Capturing, Framed, Ends, Begins, BlankGoesOn, LineBegins, LineGoesOn, LineEnds,
        FrameEnds, Blanks, fvalid, sensor!frame_valid
    <2>3. wanted'
      BY <2>1, NothingCut DEF Capturing, CaptureEdge
    <2> QED
      BY <2>1, <2>2, <2>3 DEF Counted
  <1>2. CASE fvalid
    <2>1. whole /\ wanted' /\ ~cut
      BY <1>2, NothingCut DEF CaptureEdge, CaptureRecord, FrameBegins, Capturing
    <2>2. Counted /\ wanted
      BY <2>1 DEF Capturing, Counted
    <2>3. words' = IF lvalid /\ ~odd(r) /\ ~odd(c) THEN words + 1 ELSE words
      BY <1>2, <2>2, WordsCount
    <2>4. /\ Width \in Nat /\ Width % 2 = 0 /\ Height \in Nat /\ Height % 2 = 0
          /\ r \in Nat /\ c \in Nat /\ Width' = Width /\ Height' = Height /\ words \in Nat
          /\ BlankGoesOn \/ LineBegins \/ LineGoesOn \/ LineEnds \/ FrameEnds
      BY <1>2, <2>2, FrameCaptured, WithinFrame DEF Capturing, HistoryTypes
    <2>5. reg_state \in {"VALID", "LINE_FRAME_BLANK", "FRAME_LINE_BLANK", "LINE_LINE_BLANK"}
      BY <1>2 DEF fvalid, sensor!frame_valid, Capturing, Framed, SensorTypes, Blanks
    <2>6. CASE BlankGoesOn
      <3>1. reg_state' = reg_state /\ r' = r /\ words' = words /\ reg_state # "VALID"
        BY <2>3, <2>6 DEF BlankGoesOn, Blanks, lvalid, sensor!line_valid
      <3> QED
        BY <2>1, <2>2, <2>4, <2>5, <3>1 DEF Counted
    <2>7. CASE FrameEnds
      <3>1. reg_state' = "FRAME_FRAME_BLANK" /\ reg_state = "LINE_FRAME_BLANK" /\ words' = words
        BY <2>3, <2>7 DEF FrameEnds, lvalid, sensor!line_valid
      <3> QED
        BY <2>1, <2>2, <2>4, <3>1 DEF Counted
    <2>8. CASE LineBegins
      <3>1. reg_state' = "VALID" /\ c' = 1 /\ words' = words
        BY <2>3, <2>8 DEF LineBegins, lvalid, sensor!line_valid
      <3>2. SUFFICES 4 * words = IF odd(r') THEN (r' - 1) * Width
                                 ELSE (r' - 2) * Width + 4 * half(1 - 1)
        BY <2>1, <2>4, <3>1 DEF Counted
      <3>3. half(1 - 1) = 0
        BY Ones
      <3>4. CASE reg_state = "FRAME_LINE_BLANK"
        <4>1. r' = 1 /\ words = 0
          BY <2>1, <2>2, <2>8, <3>4 DEF LineBegins, Counted
        <4> QED
          BY <2>4, <4>1, Ones, Blocks
      <3>5. CASE reg_state = "LINE_LINE_BLANK"
        <4>1. r' = r + 1 /\ 4 * words = IF odd(r) THEN (r - 1) * Width ELSE r * Width
          BY <2>1, <2>2, <2>8, <3>5 DEF LineBegins, Counted
        <4>2. odd(r') <=> ~odd(r)
          BY <2>4, <4>1, Halves
        <4>3. (r' - 1) * Width = r * Width /\ (r' - 2) * Width = (r - 1) * Width
          BY <2>4, <4>1, Blocks
        <4>4. (r - 1) * Width \in Int
          BY <2>4
        <4> QED
          BY <3>3, <4>1, <4>2, <4>3, <4>4
      <3> QED
        BY <2>8, <3>4, <3>5 DEF LineBegins
    <2>9. CASE LineGoesOn \/ LineEnds
      <3>1. lvalid /\ reg_state = "VALID" /\ c \in 1 .. Width /\ r' = r
        BY <2>9 DEF LineGoesOn, LineEnds, lvalid, sensor!line_valid, Capturing, Framed, Scanning
      <3>2. 4 * words = IF odd(r) THEN (r - 1) * Width ELSE (r - 2) * Width + 4 * half(c - 1)
        BY <2>1, <2>2, <3>1 DEF Counted
      <3>3. 4 * words' = IF odd(r) THEN (r - 1) * Width ELSE (r - 2) * Width + 4 * half(c)
        <4>1. CASE odd(r)
          BY <2>3, <3>2, <4>1
        <4>2. CASE ~odd(r)
          <5>1. half(c - 1) = IF odd(c) THEN half(c) ELSE half(c) - 1
            BY <2>4, <3>1, Columns
          <5>2. (r - 2) * Width \in Int /\ half(c) \in Int
            BY <2>4, Halves
          <5> QED
            BY <2>3, <2>4, <3>1, <3>2, <4>2, <5>1, <5>2
        <4> QED
          BY <4>1, <4>2
      <3>4. CASE LineGoesOn
        <4>1. reg_state' = "VALID" /\ c' = c + 1 /\ c' - 1 = c
          BY <2>4, <3>4 DEF LineGoesOn
        <4> QED
          BY <2>1, <2>4, <3>1, <3>3, <4>1 DEF Counted
      <3>5. CASE LineEnds
        <4>1. c = Width /\ (r - 2) * Width + 4 * half(Width) = r * Width
          BY <2>4, <3>5, Blocks DEF LineEnds
        <4>2. 4 * words' = IF odd(r) THEN (r - 1) * Width ELSE r * Width
          BY <3>3, <4>1
        <4>3. reg_state' # "LINE_LINE_BLANK" => r = Height /\ ~odd(r)
          BY <2>4, <3>5 DEF LineEnds, odd
        <4> QED
          BY <2>1, <2>4, <3>1, <3>5, <4>2, <4>3 DEF LineEnds, Counted
      <3> QED
        BY <2>9, <3>4, <3>5
    <2> QED
      BY <2>4, <2>6, <2>7, <2>8, <2>9
  <1> QED
    BY <1>1, <1>2

-----------------------------------------------------------------------------
(* The invariant, and what it is for.                                      *)

LEMMA Starts ==
  ASSUME CaptureInit
  PROVE  Capturing
  <1> USE DEF CaptureInit, sensor!Init, controller!Init, controller!camera_mux!Init,
    controller!average_and_combine!Init
  <1>1. SensorTypes
    BY ConfigRangeAssumption DEF SensorTypes, Blanks, sensor!MinimumConfig
  <1>2. ControllerTypes
    BY DEF ControllerTypes, Colours, Pixels
  <1>3. HistoryTypes /\ Scanning /\ frame \in Nat
    BY DEF HistoryTypes, Scanning
  <1>4. InStep /\ Counted
    BY DEF InStep, Counted, Wires, Resting, fvalid, sensor!frame_valid
  <1> QED
    BY <1>1, <1>2, <1>3, <1>4 DEF Capturing, Framed

LEMMA ResetKept ==
  ASSUME Capturing, CaptureReset
  PROVE  Capturing'
  <1> USE DEF Capturing, Framed, CaptureReset, controller!Reset, controller!camera_mux!Reset,
    controller!average_and_combine!Reset
  <1>1. UNCHANGED <<reg_state, config, reg_start, reg_stop, width_counter, height_counter,
                    blank_counter, frame, words>>
    BY DEF sensorVars
  <1>2. SensorTypes' /\ Scanning'
    BY <1>1 DEF SensorTypes, Scanning, Fits, Width, Height
  <1>3. ControllerTypes'
    BY DEF ControllerTypes, Colours, Pixels
  <1>4. HistoryTypes'
    BY <1>1 DEF HistoryTypes
  <1>5. InStep' /\ Counted'
    BY DEF InStep, Counted, Wires, Resting
  <1> QED
    BY <1>2, <1>3, <1>4, <1>5

LEMMA PclkKept ==
  ASSUME Settings, Capturing, PclkStep
  PROVE  Capturing'
  <1>1. CaptureEdge
    BY DEF PclkStep, CaptureEdge, SensorStep
  <1> USE <1>1 DEF CaptureEdge, Capturing, Framed
  <1>2. SensorTypes' /\ Scanning'
    <2>1. reg_start' => Fits'
      BY Configures, Configured
    <2>2. sensor!NEXT_STATE_LOGIC
      BY DEF SensorStep, sensor!ClockEdge
    <2> QED
      BY <2>1, <2>2, Configures, SensorStays
  <1>4. ControllerStep
    BY DEF ControllerStep, HistoryTypes
  <1>5. frame' \in Nat /\ HistoryTypes' /\ ControllerTypes'
    BY <1>4, FramesCount, HistoryTyped, ControllerTyped DEF CaptureRecord
  <1>3. ~cut' => InStep' /\ Counted'
    BY <1>1, InStepKept, CountedKept
  <1> QED
    BY <1>2, <1>3, <1>5

\* Sensor and controller stay in step, on the settings the rules allow.
THEOREM CapturingInvariant ==
  ASSUME Settings
  PROVE  CaptureSpec => []Capturing
  <1>1. CaptureInit => Capturing
    BY Starts
  <1>2. Capturing /\ [CaptureNext]_captureVars => Capturing'
    <2>1. ASSUME Capturing, UNCHANGED captureVars
          PROVE  Capturing'
      <3>1. UNCHANGED sensorVars /\ UNCHANGED controllerVars
            /\ UNCHANGED <<wanted, start, enable_mux, frame, words, whole, cut>>
        BY <2>1 DEF captureVars
      <3> USE <2>1, <3>1 DEF sensorVars, controllerVars
      <3>2. SensorTypes' /\ ControllerTypes' /\ HistoryTypes' /\ frame' \in Nat
        BY DEF Capturing, Framed, SensorTypes, ControllerTypes, HistoryTypes
      <3>3. Width' = Width /\ Height' = Height
        BY DEF Width, Height
      <3>4. Scanning' /\ (Counted' = Counted) /\ (fvalid' = fvalid) /\ (lvalid' = lvalid)
        BY <3>3 DEF Capturing, Framed, Scanning, Fits, Counted, fvalid, lvalid, sensor!frame_valid,
          sensor!line_valid
      <3>5. \A row, first, n : /\ Greens(row, first, n)' = Greens(row, first, n)
                               /\ Reds(row, first, n)' = Reds(row, first, n)
        BY DEF Greens, Reds, Pixel
      <3>6. (Wires' = Wires) /\ (Resting' = Resting) /\ (OffPixel' = OffPixel) /\ (OnPixel' = OnPixel)
        BY <3>3, <3>4, <3>5 DEF Wires, Resting, OffPixel, OnPixel, Pixel
      <3> QED
        BY <3>2, <3>4, <3>6 DEF Capturing, Framed, InStep
    <2> QED
      BY <2>1, PclkKept, ResetKept DEF CaptureNext
  <1> QED
    BY <1>1, <1>2, PTL DEF CaptureSpec

\* Every word is made of the four pixels of one 2x2 block of one frame.
THEOREM WordsAreBlocks ==
  ASSUME Settings
  PROVE  CaptureSpec => []BlockCoherent
  <1>1. Capturing => BlockCoherent
    <2>1. SUFFICES ASSUME Capturing, ~cut, controller!wrfifo(start, FALSE)
                   PROVE  lvalid /\ controller!wrdata(lvalid, data) = BlockAt(frame, height_counter, width_counter)
      BY DEF BlockCoherent
    <2>2. state_c = "READDATA" /\ start
      BY <2>1 DEF controller!wrfifo, controller!average_and_combine!wrfifo
    <2>3. fvalid /\ wanted
      BY <2>1, <2>2 DEF Capturing, InStep, Resting
    <2>4. lvalid /\ OnPixel
      BY <2>1, <2>2, <2>3 DEF Capturing, InStep, OffPixel
    <2>5. colour(height_counter, width_counter) = "G2"
      BY <2>2, <2>4 DEF OnPixel
    <2>6. controller!camera_mux!enable_out(lvalid) = "G2"
      BY <2>1, <2>3, <2>4, <2>5, OnPixelNow DEF offered, Capturing, InFrame, InStep, Follows
    <2>7. controller!data_g2(lvalid, data) = Pixel(frame, height_counter, width_counter)
      BY <2>4, <2>6 DEF controller!data_g2, controller!latched, data
    <2> QED
      BY <2>4, <2>5, <2>7 DEF controller!wrdata, controller!average_and_combine!wrdata, BlockAt, OnPixel
  <1> QED
    BY <1>1, CapturingInvariant, PTL

\* Nothing is left over between frames.
THEOREM NothingLeftOver ==
  ASSUME Settings
  PROVE  CaptureSpec => []AlignedBetweenFrames
  <1>1. Capturing => AlignedBetweenFrames
    BY DEF Capturing, InStep, Resting, AlignedBetweenFrames, fvalid, sensor!frame_valid
  <1> QED
    BY <1>1, CapturingInvariant, PTL

\* A colour FIFO holds half a line, and is never asked to hold more.
THEOREM HalfALineSuffices ==
  ASSUME Settings
  PROVE  CaptureSpec => []ColourFifosSuffice
  <1>1. Capturing => ColourFifosSuffice
    <2>1. SUFFICES ASSUME Capturing, ~cut
                   PROVE  /\ offered = "G1" => Len(fifo_g1) < ColourDepth
                          /\ offered = "R" => Len(fifo_r) < ColourDepth
      BY DEF ColourFifosSuffice, offered
    <2>2. CASE lvalid /\ wanted
      <3>1. InFrame
        BY <2>1, <2>2 DEF Capturing, InFrame, InStep, Follows, lvalid, fvalid, sensor!line_valid,
          sensor!frame_valid
      <3> QED
        BY <2>2, <3>1, OnPixelNow, RoomLeft DEF colour
    <2>3. CASE ~(lvalid /\ wanted)
      <3>1. offered = "none"
        <4>1. lvalid => fvalid
          BY DEF lvalid, fvalid, sensor!line_valid, sensor!frame_valid
        <4>2. lvalid => state_current = "IDLE"
          BY <2>1, <2>3, <4>1 DEF Capturing, InStep, Resting
        <4> QED
          BY <2>1, <4>2, Offered DEF Capturing, Framed
      <3> QED
        BY <3>1
    <2> QED
      BY <2>2, <2>3
  <1> QED
    BY <1>1, CapturingInvariant, PTL

\* A frame that is captured from its beginning gives one word for each block.
THEOREM OneWordEachBlock ==
  ASSUME Settings
  PROVE  CaptureSpec => []FrameComplete
  <1>1. Capturing => FrameComplete
    <2>1. SUFFICES ASSUME Capturing, ~cut, whole, reg_state = "FRAME_FRAME_BLANK"
                   PROVE  4 * words = Width * Height
      BY DEF FrameComplete
    <2>2. 4 * words = Height * Width
      BY <2>1 DEF Capturing, Counted
    <2>3. Width \in Nat /\ Height \in Nat
      BY <2>1 DEF Capturing, Framed, Scanning, Fits
    <2> QED
      BY <2>2, <2>3
  <1> QED
    BY <1>1, CapturingInvariant, PTL

-----------------------------------------------------------------------------
(* CameraTop: the inductive invariant, part by part.                       *)

\* A picture is asked for, and the DMA is at it.
Taking == start_reg # {}
Active == current_state # "IDLE"

HostTypes ==
  /\ pc \in {"len", "dest", "start", "sensor", "poll", "check", "halt", "clear"}
  /\ buffer \in Buffers /\ pictures \in Nat /\ done \subseteq Buffers
  /\ start_reg \in {{}, {0, 4}} /\ readdata \in {0, 1}
  /\ clear_task_flag \in BOOLEAN /\ task_finished_flag \in BOOLEAN

\* How far software is, by the registers it has written.
HostPlace ==
  /\ Taking => /\ ~task_finished_flag /\ pc \in {"sensor", "poll", "check"}
               /\ dma_len_reg = Words /\ dma_dest_address = buffer /\ buffer \notin done
  /\ pc = "sensor" => Taking
  /\ pc = "check" /\ readdata = 1 => ~Taking
  /\ pc = "len" /\ task_finished_flag => clear_task_flag
  /\ pc \in {"dest", "start"} => ~task_finished_flag /\ dma_len_reg = Words
  /\ pc = "start" => dma_dest_address = buffer

\* The sensor rests until it is started, with the setting, and is stopped
\* before the next picture is asked for.
SensorPlace ==
  /\ Framed /\ frame < FrameTags
  /\ reg_start => pc = "poll" /\ reg_state = "IDLE"
  /\ reg_stop => pc = "clear"
  /\ pc \in {"len", "dest", "start", "sensor"} => reg_state = "IDLE"
  /\ pc = "clear" => reg_stop \/ reg_state = "IDLE"
  /\ reg_start \/ reg_state # "IDLE" => config = Setting
  /\ reg_state \in Blanks => blank_counter \in 1 .. blank_length

\* The controller follows a frame that is taken, and is at rest otherwise.
ControllerPlace ==
  IF Taking THEN Follows /\ (reg_state = "IDLE" => state_current = "IDLE")
  ELSE AtRest /\ (reg_state \in {"VALID", "LINE_LINE_BLANK"} => state_current = "IDLE")

\* The write pointer on its way: where it is, its stages, and what the read
\* side knows.
line == [i \in 0 .. SyncStages + 1 |->
           IF i = 0 THEN seen ELSE IF i = SyncStages + 1 THEN wr ELSE sync[i]]

BlockWords == [g1 : Pixels, r : Pixels, b : Pixels, g2 : Pixels]

FifoPlace ==
  /\ wr \in Nat /\ rd \in Nat /\ seen \in Nat /\ sync \in Seq(Nat) /\ Len(sync) = SyncStages
  /\ rd <= seen /\ wr - rd <= Depth
  /\ \A i, j \in 0 .. SyncStages + 1 : i <= j => line[i] <= line[j]
  /\ stream \in Seq(BlockWords) /\ Len(stream) = wr

\* A whole number of bursts.
Whole(n) == \E x \in Nat : n = x * dma!BurstBeats

\* The words of the bursts that are over.
begun == cnt_pixel - CASE current_state = "BURST" -> cnt_burst
                       [] current_state = "TASKEND" -> dma!BurstBeats
                       [] OTHER -> 0

DmaPlace ==
  /\ current_state \in dma!state_type /\ cnt_burst \in Nat /\ cnt_pixel \in Nat
  /\ stall \in 0 .. MaxStall /\ (current_state # "BURST" => stall = 0)
  /\ Active => /\ Taking /\ reg_pixelnum = Words
               /\ begun \in Nat /\ Whole(begun) /\ begun < Words
  /\ ~Active => wr = rd /\ (Taking => pc = "sensor")
  /\ current_state = "BURST" => /\ cnt_burst <= BurstLength
                                /\ cnt_burst = BurstLength => stall = 0

\* The words the sensor has given so far in this frame.
position ==
  CASE reg_state \in {"IDLE", "FRAME_LINE_BLANK"} -> 0
    [] reg_state = "VALID" ->
         IF odd(height_counter) THEN half(height_counter) * BlocksPerRow
         ELSE (half(height_counter) - 1) * BlocksPerRow + half(width_counter - 1)
    [] reg_state = "LINE_LINE_BLANK" -> half(height_counter) * BlocksPerRow
    [] OTHER -> Words

\* All of them are in the FIFO or sent.
Tallied == Active => wr - rd + cnt_pixel = position /\ cnt_pixel <= rd

\* A row of blocks is under way, a word of it is given now, or was just before.
InRow == reg_state = "VALID" /\ ~odd(height_counter) /\ width_counter > 2
Storing == reg_state = "VALID" /\ ~odd(height_counter) /\ ~odd(width_counter)
JustStored == InRow /\ odd(width_counter)

\* The words of the rows before.
base == IF InRow THEN (half(height_counter) - 1) * BlocksPerRow ELSE position

\* Cycles until the first word of the next row comes, or the next frame.
Left ==
  LET llb == Setting["line_line_blank"]
      ffb == Setting["frame_frame_blank"]
  IN CASE reg_state \in {"IDLE", "FRAME_LINE_BLANK"} -> 0
       [] reg_state = "LINE_LINE_BLANK" ->
            llb - blank_counter + 3 + IF odd(height_counter) THEN 0 ELSE Setting["frame_width"] + llb
       [] reg_state = "VALID" ->
            IF odd(height_counter) THEN Setting["frame_width"] - width_counter + 3 + llb
            ELSE 3 - width_counter
       [] reg_state = "LINE_FRAME_BLANK" -> Setting["line_frame_blank"] - blank_counter + 1 + ffb
       [] OTHER -> ffb - blank_counter + 1

\* What the DMA needs at most for q bursts, the one under way included, once
\* their words are seen; and a bound on the cycles until all words are.
Rest ==
  IF current_state = "BURST" THEN (BurstLength - cnt_burst) * (MaxStall + 1) + 2 - stall
  ELSE 1
Work(q) ==
  IF current_state = "WAITBURST" THEN q * BurstCost ELSE (q - 1) * BurstCost + Rest
SeenIn(d) == \A i \in d .. SyncStages + 1 : line[i] = wr

\* The rows before are sent by the time the next one comes.
Paced ==
  Active => IF InRow THEN begun >= base
            ELSE \E q \in Nat : \E d \in 0 .. SyncStages + 1 :
                   base = begun + q * dma!BurstBeats /\ SeenIn(d) /\ Work(q) + d <= Left

\* Where in the frame a stage of the write pointer is.
place_of(i) == line[i] - rd + cnt_pixel

\* The last word of a burst is never two cycles behind the one before it.
Spaced ==
  Active =>
    /\ \A i \in 0 .. SyncStages - 1 : Whole(place_of(i) + 1) => line[i] < line[i + 2]
    /\ JustStored => line[SyncStages] < wr

\* The words of a burst that has begun are there when their turn comes.
Supplied ==
  current_state = "BURST" =>
    \/ place_of(0) >= begun + dma!BurstBeats
    \/ /\ cnt_burst = 0 /\ place_of(0) >= begun + BurstLength
       /\ place_of(1) >= begun + dma!BurstBeats

\* Every word is the one of its place, in the FIFO and in memory, and the bus
\* expects as many beats of the burst as the DMA will send.
Gathered ==
  Active => \A i \in 0 .. position - 1 : stream[wr - position + i + 1] = Block(frame, i)
Placed ==
  /\ Active => \A i \in 0 .. cnt_pixel - 1 :
                 buffer + 4 * i \in DOMAIN mem /\ mem[buffer + 4 * i] = Block(frame, i)
  /\ Active => base_addr = buffer + 4 * begun
  /\ IF current_state = "BURST" /\ cnt_burst > 0
       THEN bus_left = dma!BurstBeats - cnt_burst /\ bus_addr = buffer + 4 * cnt_pixel
       ELSE bus_left = 0

TopInv ==
  /\ HostTypes /\ HostPlace /\ SensorPlace /\ ControllerPlace /\ FifoPlace /\ DmaPlace
  /\ Tallied /\ Paced /\ Spaced /\ Supplied /\ Gathered /\ Placed /\ PictureWhole

-----------------------------------------------------------------------------
(* Whole bursts, rows and pictures.                                        *)

LEMMA Beats ==
  /\ BurstLength \in Nat \ {0} /\ dma!BurstBeats = BurstLength + 1
  /\ dma!BurstBeats \in Nat /\ dma!BurstBeats > 1
  BY BurstLengthAssumption DEF dma!BurstBeats

LEMMA Products ==
  ASSUME NEW a \in Int, NEW b \in Int, NEW c \in Int
  PROVE  /\ a * b \in Int /\ a * (b * c) = (a * b) * c
         /\ (a + 1) * c = a * c + c /\ (a - 1) * c = a * c - c /\ (a - b) * c = a * c - b * c
         /\ (a + b) * c = a * c + b * c
         /\ 0 * c = 0 /\ 1 * c = c
  OBVIOUS

LEMMA RowAndColumn ==
  ASSUME NEW n \in Nat \ {0}, NEW h \in Nat, NEW j \in 0 .. n - 1
  PROVE  (h * n + j) \div n = h /\ (h * n + j) % n = j
  OBVIOUS

LEMMA Grows ==
  ASSUME NEW a \in Nat, NEW b \in Nat, NEW c \in Nat, a <= b
  PROVE  a * c \in Nat /\ a * c <= b * c
  <1>1. PICK e \in Nat : b = a + e
    <2>1. b - a \in Nat /\ b = a + (b - a)
      OBVIOUS
    <2> QED
      BY <2>1
  <1>2. b * c = a * c + e * c
    BY <1>1, Products
  <1>3. e * c \in Nat /\ a * c \in Nat
    OBVIOUS
  <1> QED
    BY <1>2, <1>3

\* Whole numbers of bursts that differ do so by one burst at least.
LEMMA WholeGap ==
  ASSUME NEW a \in Nat, NEW b \in Nat, Whole(a), Whole(b), a <= b
  PROVE  /\ \E q \in Nat : b = a + q * dma!BurstBeats
         /\ a < b => a + dma!BurstBeats <= b
  <1> DEFINE n == dma!BurstBeats
  <1>1. n \in Nat /\ n > 1
    BY Beats
  <1>2. PICK x \in Nat : a = x * n
    BY DEF Whole
  <1>3. PICK y \in Nat : b = y * n
    BY DEF Whole
  <1> HIDE DEF n
  <1>4. x <= y
    <2>1. SUFFICES ASSUME y + 1 <= x
                   PROVE  FALSE
      OBVIOUS
    <2>2. (y + 1) * n <= x * n
      BY <1>1, <2>1, Grows
    <2>3. (y + 1) * n = b + n
      BY <1>1, <1>3, Products
    <2> QED
      BY <1>1, <1>2, <2>2, <2>3
  <1>5. (y - x) * n = b - a /\ y - x \in Nat
    BY <1>1, <1>2, <1>3, <1>4, Products
  <1>6. a < b => a + n <= b
    <2>1. SUFFICES ASSUME a < b
                   PROVE  a + n <= b
      OBVIOUS
    <2>2. x + 1 <= y
      BY <1>2, <1>3, <1>4, <2>1
    <2>3. (x + 1) * n <= y * n
      BY <1>1, <2>2, Grows
    <2>4. (x + 1) * n = a + n
      BY <1>1, <1>2, Products
    <2> QED
      BY <1>3, <2>3, <2>4
  <1>7. y - x \in Nat /\ b = a + (y - x) * n
    BY <1>5
  <1> QED
    BY <1>6, <1>7 DEF n

LEMMA WholeSums ==
  ASSUME NEW a \in Nat, NEW h \in Nat, Whole(a)
  PROVE  Whole(0) /\ Whole(h * a) /\ Whole(a + dma!BurstBeats) /\ ~Whole(a + 1)
  <1>0. dma!BurstBeats \in Nat /\ dma!BurstBeats > 1
    BY Beats
  <1>1. PICK x \in Nat : a = x * dma!BurstBeats
    BY DEF Whole
  <1>2. 0 = 0 * dma!BurstBeats /\ h * a = (h * x) * dma!BurstBeats
        /\ a + dma!BurstBeats = (x + 1) * dma!BurstBeats
    BY <1>0, <1>1, Products
  <1>3. h * x \in Nat /\ x + 1 \in Nat
    OBVIOUS
  <1>4. Whole(0) /\ Whole(h * a) /\ Whole(a + dma!BurstBeats)
    BY <1>2, <1>3 DEF Whole
  <1>5. ~Whole(a + 1)
    <2>1. SUFFICES ASSUME Whole(a + 1)
                   PROVE  FALSE
      OBVIOUS
    <2>2. a + dma!BurstBeats <= a + 1
      BY <2>1, WholeGap
    <2> QED
      BY <1>0, <2>2
  <1> QED
    BY <1>4, <1>5

LEMMA WholeAdds ==
  ASSUME NEW a \in Nat, NEW b \in Nat, Whole(a), Whole(b)
  PROVE  Whole(a + b)
  <1>1. PICK x \in Nat : a = x * dma!BurstBeats
    BY DEF Whole
  <1>2. PICK y \in Nat : b = y * dma!BurstBeats
    BY DEF Whole
  <1>3. a + b = (x + y) * dma!BurstBeats /\ x + y \in Nat
    BY <1>1, <1>2, Beats, Products
  <1> QED
    BY <1>3 DEF Whole

\* What the rules say, in words of these.
Rules == SettingAllowed /\ InPace /\ BuffersApart
Rows == half(Setting["frame_height"])

LEMMA Sizes ==
  ASSUME Rules
  PROVE  /\ Setting \in [sensor!registers -> Nat]
         /\ \A s \in sensor!registers : Setting[s] < ConfigRange
         /\ Setting["frame_width"] = 2 * BlocksPerRow /\ Setting["frame_width"] % 2 = 0
         /\ Setting["frame_height"] = 2 * Rows /\ Setting["frame_height"] % 2 = 0
         /\ BlocksPerRow \in Nat /\ Rows \in Nat \ {0} /\ BlocksPerRow <= ColourDepth
         /\ Setting["frame_frame_blank"] > 0 /\ Setting["frame_line_blank"] > 0
         /\ Setting["line_line_blank"] > 0
         /\ dma!BurstBeats <= BlocksPerRow /\ BlocksPerRow <= Depth /\ Whole(BlocksPerRow)
         /\ Words = Rows * BlocksPerRow /\ Words \in Nat \ {0} /\ Whole(Words)
  <1>1. /\ Setting \in [sensor!registers -> Nat]
        /\ \A s \in sensor!registers : Setting[s] < ConfigRange
    BY ConfigRangeAssumption DEF Rules, SettingAllowed
  <1>2. /\ Setting["frame_width"] \in Nat /\ Setting["frame_height"] \in Nat
        /\ Setting["frame_width"] % 2 = 0 /\ Setting["frame_height"] % 2 = 0
        /\ Setting["frame_width"] > 0 /\ Setting["frame_height"] > 0
    BY <1>1 DEF Rules, SettingAllowed, sensor!registers
  <1>3. /\ Setting["frame_width"] = 2 * BlocksPerRow /\ Setting["frame_height"] = 2 * Rows
        /\ BlocksPerRow \in Nat /\ Rows \in Nat \ {0}
    BY <1>2 DEF BlocksPerRow, Rows, half
  <1>4. PICK bursts \in 1 .. BlocksPerRow : BlocksPerRow = bursts * dma!BurstBeats
    BY DEF Rules, InPace
  <1>5. bursts \in Nat /\ 1 <= bursts /\ dma!BurstBeats \in Nat /\ dma!BurstBeats > 1
    BY <1>3, <1>4, Beats
  <1>6. Whole(BlocksPerRow) /\ dma!BurstBeats <= BlocksPerRow
    <2>1. 1 * dma!BurstBeats <= bursts * dma!BurstBeats
      BY <1>5, Grows
    <2> QED
      BY <1>4, <1>5, <2>1 DEF Whole
  <1>7. Words = Rows * BlocksPerRow
    BY <1>3, Products DEF Words, Rows, half
  <1>8. Words \in Nat \ {0} /\ Whole(Words)
    <2>1. 1 * BlocksPerRow <= Rows * BlocksPerRow
      BY <1>3, Grows
    <2> QED
      BY <1>3, <1>5, <1>6, <1>7, <2>1, WholeSums
  <1> QED
    BY <1>1, <1>2, <1>3, <1>6, <1>7, <1>8 DEF Rules, SettingAllowed, InPace

-----------------------------------------------------------------------------
(* Where the sensor is in the picture.                                     *)

LEMMA InSetting ==
  ASSUME Rules, SensorPlace, reg_start \/ reg_state # "IDLE"
  PROVE  /\ config = Setting /\ Fits
         /\ Width = Setting["frame_width"] /\ Height = Setting["frame_height"]
  BY DEF SensorPlace, Framed, Scanning, Width, Height

LEMMA InLine ==
  ASSUME Rules, SensorPlace, reg_state = "VALID"
  PROVE  /\ height_counter \in 1 .. 2 * Rows /\ width_counter \in 1 .. 2 * BlocksPerRow
         /\ half(height_counter) \in Nat /\ half(width_counter - 1) \in 0 .. BlocksPerRow - 1
         /\ odd(height_counter) => /\ height_counter = 2 * half(height_counter) + 1
                                   /\ half(height_counter) <= Rows - 1
         /\ ~odd(height_counter) => /\ height_counter = 2 * half(height_counter)
                                    /\ half(height_counter) \in 1 .. Rows
         /\ odd(width_counter) => width_counter = 2 * half(width_counter - 1) + 1
         /\ ~odd(width_counter) => width_counter = 2 * half(width_counter - 1) + 2
  <1>1. height_counter \in 1 .. 2 * Rows /\ width_counter \in 1 .. 2 * BlocksPerRow
    BY InSetting, Sizes DEF SensorPlace, Framed, Scanning
  <1>2. BlocksPerRow \in Nat /\ Rows \in Nat
    BY Sizes
  <1> QED
    BY <1>1, <1>2 DEF half, odd

\* A row further is at most at the end of the picture.
LEMMA RowFits ==
  ASSUME Rules, NEW h \in Nat, h < Rows
  PROVE  /\ h * BlocksPerRow \in Nat /\ h * BlocksPerRow + BlocksPerRow <= Words
         /\ Whole(h * BlocksPerRow) /\ Whole(h * BlocksPerRow + BlocksPerRow)
         /\ (h + 1) * BlocksPerRow = h * BlocksPerRow + BlocksPerRow
  <1>1. BlocksPerRow \in Nat /\ Rows \in Nat /\ Words = Rows * BlocksPerRow /\ Whole(BlocksPerRow)
    BY Sizes
  <1>2. (h + 1) * BlocksPerRow <= Rows * BlocksPerRow /\ h * BlocksPerRow \in Nat
    BY <1>1, Grows
  <1>3. (h + 1) * BlocksPerRow = h * BlocksPerRow + BlocksPerRow
    BY <1>1, Products
  <1>4. Whole(h * BlocksPerRow) /\ Whole((h + 1) * BlocksPerRow)
    <2>1. h + 1 \in Nat
      OBVIOUS
    <2> QED
      BY <1>1, <2>1, WholeSums
  <1> QED
    BY <1>1, <1>2, <1>3, <1>4

\* Row and block of a place in a row of blocks.
LEMMA InRowOf ==
  ASSUME Rules, SensorPlace, reg_state = "VALID", ~odd(height_counter)
  PROVE  LET h == half(height_counter) - 1
             j == half(width_counter - 1)
         IN /\ h \in Nat /\ h < Rows /\ j \in 0 .. BlocksPerRow - 1
            /\ position = h * BlocksPerRow + j
            /\ width_counter > 2 => j >= 1 /\ base = h * BlocksPerRow
            /\ ~(width_counter > 2) => j = 0 /\ base = position
  <1>1. half(height_counter) - 1 \in Nat /\ half(height_counter) - 1 < Rows
        /\ half(width_counter - 1) \in 0 .. BlocksPerRow - 1
    BY InLine, Sizes
  <1>2. position = (half(height_counter) - 1) * BlocksPerRow + half(width_counter - 1)
    BY DEF position
  <1>3. width_counter > 2 => half(width_counter - 1) >= 1
    BY InLine, Sizes
  <1>4. ~(width_counter > 2) => half(width_counter - 1) = 0
    BY InLine, Sizes
  <1>5. /\ width_counter > 2 => base = (half(height_counter) - 1) * BlocksPerRow
        /\ ~(width_counter > 2) => base = position
    BY DEF base, InRow
  <1> QED
    BY <1>1, <1>2, <1>3, <1>4, <1>5

LEMMA Positions ==
  ASSUME Rules, SensorPlace
  PROVE  /\ position \in 0 .. Words /\ base \in 0 .. position
         /\ position = Words => reg_state \in {"LINE_FRAME_BLANK", "FRAME_FRAME_BLANK"}
         /\ Whole(base)
         /\ ~InRow => base = position
  <1>0. BlocksPerRow \in Nat \ {0} /\ Rows \in Nat \ {0} /\ Words \in Nat \ {0} /\ Whole(Words)
    BY Sizes, Beats
  <1>1. Whole(0)
    BY <1>0, WholeSums
  <1>2. CASE reg_state \in {"IDLE", "FRAME_LINE_BLANK"}
    BY <1>0, <1>1, <1>2 DEF position, base, InRow
  <1>3. CASE reg_state \in {"LINE_FRAME_BLANK", "FRAME_FRAME_BLANK"}
    BY <1>0, <1>3 DEF position, base, InRow
  <1>4. CASE reg_state = "LINE_LINE_BLANK"
    <2>1. height_counter \in 1 .. 2 * Rows - 1
      BY <1>4, InSetting, Sizes DEF SensorPlace, Framed, Scanning
    <2>2. half(height_counter) \in Nat /\ half(height_counter) < Rows
      BY <1>0, <2>1 DEF half
    <2>3. position = half(height_counter) * BlocksPerRow /\ base = position /\ ~InRow
      BY <1>4 DEF position, base, InRow
    <2>4. /\ half(height_counter) * BlocksPerRow \in Nat
          /\ half(height_counter) * BlocksPerRow + BlocksPerRow <= Words
          /\ Whole(half(height_counter) * BlocksPerRow)
      BY <2>2, RowFits
    <2> QED
      BY <1>0, <2>3, <2>4
  <1>5. CASE reg_state = "VALID" /\ odd(height_counter)
    <2>2. half(height_counter) \in Nat /\ half(height_counter) < Rows
      BY <1>0, <1>5, InLine
    <2>3. position = half(height_counter) * BlocksPerRow /\ base = position /\ ~InRow
      BY <1>5 DEF position, base, InRow
    <2>4. /\ half(height_counter) * BlocksPerRow \in Nat
          /\ half(height_counter) * BlocksPerRow + BlocksPerRow <= Words
          /\ Whole(half(height_counter) * BlocksPerRow)
      BY <2>2, RowFits
    <2> QED
      BY <1>0, <2>3, <2>4
  <1>6. CASE reg_state = "VALID" /\ ~odd(height_counter)
    <2> DEFINE h == half(height_counter) - 1
               j == half(width_counter - 1)
    <2>1. /\ h \in Nat /\ h < Rows /\ j \in 0 .. BlocksPerRow - 1
          /\ position = h * BlocksPerRow + j
          /\ width_counter > 2 => base = h * BlocksPerRow
          /\ ~(width_counter > 2) => j = 0 /\ base = position
      BY <1>6, InRowOf
    <2>2. InRow <=> width_counter > 2
      BY <1>6 DEF InRow
    <2> HIDE DEF h, j
    <2>3. /\ h * BlocksPerRow \in Nat /\ h * BlocksPerRow + BlocksPerRow <= Words
          /\ Whole(h * BlocksPerRow)
      BY <2>1, RowFits
    <2>4. position \in 0 .. Words /\ position < Words
      BY <1>0, <2>1, <2>3
    <2>5. base = h * BlocksPerRow
      BY <1>0, <2>1, <2>3
    <2> QED
      BY <1>0, <2>1, <2>2, <2>3, <2>4, <2>5
  <1> QED
    BY <1>2, <1>3, <1>4, <1>5, <1>6 DEF SensorPlace, Framed, SensorTypes, Blanks

\* The stages of the write pointer.
LEMMA LineUp ==
  ASSUME FifoPlace
  PROVE  /\ SyncStages \in Nat \ {0} /\ line[0] = seen /\ line[SyncStages + 1] = wr
         /\ \A i \in 1 .. SyncStages : line[i] = sync[i]
         /\ \A i \in 0 .. SyncStages + 1 : line[i] \in Nat /\ seen <= line[i] /\ line[i] <= wr
         /\ seen <= wr
  <1>1. SyncStages \in Nat \ {0}
    BY BoundsAssumption
  <1>2. line[0] = seen /\ line[SyncStages + 1] = wr /\ \A i \in 1 .. SyncStages : line[i] = sync[i]
    BY <1>1 DEF line
  <1>3. \A i \in 0 .. SyncStages + 1 : line[i] \in Nat
    <2>1. \A i \in 1 .. SyncStages : sync[i] \in Nat
      BY DEF FifoPlace
    <2> QED
      BY <1>1, <1>2, <2>1 DEF FifoPlace
  <1>4. \A i, j \in 0 .. SyncStages + 1 : i <= j => line[i] <= line[j]
    BY DEF FifoPlace
  <1> QED
    BY <1>1, <1>2, <1>3, <1>4

\* What the DMA has begun is there, and it does not begin more than there is.
LEMMA Behind ==
  ASSUME Rules, TopInv, Active
  PROVE  /\ begun \in Nat /\ Whole(begun) /\ begun < Words /\ begun + dma!BurstBeats <= Words
         /\ begun <= cnt_pixel /\ cnt_pixel <= position
         /\ current_state = "BURST" => cnt_pixel = begun + cnt_burst /\ cnt_burst <= BurstLength
         /\ current_state = "TASKEND" => cnt_pixel = begun + dma!BurstBeats
         /\ current_state = "WAITBURST" => cnt_pixel = begun
         /\ current_state \in {"BURST", "TASKEND"} => begun < position
  <1>1. begun \in Nat /\ Whole(begun) /\ begun < Words /\ cnt_pixel \in Nat /\ cnt_burst \in Nat
    BY DEF TopInv, DmaPlace
  <1>2. dma!BurstBeats \in Nat /\ dma!BurstBeats = BurstLength + 1 /\ BurstLength \in Nat \ {0}
    BY Beats
  <1>3. begun + dma!BurstBeats <= Words
    BY <1>1, Sizes, WholeGap
  <1>4. /\ current_state = "BURST" => cnt_pixel = begun + cnt_burst /\ cnt_burst <= BurstLength
        /\ current_state = "TASKEND" => cnt_pixel = begun + dma!BurstBeats
        /\ current_state = "WAITBURST" => cnt_pixel = begun
    BY <1>1, <1>2 DEF begun, TopInv, DmaPlace
  <1>5. current_state \in {"BURST", "TASKEND", "WAITBURST"}
    BY DEF TopInv, DmaPlace, Active, dma!state_type
  <1>6. wr - rd + cnt_pixel = position /\ wr \in Nat /\ rd \in Nat /\ seen \in Nat /\ rd <= seen
    BY DEF TopInv, Tallied, FifoPlace
  <1>7. seen <= wr
    BY LineUp DEF TopInv
  <1>8. current_state = "BURST" => begun < position
    <2>1. SUFFICES ASSUME current_state = "BURST"
                   PROVE  begun < position
      OBVIOUS
    <2>2. place_of(0) = seen - rd + cnt_pixel
      BY LineUp DEF TopInv, place_of
    <2>3. place_of(0) >= begun + dma!BurstBeats \/ place_of(0) >= begun + BurstLength
      BY <2>1 DEF TopInv, Supplied
    <2> QED
      BY <1>1, <1>2, <1>6, <1>7, <2>2, <2>3
  <1> QED
    BY <1>1, <1>2, <1>3, <1>4, <1>5, <1>6, <1>7, <1>8

-----------------------------------------------------------------------------
(* The DMA.                                                                *)

\* A task is over only when all words of the picture are there and sent.
LEMMA Finishing ==
  ASSUME Rules, TopInv
  PROVE  /\ dma!task_end_flag_out <=> current_state = "TASKEND" /\ cnt_pixel = Words
         /\ current_state \in {"BURST", "TASKEND"} => reg_pixelnum = Words
         /\ current_state = "BURST" => cnt_pixel # Words
         /\ dma!task_end_flag_out =>
              /\ Taking /\ position = Words /\ wr = rd
              /\ reg_state \in {"LINE_FRAME_BLANK", "FRAME_FRAME_BLANK"}
              /\ pc \in {"poll", "check"}
  <1>1. current_state \in {"BURST", "TASKEND"} => Active /\ Taking /\ reg_pixelnum = Words
    BY DEF TopInv, DmaPlace, Active
  <1>2. dma!BurstBeats \in Nat /\ dma!BurstBeats = BurstLength + 1 /\ BurstLength \in Nat \ {0}
        /\ Words \in Nat
    BY Beats, Sizes
  <1>3. current_state = "BURST" => cnt_pixel # Words
    BY <1>1, <1>2, Behind DEF TopInv, DmaPlace
  <1>4. dma!task_end_flag_out <=> current_state = "TASKEND" /\ cnt_pixel = Words
    BY <1>1, <1>3 DEF dma!task_end_flag_out, dma!TaskFinish
  <1>5. ASSUME current_state = "TASKEND", cnt_pixel = Words
        PROVE  /\ Taking /\ position = Words /\ wr = rd
               /\ reg_state \in {"LINE_FRAME_BLANK", "FRAME_FRAME_BLANK"}
               /\ pc \in {"poll", "check"}
    <2>1. Active /\ Taking
      BY <1>1, <1>5
    <2>2. cnt_pixel <= position /\ position \in 0 .. Words
      BY <2>1, Behind, Positions DEF TopInv
    <2>3. position = Words /\ wr = rd
      BY <1>2, <1>5, <2>1, <2>2 DEF TopInv, Tallied, FifoPlace
    <2>4. reg_state \in {"LINE_FRAME_BLANK", "FRAME_FRAME_BLANK"}
      BY <2>3, Positions DEF TopInv
    <2>5. pc \in {"poll", "check"}
      BY <2>1, <2>4 DEF TopInv, HostPlace, SensorPlace
    <2> QED
      BY <2>1, <2>3, <2>4, <2>5
  <1> QED
    BY <1>1, <1>3, <1>4, <1>5

\* What an edge does to the DMA, its side of the FIFO, and the cycles the bus
\* has refused.
DmaRests ==
  /\ ~Active /\ ~Taking /\ current_state' = "IDLE" /\ rd' = rd /\ stall' = 0
  /\ cnt_burst' = 0 /\ cnt_pixel' = 0
DmaStarts ==
  /\ ~Active /\ Taking /\ current_state' = "WAITBURST" /\ rd' = rd /\ stall' = 0
  /\ cnt_pixel' = 0 /\ cnt_burst' = 0 /\ reg_pixelnum' = Words /\ base_addr' = buffer
DmaWaits ==
  /\ current_state = "WAITBURST" /\ seen - rd < BurstLength
  /\ current_state' = "WAITBURST" /\ rd' = rd /\ stall' = 0
  /\ cnt_burst' = 0 /\ UNCHANGED <<cnt_pixel, reg_pixelnum, base_addr>>
DmaIssues ==
  /\ current_state = "WAITBURST" /\ seen - rd >= BurstLength
  /\ current_state' = "BURST" /\ rd' = rd /\ stall' = 0
  /\ cnt_burst' = 0 /\ UNCHANGED <<cnt_pixel, reg_pixelnum, base_addr>>
DmaSends ==
  /\ current_state = "BURST" /\ seen > rd
  /\ current_state' = (IF cnt_burst = BurstLength THEN "TASKEND" ELSE "BURST")
  /\ rd' = rd + 1 /\ stall' = 0
  /\ cnt_burst' = cnt_burst + 1 /\ cnt_pixel' = cnt_pixel + 1
  /\ UNCHANGED <<reg_pixelnum, base_addr>>
DmaStalls ==
  /\ current_state = "BURST" /\ cnt_burst # BurstLength /\ stall < MaxStall
  /\ current_state' = "BURST" /\ rd' = rd /\ stall' = stall + 1
  /\ UNCHANGED <<cnt_burst, cnt_pixel, reg_pixelnum, base_addr>>
DmaGoesOn ==
  /\ current_state = "TASKEND" /\ cnt_pixel # Words
  /\ current_state' = "WAITBURST" /\ rd' = rd /\ stall' = 0
  /\ base_addr' = dma!Wrap(base_addr + 4 * dma!BurstBeats)
  /\ UNCHANGED <<cnt_burst, cnt_pixel, reg_pixelnum>>
DmaFinishes ==
  /\ current_state = "TASKEND" /\ cnt_pixel = Words
  /\ current_state' = "IDLE" /\ rd' = rd /\ stall' = 0
  /\ UNCHANGED <<cnt_burst, cnt_pixel>>
DmaMove ==
  \/ DmaRests \/ DmaStarts \/ DmaWaits \/ DmaIssues \/ DmaSends \/ DmaStalls
  \/ DmaGoesOn \/ DmaFinishes

\* The first word of the FIFO is always there when the DMA takes it.
LEMMA NotDry ==
  ASSUME Rules, TopInv, current_state = "BURST"
  PROVE  seen > rd
  <1>1. Active
    BY DEF Active
  <1>2. place_of(0) = seen - rd + cnt_pixel /\ seen \in Nat /\ rd \in Nat
    BY LineUp DEF TopInv, place_of, FifoPlace
  <1>3. dma!BurstBeats \in Nat /\ dma!BurstBeats = BurstLength + 1 /\ BurstLength \in Nat \ {0}
    BY Beats
  <1>4. /\ begun \in Nat /\ cnt_burst \in Nat /\ cnt_pixel \in Nat
        /\ cnt_pixel = begun + cnt_burst /\ cnt_burst <= BurstLength
    BY <1>1, Behind DEF TopInv, DmaPlace
  <1>5. \/ place_of(0) >= begun + dma!BurstBeats
        \/ cnt_burst = 0 /\ place_of(0) >= begun + BurstLength
    BY DEF TopInv, Supplied
  <1> QED
    BY <1>2, <1>3, <1>4, <1>5

LEMMA StartWires ==
  ASSUME TopInv
  PROVE  (start_dma <=> Taking) /\ (start_camera <=> Taking)
  BY DEF TopInv, HostTypes, HostPlace, Taking, start_dma, start_camera, slave!start_dma_out,
    slave!start_camera_controller_out

LEMMA DmaMoves ==
  ASSUME Rules, TopInv, NEW w \in waitrequests,
         fifo!ReadEdge(DataAck(w)),
         dma!ClockEdge(start_dma, slave!dma_dest_out, slave!dma_len_out, fifo!rdusedw, w),
         stall' = IF current_state = "BURST" /\ w THEN stall + 1 ELSE 0
  PROVE  /\ DmaMove
         /\ DmaSends => AM_write(w) /\ ~w
         /\ ~DmaSends => ~(AM_write(w) /\ ~w)
  <1> USE DEF DmaMove
  <1>0. (start_dma <=> Taking) /\ w \in BOOLEAN
    BY StartWires DEF waitrequests
  <1>1. rd' = IF current_state = "BURST" /\ ~w /\ seen # rd THEN rd + 1 ELSE rd
    BY <1>0 DEF fifo!ReadEdge, DataAck, dma!DataAck_out, fifo!rdempty
  <1>2. BurstLength \in Nat /\ rd \in Nat /\ seen \in Nat
    BY Beats DEF TopInv, FifoPlace
  <1>3. CASE dma!Idle(start_dma, slave!dma_dest_out, slave!dma_len_out)
    <2>1. current_state = "IDLE" /\ ~Active
      BY <1>3 DEF dma!Idle, Active
    <2>2. Taking => dma_dest_address = buffer /\ dma_len_reg = Words
      BY DEF TopInv, HostPlace
    <2>3. DmaRests \/ DmaStarts
      BY <1>0, <1>1, <1>3, <2>1, <2>2 DEF dma!Idle, DmaRests, DmaStarts, slave!dma_dest_out,
        slave!dma_len_out
    <2>4. ~AM_write(w) /\ ~DmaSends
      BY <2>1 DEF AM_write, dma!AM_write_out, DmaSends
    <2> QED
      BY <2>3, <2>4
  <1>4. CASE dma!WaitBurst(start_dma, fifo!rdusedw)
    <2>1. current_state = "WAITBURST" /\ Taking
      BY <1>4 DEF dma!WaitBurst, Active, TopInv, DmaPlace
    <2>2. DmaWaits \/ DmaIssues
      BY <1>0, <1>1, <1>2, <1>4, <2>1 DEF dma!WaitBurst, dma!Enough, fifo!rdusedw, DmaWaits, DmaIssues
    <2>3. ~(AM_write(w) /\ ~w) /\ ~DmaSends
      BY <2>1 DEF AM_write, dma!AM_write_out, DmaSends, waitrequests, Issuing
    <2> QED
      BY <2>2, <2>3
  <1>5. CASE dma!Burst(w)
    <2>1. current_state = "BURST" /\ seen > rd
      BY <1>5, NotDry DEF dma!Burst
    <2>2. ~dma!TaskFinish
      BY <2>1, Finishing DEF dma!TaskFinish
    <2>3. cnt_burst = BurstLength => ~w
      BY <2>1 DEF waitrequests, LastCycle, dma!BurstFinish
    <2>4. w => stall < MaxStall
      BY <2>1 DEF waitrequests
    <2>5. CASE w
      <3>1. DmaStalls
        BY <1>1, <1>5, <2>1, <2>2, <2>3, <2>4, <2>5 DEF dma!Burst, dma!BurstFinish, DmaStalls
      <3>2. ~DmaSends
        BY <1>2, <3>1 DEF DmaStalls, DmaSends
      <3> QED
        BY <2>5, <3>1, <3>2
    <2>6. CASE ~w
      <3>1. DmaSends
        BY <1>1, <1>2, <1>5, <2>1, <2>2, <2>6 DEF dma!Burst, dma!BurstFinish, DmaSends
      <3>2. AM_write(w)
        BY <2>1, <2>6 DEF AM_write, dma!AM_write_out
      <3> QED
        BY <2>6, <3>1, <3>2
    <2> QED
      BY <1>0, <2>5, <2>6
  <1>6. CASE dma!TaskEnd
    <2>1. current_state = "TASKEND" /\ reg_pixelnum = Words
      BY <1>6, Finishing DEF dma!TaskEnd
    <2>2. DmaGoesOn \/ DmaFinishes
      BY <1>1, <1>6, <2>1 DEF dma!TaskEnd, dma!TaskFinish, DmaGoesOn, DmaFinishes
    <2>3. ~AM_write(w) /\ ~DmaSends
      BY <2>1 DEF AM_write, dma!AM_write_out, DmaSends
    <2> QED
      BY <2>2, <2>3
  <1> QED
    BY <1>3, <1>4, <1>5, <1>6 DEF dma!ClockEdge

-----------------------------------------------------------------------------
(* Software and the registers.                                             *)

\* What an access does to the registers.
LEMMA SlaveMoves ==
  ASSUME NEW access, NEW ack \in BOOLEAN, slave!ClockEdge(access, ack, 0)
  PROVE  /\ task_finished_flag' = (ack \/ (task_finished_flag /\ ~clear_task_flag))
         /\ access \in {slave!NoAccess, slave!Read(4)} =>
              /\ start_reg' = IF ack THEN {} ELSE start_reg
              /\ ~ack => dma_len_reg' = dma_len_reg /\ dma_dest_address' = dma_dest_address
              /\ clear_task_flag' = (~ack /\ clear_task_flag /\ task_finished_flag)
         /\ access = slave!Read(4) => readdata' = IF task_finished_flag THEN 1 ELSE 0
         /\ access = slave!NoAccess => readdata' = readdata
         /\ access = slave!Write(1, Words) =>
              /\ readdata' = readdata
              /\ start_reg' = start_reg /\ dma_len_reg' = Words
              /\ clear_task_flag' = (clear_task_flag /\ task_finished_flag)
         /\ access = slave!Write(2, buffer) =>
              /\ readdata' = readdata
              /\ start_reg' = start_reg /\ dma_len_reg' = dma_len_reg /\ dma_dest_address' = buffer
              /\ clear_task_flag' = (clear_task_flag /\ task_finished_flag)
         /\ access = slave!Write(0, {0, 4}) =>
              /\ readdata' = readdata
              /\ start_reg' = {0, 4} /\ dma_len_reg' = dma_len_reg
              /\ dma_dest_address' = dma_dest_address
              /\ clear_task_flag' = (clear_task_flag /\ task_finished_flag)
         /\ access = slave!Write(3, TRUE) =>
              readdata' = readdata /\ start_reg' = start_reg /\ clear_task_flag' = TRUE
  <1>1. /\ slave!avalon_write(access, ack) /\ slave!avalon_read(access, 0)
        /\ slave!task_flag_setting(ack)
    BY DEF slave!ClockEdge
  <1>2. task_finished_flag' = (ack \/ (task_finished_flag /\ ~clear_task_flag))
    BY <1>1, Zenon DEF slave!task_flag_setting
  <1>3. access \in {slave!NoAccess, slave!Read(4)} =>
              /\ start_reg' = IF ack THEN {} ELSE start_reg
              /\ ~ack => dma_len_reg' = dma_len_reg /\ dma_dest_address' = dma_dest_address
              /\ clear_task_flag' = (~ack /\ clear_task_flag /\ task_finished_flag)
    BY <1>1 DEF slave!avalon_write, slave!NoAccess, slave!Read, slave!writes
  <1>4. /\ access = slave!Read(4) => readdata' = IF task_finished_flag THEN 1 ELSE 0
        /\ access = slave!NoAccess => readdata' = readdata
    BY <1>1 DEF slave!avalon_read, slave!NoAccess, slave!Read, slave!bit

  <1>5. access = slave!Write(1, Words) =>
              /\ readdata' = readdata
              /\ start_reg' = start_reg /\ dma_len_reg' = Words
              /\ clear_task_flag' = (clear_task_flag /\ task_finished_flag)
    BY <1>1 DEF slave!avalon_write, slave!avalon_read, slave!Write, slave!writes
  <1>6. access = slave!Write(2, buffer) =>
              /\ readdata' = readdata
              /\ start_reg' = start_reg /\ dma_len_reg' = dma_len_reg /\ dma_dest_address' = buffer
              /\ clear_task_flag' = (clear_task_flag /\ task_finished_flag)
    BY <1>1 DEF slave!avalon_write, slave!avalon_read, slave!Write, slave!writes
  <1>7. access = slave!Write(0, {0, 4}) =>
              /\ readdata' = readdata
              /\ start_reg' = {0, 4} /\ dma_len_reg' = dma_len_reg
              /\ dma_dest_address' = dma_dest_address
              /\ clear_task_flag' = (clear_task_flag /\ task_finished_flag)
    BY <1>1 DEF slave!avalon_write, slave!avalon_read, slave!Write, slave!writes
  <1>8. access = slave!Write(3, TRUE) =>
              readdata' = readdata /\ start_reg' = start_reg /\ clear_task_flag' = TRUE
    <2>1. SUFFICES ASSUME access = slave!Write(3, TRUE)
                   PROVE  readdata' = readdata /\ start_reg' = start_reg /\ clear_task_flag' = TRUE
      OBVIOUS
    <2>2. /\ access.op = "write" /\ access.address = 3 /\ access.writedata = TRUE
          /\ slave!writes(access, 3) /\ ~slave!writes(access, 0)
      BY <2>1 DEF slave!Write, slave!writes
    <2>3. readdata' = readdata /\ start_reg' = start_reg
      BY <1>1, <2>2 DEF slave!avalon_write, slave!avalon_read
    <2>4. clear_task_flag' = TRUE
      BY <1>1, <2>2, Zenon DEF slave!avalon_write
    <2> QED
      BY <2>3, <2>4
  <1> QED
    BY <1>2, <1>3, <1>4, <1>5, <1>6, <1>7, <1>8

\* The steps of software: it writes a register, it starts the DMA, it looks
\* at the flag, it acts on the sensor, or it waits.
Programs(access) ==
  /\ \/ pc = "len" /\ pc' = "dest" /\ access = slave!Write(1, Words) /\ buffer' = buffer
     \/ pc = "dest" /\ pc' = "start" /\ access = slave!Write(2, buffer) /\ buffer' = buffer
     \/ pc = "clear" /\ pc' = "len" /\ access = slave!Write(3, TRUE) /\ buffer' \in Buffers
  /\ pictures' = pictures
TakesPicture(access) ==
  /\ pc = "start" /\ pc' = "sensor" /\ access = slave!Write(0, {0, 4})
  /\ buffer' = buffer /\ pictures' = pictures + 1
Looks(access) ==
  /\ \/ pc = "poll" /\ pc' = "check" /\ access = slave!Read(4)
     \/ pc = "check" /\ pc' = (IF readdata = 1 THEN "halt" ELSE "poll") /\ access = slave!NoAccess
  /\ buffer' = buffer /\ pictures' = pictures
Commands(access, command) ==
  /\ \/ /\ pc = "sensor" /\ pc' = "sensor" /\ config # Setting
        /\ \E r \in sensor!registers : command = sensor!Configure(r, Setting[r])
     \/ pc = "sensor" /\ config = Setting /\ pc' = "poll" /\ command = sensor!Start
     \/ pc = "halt" /\ pc' = "clear" /\ command = sensor!Stop
  /\ access = slave!NoAccess /\ buffer' = buffer /\ pictures' = pictures
Pauses(access) ==
  pc' = pc /\ access = slave!NoAccess /\ buffer' = buffer /\ pictures' = pictures

LEMMA HostMoves ==
  ASSUME NEW access, NEW command, Host(access, command)
  PROVE  \/ /\ Programs(access) \/ TakesPicture(access) \/ Looks(access) \/ Pauses(access)
            /\ command = sensor!NoCommand
         \/ Commands(access, command)
  <1>1. CASE HostSlave(access) /\ command = sensor!NoCommand
    BY <1>1 DEF HostSlave, Access, Programs, TakesPicture, Looks
  <1>2. CASE HostSensor(command) /\ access = slave!NoAccess
    BY <1>2 DEF HostSensor, Commands, hostVars
  <1>3. CASE /\ access = slave!NoAccess /\ command = sensor!NoCommand
             /\ HostCheck \/ UNCHANGED hostVars
    BY <1>3 DEF HostCheck, Looks, Pauses, hostVars
  <1> QED
    BY <1>1, <1>2, <1>3 DEF Host

LEMMA HostStep ==
  ASSUME Rules, TopInv, NEW access \in accesses, NEW command \in commands,
         Host(access, command), slave!ClockEdge(access, dma!task_end_flag_out, 0), Record
  PROVE  /\ HostTypes' /\ HostPlace'
         /\ Taking /\ ~dma!task_end_flag_out => Taking' /\ buffer' = buffer
         /\ dma!task_end_flag_out => ~Taking' /\ task_finished_flag' /\ ~task_finished_flag /\ buffer' = buffer
         /\ ~Taking /\ Taking' => pc = "start" /\ pc' = "sensor"
         /\ done' = IF dma!task_end_flag_out THEN done \union {buffer}
                    ELSE IF pc = "start" /\ pc' = "sensor" THEN done \ {buffer} ELSE done
  <1> DEFINE ack == dma!task_end_flag_out
  <1>1. ack \in BOOLEAN
    BY DEF dma!task_end_flag_out
  <1>2. ack => /\ Taking /\ ~task_finished_flag /\ pc \in {"poll", "check"}
    BY Finishing DEF TopInv, HostPlace
  <1>3. /\ HostTypes /\ HostPlace
        /\ \/ /\ Programs(access) \/ TakesPicture(access) \/ Looks(access) \/ Pauses(access)
              /\ command = sensor!NoCommand
           \/ Commands(access, command)
    BY HostMoves DEF TopInv
  <1>4. task_finished_flag' = (ack \/ (task_finished_flag /\ ~clear_task_flag))
    BY <1>1, SlaveMoves
  <1>5. done' = IF pictures' > pictures THEN done \ {buffer}
                ELSE IF task_finished_flag' /\ ~task_finished_flag THEN done \union {buffer}
                ELSE done
    BY DEF Record
  <1> HIDE DEF ack
  <1>6. CASE Programs(access)
    <2>1. ~ack /\ ~Taking /\ pictures' = pictures
      BY <1>2, <1>3, <1>6 DEF Programs, HostPlace
    <2>2. /\ start_reg' = start_reg /\ readdata' = readdata /\ clear_task_flag' \in BOOLEAN
          /\ pc' = "dest" => dma_len_reg' = Words
          /\ pc' = "start" => dma_len_reg' = dma_len_reg /\ dma_dest_address' = buffer
          /\ pc' = "len" => clear_task_flag'
      BY <1>1, <1>3, <1>6, SlaveMoves DEF Programs, slave!Read, slave!Write, HostTypes, ack
    <2>3. done' = done /\ task_finished_flag' \in BOOLEAN
          /\ (task_finished_flag' => task_finished_flag /\ ~clear_task_flag)
      <3>1. task_finished_flag' \in BOOLEAN /\ (task_finished_flag' => task_finished_flag /\ ~clear_task_flag)
        BY <1>4, <2>1
      <3>2. ~(pictures' > pictures)
        BY <1>3, <2>1 DEF HostTypes
      <3> QED
        BY <1>5, <3>1, <3>2
    <2>4. HostTypes'
      BY <1>3, <1>6, <2>1, <2>2, <2>3 DEF HostTypes, Programs
    <2>5. HostPlace' /\ ~Taking'
      BY <1>3, <1>6, <2>1, <2>2, <2>3 DEF HostPlace, HostTypes, Programs, Taking
    <2> QED
      BY <1>6, <2>1, <2>3, <2>4, <2>5 DEF ack, Programs
  <1>7. CASE TakesPicture(access)
    <2>1. ~ack /\ ~Taking /\ ~task_finished_flag /\ pictures' = pictures + 1
      BY <1>2, <1>3, <1>7 DEF TakesPicture, HostPlace
    <2>2. /\ start_reg' = {0, 4} /\ readdata' = readdata /\ clear_task_flag' \in BOOLEAN
          /\ dma_len_reg' = dma_len_reg /\ dma_dest_address' = dma_dest_address
      BY <1>1, <1>3, <1>7, SlaveMoves DEF TakesPicture, slave!Read, slave!Write, HostTypes, ack
    <2>3. done' = done \ {buffer} /\ task_finished_flag' = FALSE
      BY <1>3, <1>4, <1>5, <2>1 DEF HostTypes
    <2>4. HostTypes'
      <3>1. /\ pc' = "sensor" /\ buffer' \in Buffers /\ pictures' \in Nat /\ done' \subseteq Buffers
            /\ start_reg' \in {{}, {0, 4}} /\ readdata' \in {0, 1}
        BY <1>3, <1>7, <2>1, <2>2, <2>3 DEF HostTypes, TakesPicture
      <3> QED
        BY <2>2, <2>3, <3>1 DEF HostTypes
    <2>5. HostPlace'
      BY <1>3, <1>7, <2>1, <2>2, <2>3 DEF HostPlace, TakesPicture, Taking
    <2> QED
      BY <1>7, <2>1, <2>3, <2>4, <2>5 DEF ack, TakesPicture
  <1>8. ASSUME Looks(access) \/ Pauses(access) \/ Commands(access, command)
        PROVE  /\ access \in {slave!NoAccess, slave!Read(4)} /\ buffer' = buffer /\ pictures' = pictures
               /\ start_reg' = (IF ack THEN {} ELSE start_reg)
               /\ ~ack => dma_len_reg' = dma_len_reg /\ dma_dest_address' = dma_dest_address
               /\ clear_task_flag' = (~ack /\ clear_task_flag /\ task_finished_flag)
               /\ done' = (IF ack THEN done \union {buffer} ELSE done)
               /\ task_finished_flag' \in BOOLEAN /\ HostTypes'
    <2>1. access \in {slave!NoAccess, slave!Read(4)} /\ buffer' = buffer /\ pictures' = pictures
      BY <1>8 DEF Looks, Pauses, Commands
    <2>2. /\ start_reg' = (IF ack THEN {} ELSE start_reg)
          /\ ~ack => dma_len_reg' = dma_len_reg /\ dma_dest_address' = dma_dest_address
          /\ clear_task_flag' = (~ack /\ clear_task_flag /\ task_finished_flag)
      BY <1>1, <2>1, SlaveMoves DEF ack
    <2>3. readdata' \in {0, 1}
      BY <1>1, <1>3, <2>1, SlaveMoves DEF ack, HostTypes
    <2>4. done' = (IF ack THEN done \union {buffer} ELSE done) /\ task_finished_flag' \in BOOLEAN
      BY <1>1, <1>2, <1>3, <1>4, <1>5, <2>1 DEF HostTypes
    <2>5. pc' \in {"len", "dest", "start", "sensor", "poll", "check", "halt", "clear"}
      BY <1>3, <1>8 DEF HostTypes, Looks, Pauses, Commands
    <2>6. clear_task_flag' \in BOOLEAN
      BY <2>2
    <2>7. HostTypes'
      BY <1>1, <1>3, <2>1, <2>2, <2>3, <2>4, <2>5, <2>6 DEF HostTypes
    <2> QED
      BY <2>1, <2>2, <2>4, <2>7
  <1>9. ASSUME Looks(access) \/ Pauses(access) \/ Commands(access, command)
        PROVE  HostPlace'
    <2>1. Taking' => Taking /\ ~ack
      BY <1>8, <1>9 DEF Taking
    <2>2. task_finished_flag' => ack \/ (task_finished_flag /\ ~clear_task_flag)
      BY <1>4
    <2>3. CASE Looks(access)
      <3>1. pc' = "check" /\ readdata' = 1 => ~Taking
        <4>1. SUFFICES ASSUME pc' = "check", readdata' = 1
                       PROVE  ~Taking
          OBVIOUS
        <4>2. access = slave!Read(4)
          BY <2>3, <4>1 DEF Looks
        <4>3. task_finished_flag
          <5>1. readdata' = IF task_finished_flag THEN 1 ELSE 0
            BY <1>1, <4>2, SlaveMoves DEF ack
          <5> QED
            BY <4>1, <5>1
        <4> QED
          BY <1>3, <4>3 DEF HostPlace
      <3>2. pc \in {"poll", "check"} /\ pc' \in {"check", "halt", "poll"} /\ (Taking => pc' # "halt")
        BY <1>3, <2>3 DEF Looks, HostPlace
      <3> QED
        BY <1>3, <1>8, <1>9, <2>1, <2>2, <3>1, <3>2 DEF HostPlace
    <2>4. CASE Pauses(access)
      <3>1. readdata' = readdata /\ pc' = pc
        BY <1>1, <2>4, SlaveMoves DEF Pauses, ack, slave!NoAccess, slave!Read
      <3>2. ack => pc \in {"poll", "check"}
        BY <1>2
      <3>3. ~ack => clear_task_flag' = (clear_task_flag /\ task_finished_flag)
        BY <1>8, <1>9
      <3>4. CASE ack
        <4>1. ~Taking' /\ pc' \in {"poll", "check"}
          BY <2>1, <3>1, <3>2, <3>4
        <4> QED
          BY <4>1 DEF HostPlace
      <3>5. CASE ~ack
        <4>1. /\ dma_len_reg' = dma_len_reg /\ dma_dest_address' = dma_dest_address
              /\ done' = done /\ start_reg' = start_reg /\ buffer' = buffer
          BY <1>8, <1>9, <3>5
        <4>2. task_finished_flag' => task_finished_flag /\ ~clear_task_flag
          BY <2>2, <3>5
        <4> QED
          BY <1>3, <3>1, <4>1, <4>2 DEF HostPlace, Taking
      <3> QED
        BY <3>4, <3>5
    <2>5. CASE Commands(access, command)
      <3>1. ~ack /\ readdata' = readdata
        BY <1>1, <1>2, <2>5, SlaveMoves DEF Commands, ack, slave!NoAccess, slave!Read
      <3>2. start_reg' = start_reg
        BY <1>8, <1>9, <3>1
      <3> QED
        BY <1>3, <1>8, <1>9, <2>1, <2>2, <2>5, <3>1, <3>2 DEF HostPlace, Commands, Taking
    <2> QED
      BY <1>9, <2>3, <2>4, <2>5
  <1>10. CASE Looks(access) \/ Pauses(access) \/ Commands(access, command)
    <2>1. pc = "start" => pc' # "sensor"
      BY <1>10 DEF Looks, Pauses, Commands
    <2>2. /\ Taking /\ ~ack => Taking'
          /\ ack => ~Taking' /\ task_finished_flag' /\ ~task_finished_flag
          /\ ~Taking => ~Taking'
      BY <1>2, <1>4, <1>8, <1>10 DEF Taking
    <2>3. /\ buffer' = buffer /\ HostTypes' /\ HostPlace'
          /\ done' = (IF ack THEN done \union {buffer} ELSE done)
      BY <1>8, <1>9, <1>10
    <2> QED
      BY <2>1, <2>2, <2>3 DEF ack
  <1> QED
    BY <1>3, <1>6, <1>7, <1>10

-----------------------------------------------------------------------------
(* The sensor.                                                             *)

\* What software asks of the sensor, and when.
LEMMA CommandMoves ==
  ASSUME Rules, TopInv, NEW access, NEW command, Host(access, command), sensor!MM_WRITE(command)
  PROVE  /\ config' \in [sensor!registers -> Nat]
         /\ reg_start' \in BOOLEAN /\ reg_stop' \in BOOLEAN
         /\ reg_start \/ reg_state # "IDLE" => config' = config
         /\ reg_start' => /\ pc = "sensor" /\ pc' = "poll" /\ config = Setting /\ config' = Setting
                          /\ reg_state = "IDLE"
         /\ reg_stop' => pc = "halt" /\ pc' = "clear"
         /\ pc' = "clear" /\ pc # "clear" => pc = "halt" /\ reg_stop' = (reg_state # "IDLE")
         /\ pc' \in {"len", "dest", "start", "sensor"} =>
              pc \in {"len", "dest", "start", "sensor", "clear"}
         /\ reg_start => pc = "poll"
  <1>1. \/ /\ Programs(access) \/ TakesPicture(access) \/ Looks(access) \/ Pauses(access)
           /\ command = sensor!NoCommand
        \/ Commands(access, command)
    BY HostMoves
  <1>2. config \in [sensor!registers -> Nat] /\ Setting \in [sensor!registers -> Nat]
    BY Sizes DEF TopInv, SensorPlace, Framed, SensorTypes
  <1>3. reg_start => pc = "poll" /\ reg_state = "IDLE"
    BY DEF TopInv, SensorPlace
  <1>4. /\ reg_start' = (command.op = "start" /\ reg_state = "IDLE")
        /\ reg_stop' = (command.op = "stop" /\ reg_state # "IDLE")
        /\ config' = IF command.op = "config" /\ reg_state = "IDLE"
                       THEN [config EXCEPT ![command.register] = command.wrdata] ELSE config
    BY DEF sensor!MM_WRITE
  <1>5. CASE command = sensor!NoCommand
    <2>1. config' = config /\ reg_start' = FALSE /\ reg_stop' = FALSE
      BY <1>4, <1>5 DEF sensor!NoCommand
    <2>2. Programs(access) \/ TakesPicture(access) \/ Looks(access) \/ Pauses(access)
      BY <1>1, <1>5 DEF Commands, sensor!NoCommand, sensor!Configure, sensor!Start, sensor!Stop
    <2>3. /\ pc' = "clear" => pc = "clear"
          /\ pc' \in {"len", "dest", "start", "sensor"} =>
               pc \in {"len", "dest", "start", "sensor", "clear"}
      BY <2>2 DEF Programs, TakesPicture, Looks, Pauses
    <2> QED
      BY <1>2, <1>3, <2>1, <2>3
  <1>6. CASE Commands(access, command)
    <2>1. CASE \E r \in sensor!registers : command = sensor!Configure(r, Setting[r])
      <3>1. PICK r \in sensor!registers : command = sensor!Configure(r, Setting[r])
        BY <2>1
      <3>2. /\ command.op = "config" /\ command.register = r /\ command.wrdata = Setting[r]
            /\ Setting[r] \in Nat
        BY <1>2, <3>1 DEF sensor!Configure
      <3>3. config' \in [sensor!registers -> Nat] /\ reg_start' = FALSE /\ reg_stop' = FALSE
        BY <1>2, <1>4, <3>2
      <3>4. pc = "sensor" /\ pc' = "sensor"
        BY <1>6, <3>1 DEF Commands, sensor!Configure, sensor!Start, sensor!Stop
      <3>5. ~reg_start /\ (reg_state # "IDLE" => config' = config)
        BY <1>3, <1>4, <3>4
      <3> QED
        BY <3>3, <3>4, <3>5
    <2>2. CASE command = sensor!Start
      <3>1. pc = "sensor" /\ config = Setting /\ pc' = "poll"
        BY <1>6, <2>2 DEF Commands, sensor!Configure, sensor!Start, sensor!Stop
      <3>2. config' = config /\ reg_start' = (reg_state = "IDLE") /\ reg_stop' = FALSE
        BY <1>4, <2>2 DEF sensor!Start
      <3> QED
        BY <1>2, <1>3, <3>1, <3>2
    <2>3. CASE command = sensor!Stop
      <3>1. pc = "halt" /\ pc' = "clear"
        BY <1>6, <2>3 DEF Commands, sensor!Configure, sensor!Start, sensor!Stop
      <3>2. config' = config /\ reg_stop' = (reg_state # "IDLE") /\ reg_start' = FALSE
        BY <1>4, <2>3 DEF sensor!Stop
      <3> QED
        BY <1>2, <1>3, <3>1, <3>2
    <2> QED
      BY <1>6, <2>1, <2>2, <2>3 DEF Commands
  <1> QED
    BY <1>1, <1>5, <1>6

LEMMA Stopping ==
  ASSUME SensorTypes, sensor!NEXT_STATE_LOGIC, reg_stop, reg_state # "IDLE"
  PROVE  reg_state' = "IDLE"
  BY DEF SensorTypes, sensor!NEXT_STATE_LOGIC, sensor!Idle, sensor!Stopped, sensor!Blanks,
    sensor!Blank, sensor!Valid

LEMMA SettingFits ==
  ASSUME Rules
  PROVE  (config = Setting => Fits) /\ (config' = Setting => Fits')
  <1>1. /\ Setting["frame_width"] \in 1 .. ConfigRange - 1 /\ Setting["frame_width"] % 2 = 0
        /\ half(Setting["frame_width"]) <= ColourDepth
        /\ Setting["frame_height"] \in 1 .. ConfigRange - 1 /\ Setting["frame_height"] % 2 = 0
        /\ Setting["frame_line_blank"] > 0
    BY ConfigRangeAssumption DEF Rules, SettingAllowed, BlocksPerRow, half, sensor!registers
  <1> QED
    BY <1>1 DEF Fits, Width, Height

\* The sensor moves only within its frame while a picture is taken, and rests
\* where software lets it.
LEMMA SensorKept ==
  ASSUME Rules, TopInv, NEW access, NEW command, Host(access, command), sensor!ClockEdge(command),
         CountFrames, ControllerTypes'
  PROVE  SensorPlace'
  <1> DEFINE moves == Ends \/ Begins \/ BlankGoesOn \/ LineBegins \/ LineGoesOn \/ LineEnds \/ FrameEnds
  <1>0. sensor!MM_WRITE(command) /\ sensor!NEXT_STATE_LOGIC
    BY DEF sensor!ClockEdge
  <1>1. /\ SensorPlace /\ SensorTypes /\ Scanning /\ frame \in Nat /\ frame < FrameTags
    BY DEF TopInv, SensorPlace, Framed
  <1>2. /\ config' \in [sensor!registers -> Nat]
        /\ reg_start' \in BOOLEAN /\ reg_stop' \in BOOLEAN
        /\ reg_start \/ reg_state # "IDLE" => config' = config
        /\ reg_start' => /\ pc = "sensor" /\ pc' = "poll" /\ config = Setting /\ config' = Setting
                         /\ reg_state = "IDLE"
        /\ reg_stop' => pc = "halt" /\ pc' = "clear"
        /\ pc' = "clear" /\ pc # "clear" => pc = "halt" /\ reg_stop' = (reg_state # "IDLE")
        /\ pc' \in {"len", "dest", "start", "sensor"} =>
             pc \in {"len", "dest", "start", "sensor", "clear"}
        /\ reg_start => pc = "poll"
    BY <1>0, CommandMoves
  <1>3. /\ moves
        /\ reg_state' = "IDLE" => reg_state = "IDLE" \/ reg_stop
        /\ reg_state = "IDLE" /\ ~reg_start => reg_state' = "IDLE"
    BY <1>0, <1>1, SensorMoves
  <1>4. SensorTypes' /\ Scanning'
    BY <1>0, <1>1, <1>2, SettingFits, SensorStays
  <1>5. frame' \in Nat /\ frame' < FrameTags
    BY <1>1, FrameTagsAssumption DEF CountFrames
  <1>6. reg_start \/ reg_state # "IDLE" => config = Setting /\ config' = Setting
    BY <1>1, <1>2 DEF SensorPlace
  <1>7. (reg_start => pc = "poll" /\ reg_state = "IDLE")'
    <2>1. reg_start' => ~reg_start
      BY <1>2
    <2> QED
      BY <1>2, <1>3, <2>1
  <1>8. (reg_start \/ reg_state # "IDLE" => config = Setting)'
    BY <1>2, <1>3, <1>6
  <1>9. (pc \in {"len", "dest", "start", "sensor"} => reg_state = "IDLE")'
    <2>1. SUFFICES ASSUME pc' \in {"len", "dest", "start", "sensor"}
                   PROVE  reg_state' = "IDLE"
      OBVIOUS
    <2>2. ~reg_start /\ (reg_state = "IDLE" \/ reg_stop)
      BY <1>1, <1>2, <2>1 DEF SensorPlace
    <2> QED
      BY <1>0, <1>1, <1>3, <2>2, Stopping
  <1>10. (pc = "clear" => reg_stop \/ reg_state = "IDLE")'
    <2>1. SUFFICES ASSUME pc' = "clear"
                   PROVE  reg_stop' \/ reg_state' = "IDLE"
      OBVIOUS
    <2>2. CASE pc = "clear"
      BY <1>0, <1>1, <1>2, <1>3, <2>2, Stopping DEF SensorPlace
    <2>3. CASE pc # "clear"
      BY <1>2, <1>3, <2>1, <2>3
    <2> QED
      BY <2>2, <2>3
  <1>11. (reg_state \in Blanks => blank_counter \in 1 .. blank_length)'
    <2>1. SUFFICES ASSUME reg_state' \in Blanks
                   PROVE  blank_counter' \in 1 .. blank_length'
      OBVIOUS
    <2>2. config = Setting /\ config' = Setting
      BY <1>3, <1>6, <2>1 DEF Blanks
    <2>3. /\ Setting["frame_frame_blank"] \in 1 .. ConfigRange - 1
          /\ Setting["frame_line_blank"] \in 1 .. ConfigRange - 1
          /\ Setting["line_line_blank"] \in 1 .. ConfigRange - 1
          /\ Setting["line_frame_blank"] \in 0 .. ConfigRange - 1
      BY Sizes, ConfigRangeAssumption DEF sensor!registers
    <2>4. CASE BlankGoesOn
      <3>1. blank_counter \in 1 .. blank_length /\ blank_counter # blank_length
        BY <1>1, <2>4 DEF SensorPlace, BlankGoesOn
      <3>2. blank_length \in Nat /\ blank_length < ConfigRange /\ blank_length' = blank_length
        <4>1. reg_state' = reg_state /\ reg_state \in Blanks
          BY <2>4 DEF BlankGoesOn
        <4>2. CASE reg_state = "FRAME_FRAME_BLANK"
          BY <2>2, <2>3, <4>1, <4>2, ConfigRangeAssumption DEF blank_length
        <4>3. CASE reg_state = "FRAME_LINE_BLANK"
          BY <2>2, <2>3, <4>1, <4>3, ConfigRangeAssumption DEF blank_length
        <4>4. CASE reg_state = "LINE_LINE_BLANK"
          BY <2>2, <2>3, <4>1, <4>4, ConfigRangeAssumption DEF blank_length
        <4>5. CASE reg_state = "LINE_FRAME_BLANK"
          BY <2>2, <2>3, <4>1, <4>5, ConfigRangeAssumption DEF blank_length
        <4> QED
          BY <4>1, <4>2, <4>3, <4>4, <4>5 DEF Blanks
      <3>3. blank_counter' = blank_counter + 1
        BY <2>4, <3>1, <3>2, CountsUp, ConfigRangeAssumption DEF BlankGoesOn
      <3> QED
        BY <3>1, <3>2, <3>3
    <2>5. CASE Begins \/ FrameEnds
      BY <2>2, <2>3, <2>5 DEF Begins, FrameEnds, blank_length
    <2>6. CASE LineEnds
      BY <2>2, <2>3, <2>6 DEF LineEnds, blank_length
    <2>7. ~Ends /\ ~LineBegins /\ ~LineGoesOn
      BY <2>1 DEF Ends, LineBegins, LineGoesOn, Blanks
    <2> QED
      BY <1>3, <2>4, <2>5, <2>6, <2>7
  <1>12. (reg_stop => pc = "clear")'
    BY <1>2
  <1> QED
    BY <1>4, <1>5, <1>7, <1>8, <1>9, <1>10, <1>11, <1>12 DEF SensorPlace, Framed

-----------------------------------------------------------------------------
(* The controller follows the sensor.                                      *)

LEMMA PlaceBasics ==
  ASSUME TopInv
  PROVE  /\ SensorTypes /\ ControllerTypes /\ Scanning /\ Framed /\ frame \in Nat
         /\ fvalid <=> reg_state \notin {"IDLE", "FRAME_FRAME_BLANK"}
         /\ lvalid <=> reg_state = "VALID"
         /\ Taking => Follows
         /\ ~Taking => AtRest /\ (lvalid => state_current = "IDLE")
  BY DEF TopInv, SensorPlace, Framed, ControllerPlace, fvalid, lvalid, sensor!frame_valid,
    sensor!line_valid

\* A word leaves the controller when the second green pixel of a picture that
\* is taken is on the bus, and is the block it ends.
LEMMA Storings ==
  ASSUME Rules, TopInv
  PROVE  /\ state_c = "READDATA" <=> Taking /\ Storing
         /\ Taking /\ Storing => controller!wrdata(lvalid, data) = Block(frame, position)
  <1>0. /\ SensorTypes /\ ControllerTypes /\ Scanning /\ Framed /\ SensorPlace
        /\ fvalid <=> reg_state \notin {"IDLE", "FRAME_FRAME_BLANK"}
        /\ lvalid <=> reg_state = "VALID"
        /\ Taking => Follows
        /\ ~Taking => AtRest
    BY PlaceBasics DEF TopInv
  <1>1. ~Taking => state_c # "READDATA"
    BY <1>0 DEF AtRest
  <1>2. ~lvalid => ~Storing
    BY <1>0 DEF Storing
  <1>3. Taking /\ ~lvalid => state_c # "READDATA"
    BY <1>0 DEF Follows, AtRest, OffPixel
  <1>4. ASSUME Taking, lvalid
        PROVE  /\ state_c = "READDATA" <=> Storing
               /\ Storing => controller!wrdata(lvalid, data) = Block(frame, position)
    <2>1. InFrame /\ OnPixel
      BY <1>0, <1>4 DEF InFrame, Follows
    <2>2. colour(height_counter, width_counter) = "G2" <=> Storing
      BY <1>0, <1>4 DEF colour, Storing
    <2>3. state_c = "READDATA" <=> Storing
      BY <2>1, <2>2 DEF OnPixel
    <2>4. ASSUME Storing
          PROVE  controller!wrdata(lvalid, data) = Block(frame, position)
      <3>1. /\ data_g1_out = Pixel(frame, height_counter - 1, width_counter - 1)
            /\ data_r_out = Pixel(frame, height_counter - 1, width_counter)
            /\ data_b_reg = Pixel(frame, height_counter, width_counter - 1)
        BY <2>1, <2>2, <2>4 DEF OnPixel
      <3>2. offered = "G2"
        BY <1>4, <2>1, <2>2, <2>4, OnPixelNow
      <3>3. data = Pixel(frame, height_counter, width_counter)
        BY <1>4 DEF data
      <3>4. controller!wrdata(lvalid, data) = BlockAt(frame, height_counter, width_counter)
        BY <3>1, <3>2, <3>3 DEF controller!wrdata, controller!average_and_combine!wrdata, controller!data_g2,
          controller!latched, offered, BlockAt
      <3>5. Block(frame, position) = BlockAt(frame, height_counter, width_counter)
        <4> DEFINE h == half(height_counter) - 1
                   j == half(width_counter - 1)
        <4>1. reg_state = "VALID" /\ ~odd(height_counter) /\ ~odd(width_counter)
          BY <2>4 DEF Storing
        <4>2. /\ h \in Nat /\ j \in 0 .. BlocksPerRow - 1
              /\ position = h * BlocksPerRow + j
          BY <1>0, <4>1, InRowOf
        <4>3. height_counter = 2 * h + 2 /\ width_counter = 2 * j + 2
          BY <1>0, <4>1, InLine
        <4>4. position \div BlocksPerRow = h /\ position % BlocksPerRow = j
          <5>1. BlocksPerRow \in Nat \ {0}
            BY Sizes, Beats
          <5> HIDE DEF h, j
          <5> QED
            BY <4>2, <5>1, RowAndColumn
        <4> HIDE DEF h, j
        <4>5. /\ 2 * (position \div BlocksPerRow) + 2 = height_counter
              /\ 2 * (position % BlocksPerRow) + 2 = width_counter
          BY <4>3, <4>4
        <4> QED
          BY <4>5 DEF Block
      <3> QED
        BY <3>4, <3>5
    <2> QED
      BY <2>3, <2>4
  <1> QED
    BY <1>1, <1>2, <1>3, <1>4

\* An edge on which nothing is offered leaves the colour FIFOs alone.
LEMMA NothingOffered ==
  ASSUME TopInv, ~lvalid \/ ~Taking, NEW on \in BOOLEAN, ControllerEdge(on, on), state_c # "READDATA"
  PROVE  /\ offered = "none" /\ fifo_g1' = fifo_g1 /\ fifo_r' = fifo_r
         /\ state_c' = IF on THEN "WAITDATA" ELSE "IDLE"
  <1>1. offered = "none"
    BY PlaceBasics, Offered
  <1>2. ~reads
    BY <1>1 DEF reads
  <1>3. fifo_g1' = fifo_g1 /\ fifo_r' = fifo_r
    BY <1>1, <1>2, FifosStay DEF ControllerStep
  <1> QED
    BY <1>1, <1>2, <1>3, PlaceBasics, CombineMoves

LEMMA ControllerKept ==
  ASSUME Rules, TopInv, NEW access \in accesses, NEW command \in commands,
         Host(access, command), slave!ClockEdge(access, dma!task_end_flag_out, 0), Record,
         sensor!ClockEdge(command), ControllerEdge(start_camera, start_dma), SensorPlace'
  PROVE  ControllerPlace'
  <1>0. /\ SensorPlace /\ Framed /\ SensorTypes /\ ControllerTypes /\ Scanning
        /\ fvalid <=> reg_state \notin {"IDLE", "FRAME_FRAME_BLANK"}
        /\ lvalid <=> reg_state = "VALID"
        /\ Taking => Follows
        /\ ~Taking => AtRest /\ (lvalid => state_current = "IDLE")
    BY PlaceBasics DEF TopInv
  <1>1. /\ fvalid' <=> reg_state' \notin {"IDLE", "FRAME_FRAME_BLANK"}
        /\ lvalid' <=> reg_state' = "VALID"
    BY DEF fvalid, lvalid, sensor!frame_valid, sensor!line_valid
  <1>2. sensor!MM_WRITE(command) /\ sensor!NEXT_STATE_LOGIC
    BY DEF sensor!ClockEdge
  <1>3. /\ \/ Ends \/ Begins \/ BlankGoesOn \/ LineBegins \/ LineGoesOn \/ LineEnds \/ FrameEnds
        /\ reg_state' = "IDLE" => reg_state = "IDLE" \/ reg_stop
        /\ reg_state = "IDLE" /\ ~reg_start => reg_state' = "IDLE"
    BY <1>0, <1>2, SensorMoves
  <1>4. (start_dma <=> Taking) /\ (start_camera <=> Taking)
        /\ start_dma \in BOOLEAN /\ start_camera \in BOOLEAN
    BY StartWires DEF start_dma, start_camera, slave!start_dma_out, slave!start_camera_controller_out
  <1>5. /\ Taking /\ ~dma!task_end_flag_out => Taking'
        /\ dma!task_end_flag_out => ~Taking'
        /\ ~Taking /\ Taking' => pc = "start" /\ pc' = "sensor"
    BY HostStep
  <1>6. CASE ~Taking
    <2>1. ControllerEdge(FALSE, FALSE)
      BY <1>4, <1>6
    <2>2. AtRest /\ (lvalid => state_current = "IDLE")
      BY <1>0, <1>6
    <2>3. fifo_g1' = fifo_g1 /\ fifo_r' = fifo_r /\ state_c' = "IDLE"
      BY <1>6, <2>1, <2>2, NothingOffered DEF AtRest
    <2>4. state_current' = "IDLE" /\ cnt_row' = 0
      BY <1>0, <2>1, MuxMoves DEF ControllerTypes
    <2>5. AtRest'
      BY <2>2, <2>3, <2>4 DEF AtRest
    <2>6. Taking' => reg_state' = "IDLE"
      BY <1>5, <1>6 DEF SensorPlace
    <2> QED
      BY <1>1, <2>4, <2>5, <2>6 DEF ControllerPlace, Follows
  <1>7. ASSUME Taking
        PROVE  /\ ControllerEdge(TRUE, TRUE) /\ CaptureStep /\ Follows
               /\ reg_state' = "IDLE" => reg_state = "IDLE"
               /\ config' = config \/ reg_state = "IDLE"
    <2>1. pc # "clear" /\ ~reg_stop
      BY <1>0, <1>7 DEF TopInv, HostPlace, SensorPlace
    <2>2. reg_state # "IDLE" => config' = config
      BY <1>2, CommandMoves
    <2> QED
      BY <1>0, <1>3, <1>4, <1>7, <2>1, <2>2 DEF CaptureStep
  <1>8. CASE Taking /\ fvalid
    <2>1. InFrame
      BY <1>0, <1>7, <1>8 DEF InFrame
    <2>2. frame' = frame
      <3>1. CountFrames
        BY DEF Record
      <3> QED
        BY <1>0, <1>8, <3>1, FramesCount DEF Framed
    <2>3. FrameStep
      BY <1>0, <1>2, <1>7, <1>8, <2>2 DEF FrameStep
    <2>4. Follows'
      BY <2>1, <2>3, FollowsStep
    <2>5. CASE Taking'
      BY <1>0, <1>7, <1>8, <2>4, <2>5 DEF ControllerPlace
    <2>6. CASE ~Taking'
      <3>1. reg_state = "LINE_FRAME_BLANK"
        BY <1>0, <1>5, <1>8, <2>6, Finishing
      <3>2. OffPixel /\ ~lvalid
        BY <1>0, <1>8, <2>1, <3>1 DEF Follows, InFrame
      <3>3. /\ state_current' = "WAITDATA" /\ cnt_row' = cnt_row /\ state_c' = "WAITDATA"
            /\ fifo_g1' = fifo_g1 /\ fifo_r' = fifo_r
        BY <1>7, <1>8, <2>1, <3>2, OffPixelStep
      <3>4. cnt_row = 0 /\ fifo_g1 = << >> /\ fifo_r = << >>
        BY <3>1, <3>2 DEF OffPixel
      <3>5. AtRest'
        BY <3>3, <3>4 DEF AtRest
      <3>6. reg_state' \notin {"VALID", "LINE_LINE_BLANK"}
        BY <1>3, <3>1 DEF Ends, Begins, BlankGoesOn, LineBegins, LineGoesOn, LineEnds, FrameEnds
      <3> QED
        BY <2>6, <3>5, <3>6 DEF ControllerPlace
    <2> QED
      BY <2>5, <2>6
  <1>9. CASE Taking /\ ~fvalid
    <2>1. AtRest /\ ~lvalid /\ reg_state \in {"IDLE", "FRAME_FRAME_BLANK"}
      BY <1>0, <1>9 DEF Follows
    <2>2. fifo_g1' = fifo_g1 /\ fifo_r' = fifo_r /\ state_c' = "WAITDATA"
      BY <1>7, <1>9, <2>1, NothingOffered DEF AtRest
    <2>3. /\ state_current = "IDLE" => state_current' = "IDLE"
          /\ state_current' \in {"IDLE", "WAITDATA"}
      BY <1>0, <1>7, <1>9, <2>1, MuxMoves DEF AtRest, Colours
    <2>4. cnt_row' = 0
      BY <1>0, <1>7, <1>9, <2>1, <2>3, MuxMoves DEF AtRest
    <2>5. AtRest'
      BY <2>1, <2>2, <2>3, <2>4 DEF AtRest
    <2>6. reg_state' \in {"IDLE", "FRAME_FRAME_BLANK", "FRAME_LINE_BLANK"}
      BY <1>3, <2>1 DEF Ends, Begins, BlankGoesOn, LineBegins, LineGoesOn, LineEnds, FrameEnds
    <2>7. Follows'
      <3>1. CASE reg_state' = "FRAME_LINE_BLANK"
        BY <1>1, <2>1, <2>2, <2>3, <2>4, <3>1 DEF Follows, OffPixel, AtRest
      <3>2. CASE reg_state' # "FRAME_LINE_BLANK"
        BY <1>1, <2>5, <2>6, <3>2 DEF Follows
      <3> QED
        BY <3>1, <3>2
    <2>8. reg_state' = "IDLE" => state_current' = "IDLE"
      BY <1>7, <1>9, <2>3 DEF TopInv, ControllerPlace
    <2> QED
      BY <2>5, <2>6, <2>7, <2>8 DEF ControllerPlace
  <1> QED
    BY <1>6, <1>8, <1>9

-----------------------------------------------------------------------------
(* The picture goes on, cycle by cycle.                                    *)

\* A cycle outside of the rows of blocks, the first word of a row, a cycle of
\* a row, its last word, and the beginning of another frame.
Quiet ==
  /\ ~InRow /\ ~Storing /\ ~InRow' /\ position' = position
  /\ Left' \in Nat /\ Left' >= Left - 1
RowBegins ==
  ~InRow /\ Storing /\ Left = 1 /\ InRow' /\ position' = position + 1 /\ base' = position
RowGoesOn ==
  InRow /\ InRow' /\ base' = base /\ position' = IF Storing THEN position + 1 ELSE position
RowEnds ==
  /\ InRow /\ Storing /\ ~InRow' /\ position' = position + 1 /\ position' = base + BlocksPerRow
  /\ \/ Left' = Setting["frame_width"] + 2 * Setting["line_line_blank"] + 2
     \/ Left' = Setting["line_frame_blank"] + Setting["frame_frame_blank"]
Again == ~InRow /\ ~Storing /\ Left = 1 /\ position = Words

Phases == Quiet \/ RowBegins \/ RowGoesOn \/ RowEnds \/ Again

LEMMA BlanksSet ==
  ASSUME Rules
  PROVE  /\ Setting["frame_width"] \in Nat /\ Setting["line_line_blank"] \in Nat
         /\ Setting["frame_frame_blank"] \in Nat /\ Setting["line_frame_blank"] \in Nat
         /\ Setting["frame_line_blank"] \in Nat
  BY Sizes DEF sensor!registers

\* What the sensor is set to, and where its counters are.
LEMMA Scanned ==
  ASSUME Rules, SensorPlace
  PROVE  /\ reg_start \/ reg_state # "IDLE" =>
              /\ config = Setting /\ Width = 2 * BlocksPerRow /\ Height = 2 * Rows
              /\ Width = Setting["frame_width"]
         /\ reg_state \in Blanks => blank_counter \in 1 .. blank_length
         /\ width_counter \in Nat /\ height_counter \in Nat /\ blank_counter \in Nat
         /\ reg_state = "LINE_LINE_BLANK" => height_counter \in 1 .. 2 * Rows - 1
  BY InSetting, Sizes DEF SensorPlace, Framed, Scanning, SensorTypes

LEMMA LinePhase ==
  ASSUME Rules, SensorPlace, SensorPlace', LineGoesOn
  PROVE  Phases
  <1> DEFINE r == height_counter
             c == width_counter
             P == BlocksPerRow
  <1>0. P \in Nat /\ Setting["frame_width"] = 2 * P /\ Setting["line_line_blank"] \in Nat
    BY Sizes, BlanksSet
  <1>1. reg_state = "VALID" /\ reg_state' = "VALID" /\ height_counter' = r /\ width_counter' = c + 1
    BY DEF LineGoesOn
  <1>2. r \in Nat /\ c \in Nat /\ c \in 1 .. 2 * P - 1
    BY <1>0, <1>1, Scanned, InLine DEF LineGoesOn
  <1>3. CASE odd(r)
    <2>1. /\ position = half(r) * P /\ position' = half(r) * P
          /\ ~InRow /\ ~Storing /\ ~InRow'
      BY <1>1, <1>3 DEF position, InRow, Storing
    <2>2. /\ Left = 2 * P - c + 3 + Setting["line_line_blank"]
          /\ Left' = 2 * P - (c + 1) + 3 + Setting["line_line_blank"]
      BY <1>0, <1>1, <1>3 DEF Left
    <2> HIDE DEF r, c, P
    <2> QED
      BY <1>0, <1>2, <2>1, <2>2 DEF Quiet, Phases
  <1>4. CASE ~odd(r)
    <2>1. /\ position = (half(r) - 1) * P + half(c - 1)
          /\ position' = (half(r) - 1) * P + half(c)
      <3>1. position = (half(r) - 1) * P + half(c - 1)
        BY <1>1, <1>4 DEF position
      <3>2. ~odd(height_counter')
        BY <1>1, <1>4
      <3>3. position' = (half(height_counter') - 1) * P + half(width_counter' - 1)
        BY <1>1, <3>2 DEF position
      <3>4. width_counter' - 1 = c
        BY <1>1, <1>2
      <3> QED
        BY <1>1, <3>1, <3>3, <3>4, Zenon
    <2>9. /\ InRow <=> c > 2
          /\ InRow' <=> c + 1 > 2
          /\ Storing <=> ~odd(c)
      BY <1>1, <1>4 DEF InRow, Storing
    <2>10. Left = 3 - c /\ Left' = 3 - (c + 1)
      BY <1>1, <1>4 DEF Left
    <2>2. /\ (half(r) - 1) * P \in Nat
          /\ InRow => base = (half(r) - 1) * P
          /\ InRow' => base' = (half(r) - 1) * P
      <3>1. half(r) - 1 \in Nat
        BY <1>1, <1>4, InLine
      <3>2. (half(r) - 1) * P \in Nat
        BY <1>0, <3>1, Products
      <3> QED
        BY <1>1, <3>2 DEF base
    <2>3. half(c) = IF odd(c) THEN half(c - 1) ELSE half(c - 1) + 1
      BY <1>2 DEF half, odd
    <2>4. half(c - 1) \in Nat /\ (c <= 2 => half(c - 1) = 0) /\ (odd(c) /\ c <= 2 => c = 1)
      BY <1>2 DEF half, odd
    <2>5. ~odd(1) => FALSE
      BY Ones
    <2> HIDE DEF r, c, P
    <2>6. CASE c = 1
      BY <1>0, <2>1, <2>2, <2>3, <2>4, <2>5, <2>6, <2>9, <2>10 DEF Quiet, Phases
    <2>7. CASE c = 2
      <3>1. ~odd(c)
        BY <2>4, <2>7
      <3> QED
        BY <1>0, <2>1, <2>2, <2>3, <2>4, <2>7, <3>1, <2>9, <2>10 DEF RowBegins, Phases
    <2>8. CASE c > 2
      BY <1>0, <1>2, <2>1, <2>2, <2>3, <2>4, <2>8, <2>9, <2>10 DEF RowGoesOn, Phases
    <2> QED
      BY <1>2, <2>6, <2>7, <2>8
  <1> QED
    BY <1>3, <1>4

LEMMA LineEndPhase ==
  ASSUME Rules, SensorPlace, SensorPlace', LineEnds
  PROVE  Phases
  <1> DEFINE r == height_counter
             P == BlocksPerRow
             llb == Setting["line_line_blank"]
             lfb == Setting["line_frame_blank"]
             ffb == Setting["frame_frame_blank"]
  <1>0. /\ P \in Nat /\ P > 1 /\ Setting["frame_width"] = 2 * P
        /\ llb \in Nat /\ lfb \in Nat /\ ffb \in Nat /\ ffb > 0 /\ Rows \in Nat \ {0}
    BY Sizes, Beats, BlanksSet
  <1>1. /\ reg_state = "VALID" /\ height_counter' = r /\ width_counter = 2 * P
        /\ blank_counter' = 1 /\ config = Setting
        /\ \/ reg_state' = "LINE_LINE_BLANK" /\ r < 2 * Rows
           \/ /\ r = 2 * Rows
              /\ reg_state' = IF lfb > 0 THEN "LINE_FRAME_BLANK" ELSE "FRAME_FRAME_BLANK"
    BY Scanned DEF LineEnds
  <1>2. r \in Nat
    BY Scanned
  <1>3. CASE odd(r)
    <2>1. r # 2 * Rows
      BY <1>0, <1>3 DEF odd
    <2>2. reg_state' = "LINE_LINE_BLANK"
      BY <1>1, <2>1
    <2>3. /\ position = half(r) * P /\ position' = half(r) * P
          /\ ~InRow /\ ~Storing /\ ~InRow'
      BY <1>1, <1>3, <2>2 DEF position, InRow, Storing
    <2>4. /\ Left = Setting["frame_width"] - width_counter + 3 + llb
          /\ Left' = llb - 1 + 3 + 0
      BY <1>1, <1>3, <2>2 DEF Left
    <2>5. Left = 3 + llb /\ Left' = llb + 2
      BY <1>0, <1>1, <2>4
    <2> HIDE DEF llb
    <2> QED
      BY <1>0, <2>3, <2>5 DEF Quiet, Phases
  <1>4. CASE ~odd(r)
    <2>1. InRow /\ Storing /\ ~InRow'
      BY <1>0, <1>1, <1>4 DEF InRow, Storing, odd
    <2>2. /\ half(r) - 1 \in Nat /\ r = 2 * half(r) /\ half(r) \in Nat
          /\ half(width_counter - 1) = P - 1
      BY <1>0, <1>1, <1>2, <1>4, InLine DEF half
    <2>3. /\ position = (half(r) - 1) * P + (P - 1)
          /\ base = (half(r) - 1) * P
      BY <1>1, <1>4, <2>1, <2>2 DEF position, base
    <2>4. half(r) * P = (half(r) - 1) * P + P /\ (half(r) - 1) * P \in Nat
      BY <1>0, <2>2, Products
    <2>5. CASE reg_state' = "LINE_LINE_BLANK"
      <3>1. position' = half(r) * P /\ Left' = llb - 1 + 3 + (Setting["frame_width"] + llb)
        BY <1>1, <1>4, <2>5 DEF position, Left
      <3>2. Left' = Setting["frame_width"] + 2 * llb + 2
        BY <1>0, <3>1
      <3> QED
        BY <1>0, <2>1, <2>3, <2>4, <3>1, <3>2 DEF RowEnds, Phases
    <2>6. CASE reg_state' # "LINE_LINE_BLANK"
      <3>1. /\ position' = Words
            /\ reg_state' = IF lfb > 0 THEN "LINE_FRAME_BLANK" ELSE "FRAME_FRAME_BLANK"
        BY <1>1, <2>6 DEF position
      <3>2. Left' = lfb + ffb
        BY <1>0, <1>1, <3>1 DEF Left
      <3>3. Words = half(r) * P
        <4>1. half(r) = Rows
          BY <1>0, <1>1, <2>2, <2>6
        <4> QED
          BY <4>1, Sizes
      <3> QED
        BY <1>0, <2>1, <2>3, <2>4, <3>1, <3>2, <3>3 DEF RowEnds, Phases
    <2> QED
      BY <2>5, <2>6
  <1> QED
    BY <1>3, <1>4

LEMMA LineBeginPhase ==
  ASSUME Rules, SensorPlace, SensorPlace', LineBegins
  PROVE  Quiet
  <1> DEFINE r == height_counter
             P == BlocksPerRow
             llb == Setting["line_line_blank"]
  <1>0. P \in Nat /\ Setting["frame_width"] = 2 * P /\ llb \in Nat /\ P > 1
    BY Sizes, Beats, BlanksSet
  <1>1. /\ reg_state' = "VALID" /\ width_counter' = 1 /\ blank_counter = blank_length
        /\ \/ reg_state = "FRAME_LINE_BLANK" /\ height_counter' = 1
           \/ reg_state = "LINE_LINE_BLANK" /\ height_counter' = r + 1
        /\ r \in Nat
    BY Scanned DEF LineBegins
  <1>2. ~InRow /\ ~Storing /\ ~InRow'
    BY <1>1 DEF InRow, Storing
  <1>3. CASE reg_state = "FRAME_LINE_BLANK" /\ height_counter' = 1
    <2>1. position = 0 /\ Left = 0
      BY <1>3 DEF position, Left
    <2>2. position' = half(1) * P /\ Left' = Setting["frame_width"] - 1 + 3 + llb
      BY <1>1, <1>3, Ones DEF position, Left
    <2>3. position' = 0
      BY <1>0, <2>2, Ones
    <2>4. Left' = 2 * P + 2 + llb
      BY <1>0, <2>2
    <2> HIDE DEF llb, P
    <2> QED
      BY <1>0, <1>2, <2>1, <2>3, <2>4 DEF Quiet
  <1>4. CASE reg_state = "LINE_LINE_BLANK" /\ height_counter' = r + 1
    <2>1. blank_counter = llb
      BY <1>1, <1>4, Scanned DEF blank_length
    <2>2. position = half(r) * P
      BY <1>4 DEF position
    <2>3. CASE odd(r)
      <3>1. ~odd(r + 1) /\ half(r + 1) - 1 = half(r)
        BY <1>1, <2>3, Halves
      <3>2. /\ position' = (half(r + 1) - 1) * P + half(1 - 1)
            /\ Left' = 3 - 1
        BY <1>1, <1>4, <3>1 DEF position, Left
      <3>3. Left = llb - blank_counter + 3 + 0
        BY <1>4, <2>3 DEF Left
      <3>4. Left = 3 /\ Left' = 2
        BY <1>0, <2>1, <3>2, <3>3
      <3>5. position' = position
        <4>1. half(1 - 1) = 0 /\ half(r) \in Nat
          BY <1>1 DEF half
        <4>2. half(r) * P \in Nat
          BY <1>0, <4>1, Products
        <4> QED
          BY <2>2, <3>1, <3>2, <4>1, <4>2
      <3> QED
        BY <1>2, <3>4, <3>5 DEF Quiet
    <2>4. CASE ~odd(r)
      <3>1. odd(r + 1) /\ half(r + 1) = half(r)
        BY <1>1, <2>4, Halves
      <3>2. /\ position' = half(r + 1) * P
            /\ Left' = Setting["frame_width"] - 1 + 3 + llb
        BY <1>1, <1>4, <3>1 DEF position, Left
      <3>3. Left = llb - blank_counter + 3 + (Setting["frame_width"] + llb)
        BY <1>4, <2>4 DEF Left
      <3>4. Left = 2 * P + llb + 3 /\ Left' = 2 * P + llb + 2
        BY <1>0, <2>1, <3>2, <3>3
      <3>5. position' = position
        BY <2>2, <3>1, <3>2
      <3> HIDE DEF llb, P
      <3> QED
        BY <1>0, <1>2, <3>4, <3>5 DEF Quiet
    <2> QED
      BY <2>3, <2>4
  <1> QED
    BY <1>1, <1>3, <1>4

LEMMA BlankPhase ==
  ASSUME Rules, SensorPlace, SensorPlace', BlankGoesOn \/ FrameEnds
  PROVE  Quiet
  <1> DEFINE r == height_counter
             llb == Setting["line_line_blank"]
             lfb == Setting["line_frame_blank"]
             ffb == Setting["frame_frame_blank"]
  <1>0. llb \in Nat /\ lfb \in Nat /\ ffb \in Nat /\ Setting["frame_width"] \in Nat
    BY BlanksSet
  <1>1. /\ reg_state \in Blanks /\ reg_state' \in Blanks
        /\ ~InRow /\ ~Storing /\ ~InRow'
    BY DEF BlankGoesOn, FrameEnds, Blanks, InRow, Storing
  <1>2. config = Setting /\ config' = Setting
    BY <1>1 DEF SensorPlace, Blanks
  <1>3. blank_counter \in 1 .. blank_length /\ blank_counter' \in 1 .. blank_length'
    BY <1>1 DEF SensorPlace
  <1>4. CASE BlankGoesOn
    <2>1. /\ reg_state' = reg_state /\ height_counter' = r
          /\ blank_counter' = sensor!up(blank_counter) /\ blank_counter # blank_length
      BY <1>4 DEF BlankGoesOn
    <2>2. position' = position
      BY <1>1, <2>1 DEF position, Blanks
    <2>3. blank_length \in Nat /\ blank_length < ConfigRange /\ blank_length' = blank_length
      <3>1. CASE reg_state = "FRAME_FRAME_BLANK"
        BY <1>2, <2>1, <3>1, Sizes, ConfigRangeAssumption DEF blank_length, sensor!registers
      <3>2. CASE reg_state = "FRAME_LINE_BLANK"
        BY <1>2, <2>1, <3>2, Sizes, ConfigRangeAssumption DEF blank_length, sensor!registers
      <3>3. CASE reg_state = "LINE_LINE_BLANK"
        BY <1>2, <2>1, <3>3, Sizes, ConfigRangeAssumption DEF blank_length, sensor!registers
      <3>4. CASE reg_state = "LINE_FRAME_BLANK"
        BY <1>2, <2>1, <3>4, Sizes, ConfigRangeAssumption DEF blank_length, sensor!registers
      <3> QED
        BY <1>1, <3>1, <3>2, <3>3, <3>4 DEF Blanks
    <2>4. blank_counter' = blank_counter + 1 /\ blank_counter \in Nat /\ blank_counter < blank_length
      BY <1>3, <2>1, <2>3, CountsUp, ConfigRangeAssumption
    <2>5. CASE reg_state = "FRAME_LINE_BLANK"
      <3>1. Left = 0 /\ Left' = 0
        BY <2>1, <2>5 DEF Left
      <3> QED
        BY <1>1, <2>2, <3>1 DEF Quiet
    <2>6. CASE reg_state = "LINE_LINE_BLANK"
      <3> DEFINE more == IF odd(r) THEN 0 ELSE Setting["frame_width"] + llb
      <3>1. /\ Left = llb - blank_counter + 3 + more
            /\ Left' = llb - (blank_counter + 1) + 3 + more
            /\ blank_length = llb /\ more \in Nat
        BY <1>0, <1>2, <2>1, <2>4, <2>6 DEF Left, blank_length
      <3> HIDE DEF more, llb
      <3> QED
        BY <1>0, <1>1, <2>2, <2>4, <3>1 DEF Quiet
    <2>7. CASE reg_state = "LINE_FRAME_BLANK"
      <3>1. /\ Left = lfb - blank_counter + 1 + ffb
            /\ Left' = lfb - (blank_counter + 1) + 1 + ffb
            /\ blank_length = lfb
        BY <1>2, <2>1, <2>4, <2>7 DEF Left, blank_length
      <3> HIDE DEF lfb, ffb
      <3> QED
        BY <1>0, <1>1, <2>2, <2>4, <3>1 DEF Quiet
    <2>8. CASE reg_state = "FRAME_FRAME_BLANK"
      <3>1. /\ Left = ffb - blank_counter + 1
            /\ Left' = ffb - (blank_counter + 1) + 1
            /\ blank_length = ffb
        BY <1>2, <2>1, <2>4, <2>8 DEF Left, blank_length
      <3> HIDE DEF ffb
      <3> QED
        BY <1>0, <1>1, <2>2, <2>4, <3>1 DEF Quiet
    <2> QED
      BY <1>1, <2>5, <2>6, <2>7, <2>8 DEF Blanks
  <1>5. CASE FrameEnds
    <2>1. /\ reg_state = "LINE_FRAME_BLANK" /\ reg_state' = "FRAME_FRAME_BLANK"
          /\ blank_counter = lfb /\ blank_counter' = 1
      BY <1>2, <1>5 DEF FrameEnds, blank_length
    <2>2. Left = lfb - lfb + 1 + ffb /\ Left' = ffb - 1 + 1 /\ position = Words /\ position' = Words
      BY <2>1 DEF Left, position
    <2> HIDE DEF lfb, ffb
    <2> QED
      BY <1>0, <1>1, <2>2 DEF Quiet
  <1> QED
    BY <1>4, <1>5

LEMMA PhaseStep ==
  ASSUME Rules, TopInv, Taking, SensorPlace', sensor!NEXT_STATE_LOGIC
  PROVE  /\ Phases
         /\ JustStored' => Storing
         /\ InRow => Storing \/ JustStored
         /\ frame' \in Nat /\ (FrameBegins => position = 0 \/ Again)
  <1>0. SensorPlace /\ SensorTypes /\ Scanning
    BY PlaceBasics DEF TopInv
  <1>1. /\ Ends \/ Begins \/ BlankGoesOn \/ LineBegins \/ LineGoesOn \/ LineEnds \/ FrameEnds
        /\ reg_state' = "IDLE" => reg_state = "IDLE" \/ reg_stop
        /\ reg_state = "IDLE" /\ ~reg_start => reg_state' = "IDLE"
    BY <1>0, SensorMoves
  <1>2. ~reg_stop
    BY <1>0 DEF TopInv, HostPlace, SensorPlace
  <1>3. ASSUME Ends
        PROVE  Phases
    <2>1. reg_state = "IDLE" /\ reg_state' = "IDLE"
      BY <1>1, <1>2, <1>3 DEF Ends
    <2> QED
      BY <2>1 DEF Phases, Quiet, InRow, Storing, position, Left
  <1>4. ASSUME Begins
        PROVE  Phases
    <2>1. CASE reg_state = "IDLE"
      BY <1>4, <2>1 DEF Begins, Phases, Quiet, InRow, Storing, position, Left
    <2>2. CASE reg_state = "FRAME_FRAME_BLANK"
      <3>1. blank_counter = Setting["frame_frame_blank"]
        BY <1>0, <1>4, <2>2, Scanned DEF Begins, blank_length
      <3>2. Left = Setting["frame_frame_blank"] - blank_counter + 1 /\ position = Words
        BY <2>2 DEF Left, position
      <3>3. Left = 1
        BY <3>1, <3>2, BlanksSet
      <3> QED
        BY <2>2, <3>2, <3>3 DEF Phases, Again, InRow, Storing
    <2> QED
      BY <1>4, <2>1, <2>2 DEF Begins
  <1>5. Phases
    BY <1>0, <1>1, <1>3, <1>4, LinePhase, LineEndPhase, LineBeginPhase, BlankPhase DEF Phases
  <1>6. JustStored' => Storing
    <2>1. SUFFICES ASSUME reg_state' = "VALID", ~odd(height_counter'), width_counter' > 2, odd(width_counter')
                   PROVE  Storing
      BY DEF JustStored, InRow
    <2>2. LineGoesOn
      BY <1>1, <2>1 DEF Ends, Begins, BlankGoesOn, LineBegins, LineEnds, FrameEnds, Blanks
    <2>3. ~odd(width_counter)
      BY <1>0, <2>1, <2>2, Scanned, Halves DEF LineGoesOn
    <2> QED
      BY <2>1, <2>2, <2>3 DEF LineGoesOn, Storing
  <1>7. InRow => Storing \/ JustStored
    BY DEF InRow, Storing, JustStored
  <1>8. frame' \in Nat
    BY DEF SensorPlace, Framed
  <1>9. FrameBegins => position = 0 \/ Again
    <2>1. SUFFICES ASSUME FrameBegins
                   PROVE  position = 0 \/ Again
      OBVIOUS
    <2>2. reg_state \in {"IDLE", "FRAME_FRAME_BLANK"} /\ reg_state' \notin {"IDLE", "FRAME_FRAME_BLANK"}
      BY <2>1, PlaceBasics DEF FrameBegins, fvalid, sensor!frame_valid
    <2>3. CASE reg_state = "IDLE"
      BY <2>3 DEF position
    <2>4. CASE reg_state = "FRAME_FRAME_BLANK"
      <3>1. Begins
        BY <1>1, <2>2, <2>4 DEF Ends, Begins, BlankGoesOn, LineBegins, LineGoesOn, LineEnds, FrameEnds
      <3>2. blank_counter = Setting["frame_frame_blank"]
        BY <1>0, <2>4, <3>1, Scanned DEF Begins, blank_length
      <3>3. Left = Setting["frame_frame_blank"] - blank_counter + 1 /\ position = Words
        BY <2>4 DEF Left, position
      <3>4. Left = 1
        BY <3>2, <3>3, BlanksSet
      <3> QED
        BY <2>4, <3>3, <3>4 DEF Again, InRow, Storing
    <2> QED
      BY <2>2, <2>3, <2>4
  <1> QED
    BY <1>5, <1>6, <1>7, <1>8, <1>9

-----------------------------------------------------------------------------
(* The pace of the DMA.                                                    *)

LEMMA Costs ==
  /\ MaxStall \in Nat /\ BurstLength * (MaxStall + 1) \in Nat
  /\ BurstCost = BurstLength * (MaxStall + 1) + 3 /\ BurstCost \in Nat
  BY Beats, BoundsAssumption DEF BurstCost

\* What is left of a burst after n beats and s refusals.
LEMMA RestBounds ==
  ASSUME NEW n \in 0 .. BurstLength, NEW s \in 0 .. MaxStall
  PROVE  LET rest == (BurstLength - n) * (MaxStall + 1) + 2 - s
         IN rest \in Int /\ rest <= BurstCost - 1 /\ (s = 0 \/ n < BurstLength => rest > 1)
  <1> DEFINE e == BurstLength - n
             m == MaxStall + 1
  <1>0. BurstLength \in Nat \ {0} /\ MaxStall \in Nat
    BY Beats, BoundsAssumption
  <1>1. e \in Nat /\ m \in Nat /\ e <= BurstLength /\ (n < BurstLength => e >= 1)
    BY <1>0
  <1>2. BurstCost = BurstLength * m + 3
    BY Costs
  <1>3. m = MaxStall + 1 /\ e = BurstLength - n
    OBVIOUS
  <1> HIDE DEF e, m
  <1>4. e * m \in Nat /\ e * m <= BurstLength * m
    BY <1>0, <1>1, Grows
  <1>5. e >= 1 => m <= e * m
    <2>1. e >= 1 => 1 * m <= e * m
      BY <1>1, Grows
    <2> QED
      BY <1>1, <2>1, Products
  <1>6. e * m + 2 - s \in Int /\ e * m + 2 - s <= BurstCost - 1
    BY <1>0, <1>2, <1>3, <1>4
  <1>7. n < BurstLength => e * m + 2 - s > 1
    BY <1>0, <1>1, <1>3, <1>4, <1>5
  <1>8. s = 0 => e * m + 2 - s > 1
    BY <1>4
  <1> QED
    BY <1>0, <1>6, <1>7, <1>8 DEF e, m

LEMMA Rests ==
  ASSUME TopInv
  PROVE  /\ Rest \in Nat /\ Rest >= 1 /\ Rest <= BurstCost - 1
         /\ current_state = "BURST" => Rest > 1
  <1>1. CASE current_state # "BURST"
    <2>1. Rest = 1
      BY <1>1 DEF Rest
    <2>2. BurstCost - 1 >= 1
      BY Costs
    <2> QED
      BY <1>1, <2>1, <2>2
  <1>2. CASE current_state = "BURST"
    <2>1. /\ cnt_burst \in 0 .. BurstLength /\ stall \in 0 .. MaxStall
          /\ stall = 0 \/ cnt_burst < BurstLength
      BY <1>2, Beats DEF TopInv, DmaPlace
    <2>2. Rest = (BurstLength - cnt_burst) * (MaxStall + 1) + 2 - stall
      BY <1>2 DEF Rest
    <2>3. Rest \in Int /\ Rest <= BurstCost - 1 /\ Rest > 1
      BY <2>1, <2>2, RestBounds
    <2> QED
      BY <2>3
  <1> QED
    BY <1>1, <1>2

LEMMA Works ==
  ASSUME TopInv, Active, NEW q \in Nat
  PROVE  /\ Work(q) \in Int
         /\ Work(q) = IF current_state = "WAITBURST" THEN q * BurstCost
                      ELSE (q - 1) * BurstCost + Rest
         /\ q * BurstCost \in Nat
         /\ q >= 1 => /\ (q - 1) * BurstCost \in Nat
                      /\ q * BurstCost = (q - 1) * BurstCost + BurstCost
                      /\ Work(q) >= 1 /\ Work(q) <= q * BurstCost
                      /\ Work(q) = 1 => current_state = "TASKEND" /\ q = 1
  <1>1. BurstCost \in Nat /\ BurstCost >= 3 /\ Rest \in Nat /\ Rest >= 1 /\ Rest <= BurstCost - 1
        /\ (current_state = "BURST" => Rest > 1)
    BY Costs, Rests
  <1>2. Work(q) = IF current_state = "WAITBURST" THEN q * BurstCost
                  ELSE (q - 1) * BurstCost + Rest
    BY DEF Work
  <1>3. q * BurstCost \in Nat /\ (q - 1) * BurstCost \in Int
        /\ (q - 1) * BurstCost = q * BurstCost - BurstCost
    BY <1>1, Products
  <1>4. q >= 1 => (q - 1) * BurstCost \in Nat
    <2>1. q >= 1 => q - 1 \in Nat
      OBVIOUS
    <2> QED
      BY <1>1, <2>1, Products
  <1>5. q >= 2 => BurstCost <= (q - 1) * BurstCost
    <2>1. q >= 2 => 1 * BurstCost <= (q - 1) * BurstCost
      BY <1>1, Grows
    <2> QED
      BY <1>1, <2>1, Products
  <1>6. current_state \in {"BURST", "TASKEND", "WAITBURST"}
    BY DEF TopInv, DmaPlace, Active, dma!state_type
  <1>7. (1 - 1) * BurstCost = 0
    BY <1>1, Products
  <1>8. q = 1 => (q - 1) * BurstCost = 0
    BY <1>7
  <1> QED
    BY <1>1, <1>2, <1>3, <1>4, <1>5, <1>6, <1>8

\* Outside of the rows of blocks a number of bursts is open, and there is the
\* time for them.
LEMMA Open ==
  ASSUME Rules, TopInv, Active, ~InRow
  PROVE  \E q \in Nat : \E d \in 0 .. SyncStages + 1 :
           /\ position = begun + q * dma!BurstBeats /\ SeenIn(d) /\ Work(q) + d <= Left
           /\ current_state # "WAITBURST" => q >= 1
  <1>1. PICK q \in Nat, d \in 0 .. SyncStages + 1 :
          base = begun + q * dma!BurstBeats /\ SeenIn(d) /\ Work(q) + d <= Left
    BY DEF TopInv, Paced
  <1>2. base = position
    BY Positions DEF TopInv
  <1>3. current_state # "WAITBURST" => q # 0
    <2>1. current_state # "WAITBURST" => begun < position /\ begun \in Nat
      BY Behind DEF TopInv, DmaPlace, Active, dma!state_type
    <2>2. 0 * dma!BurstBeats = 0
      BY Beats, Products
    <2> QED
      BY <1>1, <1>2, <2>1, <2>2
  <1> QED
    BY <1>1, <1>2, <1>3

\* In the last cycle of this time the words of all rows before are sent.
LEMMA RowsSent ==
  ASSUME Rules, TopInv, Active, ~InRow, Left = 1
  PROVE  /\ wr = rd /\ cnt_pixel = position
         /\ \/ current_state = "TASKEND" /\ position = begun + dma!BurstBeats
            \/ current_state = "WAITBURST" /\ position = begun
  <1>1. PICK q \in Nat, d \in 0 .. SyncStages + 1 :
          /\ position = begun + q * dma!BurstBeats /\ Work(q) + d <= Left
          /\ current_state # "WAITBURST" => q >= 1
    BY Open
  <1>2. d \in Nat /\ begun \in Nat /\ dma!BurstBeats \in Nat
    BY BoundsAssumption, Behind, Beats
  <1>3. q >= 1 => current_state = "TASKEND" /\ q = 1
    BY <1>1, <1>2, Works
  <1>4. 0 * dma!BurstBeats = 0 /\ 1 * dma!BurstBeats = dma!BurstBeats
    BY <1>2, Products
  <1>5. \/ current_state = "TASKEND" /\ position = begun + dma!BurstBeats
        \/ current_state = "WAITBURST" /\ position = begun
    BY <1>1, <1>2, <1>3, <1>4
  <1>6. cnt_pixel = position
    BY <1>5, Behind
  <1>7. wr = rd
    BY <1>6, Positions DEF TopInv, Tallied, FifoPlace
  <1> QED
    BY <1>5, <1>6, <1>7

\* No word finds the FIFO full.
LEMMA Room ==
  ASSUME Rules, TopInv, Taking, Storing
  PROVE  Active /\ wr - rd < Depth
  <1>1. reg_state = "VALID" /\ ~odd(height_counter) /\ SensorPlace
    BY DEF Storing, TopInv
  <1>2. Active
    BY <1>1 DEF TopInv, DmaPlace, SensorPlace
  <1>3. wr - rd = position - cnt_pixel /\ cnt_pixel \in Nat /\ begun \in Nat /\ begun <= cnt_pixel
    BY <1>2, Behind, Positions DEF TopInv, Tallied, DmaPlace, FifoPlace
  <1>4. BlocksPerRow \in Nat /\ BlocksPerRow <= Depth /\ Depth \in Nat /\ Depth > 0
    BY Sizes, DepthAssumption, BurstLengthAssumption
  <1> DEFINE h == half(height_counter) - 1
             j == half(width_counter - 1)
  <1>5. /\ h \in Nat /\ h < Rows /\ j \in 0 .. BlocksPerRow - 1
        /\ position = h * BlocksPerRow + j
        /\ width_counter > 2 => base = h * BlocksPerRow
    BY <1>1, InRowOf
  <1>6. InRow <=> width_counter > 2
    BY <1>1 DEF InRow
  <1> HIDE DEF h, j
  <1>7. h * BlocksPerRow \in Nat
    BY <1>5, RowFits
  <1>8. CASE InRow
    <2>1. begun >= base
      BY <1>2, <1>8 DEF TopInv, Paced
    <2> QED
      BY <1>2, <1>3, <1>4, <1>5, <1>6, <1>7, <1>8, <2>1
  <1>9. CASE ~InRow
    <2>1. width_counter = 2
      BY <1>1, <1>6, <1>9, InLine, Ones DEF Storing
    <2>2. Left = 1
      BY <1>1, <2>1 DEF Left
    <2>3. wr = rd
      BY <1>2, <1>9, <2>2, RowsSent
    <2> QED
      BY <1>2, <1>4, <2>3 DEF TopInv, FifoPlace
  <1> QED
    BY <1>8, <1>9

-----------------------------------------------------------------------------
(* An edge of the whole, part by part.                                     *)

Stores ==
  /\ wr' = IF Taking /\ Storing THEN wr + 1 ELSE wr
  /\ stream' = IF Taking /\ Storing THEN Append(stream, Block(frame, position)) ELSE stream
Shifts ==
  /\ sync' \in Seq(Nat) /\ Len(sync') = SyncStages
  /\ seen' = line[1] /\ line'[SyncStages + 1] = wr'
  /\ \A i \in 0 .. SyncStages : line'[i] = line[i + 1]
Moves ==
  /\ DmaMove /\ Stores /\ Shifts
  /\ Taking => /\ Phases /\ (JustStored' => Storing) /\ (InRow => Storing \/ JustStored)
               /\ (FrameBegins => position = 0 \/ Again)
  /\ Taking /\ ~DmaFinishes => Taking' /\ buffer' = buffer
  /\ DmaFinishes => ~Taking'
  /\ ~Taking /\ Taking' => pc' = "sensor"
  /\ SensorPlace' /\ CountFrames

\* The stages of the synchroniser shift.
LEMMA LineShifts ==
  ASSUME FifoPlace, seen' = Head(sync), sync' = Append(Tail(sync), wr)
  PROVE  Shifts
  <1> DEFINE s == SyncStages
  <1>1. s \in Nat \ {0} /\ sync \in Seq(Nat) /\ Len(sync) = s /\ wr \in Nat
    BY LineUp DEF FifoPlace
  <1> DEFINE tail == Tail(sync)
  <1>2. /\ tail \in Seq(Nat) /\ Len(tail) = s - 1 /\ Head(sync) = sync[1]
        /\ \A i \in 1 .. s - 1 : tail[i] = sync[i + 1]
    BY <1>1, HeadTailProperties, EmptySeq
  <1> HIDE DEF tail
  <1>3. /\ Append(tail, wr) \in Seq(Nat) /\ Len(Append(tail, wr)) = s
        /\ \A i \in 1 .. s - 1 : Append(tail, wr)[i] = tail[i]
        /\ Append(tail, wr)[s] = wr
    BY <1>1, <1>2, AppendProperties
  <1>4. sync' = Append(tail, wr)
    BY DEF tail
  <1>5. /\ sync' \in Seq(Nat) /\ Len(sync') = s /\ sync'[s] = wr
        /\ \A i \in 1 .. s - 1 : sync'[i] = sync[i + 1]
    BY <1>2, <1>3, <1>4
  <1>6. \A i \in 0 .. s + 1 : line'[i] = IF i = 0 THEN seen' ELSE IF i = s + 1 THEN wr' ELSE sync'[i]
    BY DEF line
  <1>7. \A i \in 0 .. s + 1 : line[i] = IF i = 0 THEN seen ELSE IF i = s + 1 THEN wr ELSE sync[i]
    BY DEF line
  <1>8. line'[s + 1] = wr' /\ seen' = line[1]
    BY <1>1, <1>2, <1>6, <1>7
  <1>9. ASSUME NEW i \in 0 .. s
        PROVE  line'[i] = line[i + 1]
    <2>1. CASE i = 0
      BY <1>1, <1>6, <1>8, <2>1
    <2>2. CASE i = s
      BY <1>1, <1>5, <1>6, <1>7, <2>2
    <2>3. CASE i \in 1 .. s - 1
      BY <1>1, <1>5, <1>6, <1>7, <2>3
    <2> QED
      BY <1>1, <2>1, <2>2, <2>3
  <1> HIDE DEF s
  <1>10. /\ sync' \in Seq(Nat) /\ Len(sync') = SyncStages
         /\ seen' = line[1] /\ line'[SyncStages + 1] = wr'
         /\ \A i \in 0 .. SyncStages : line'[i] = line[i + 1]
    BY <1>5, <1>8, <1>9 DEF s
  <1> QED
    BY <1>10 DEF Shifts

LEMMA StoresWord ==
  ASSUME Rules, TopInv, fifo!WriteEdge(wrfifo), Record
  PROVE  Stores
  <1>1. /\ state_c = "READDATA" <=> Taking /\ Storing
        /\ Taking /\ Storing => controller!wrdata(lvalid, data) = Block(frame, position)
    BY Storings
  <1>2. start_camera <=> Taking
    BY StartWires
  <1>3. wr \in Nat /\ rd \in Nat
    BY DEF TopInv, FifoPlace
  <1>4. Taking /\ Storing => ~fifo!wrfull
    BY <1>3, Room DEF fifo!wrfull
  <1>5. wr' = IF Taking /\ Storing THEN wr + 1 ELSE wr
    BY <1>1, <1>2, <1>4 DEF fifo!WriteEdge, wrfifo, controller!wrfifo, controller!average_and_combine!wrfifo
  <1>6. stream' = IF Taking /\ Storing THEN Append(stream, Block(frame, position)) ELSE stream
    BY <1>1, <1>3, <1>5 DEF Record
  <1> QED
    BY <1>5, <1>6 DEF Stores

\* What the edge of the design is, in these words.
LEMMA MovesHold ==
  ASSUME Rules, TopInv, NEW access \in accesses, NEW command \in commands, NEW w \in waitrequests,
         Clk(access, command, w)
  PROVE  /\ Moves /\ HostTypes' /\ HostPlace' /\ ControllerPlace'
         /\ done' = IF DmaFinishes THEN done \union {buffer}
                    ELSE IF pc = "start" /\ pc' = "sensor" THEN done \ {buffer} ELSE done
         /\ DmaFinishes => Taking
         /\ DmaSends => AM_write(w) /\ ~w
         /\ ~DmaSends => ~(AM_write(w) /\ ~w)
  <1>1. /\ Host(access, command) /\ sensor!ClockEdge(command)
        /\ ControllerEdge(start_camera, start_dma)
        /\ fifo!WriteEdge(wrfifo) /\ fifo!ReadEdge(DataAck(w))
        /\ seen' = Head(sync) /\ sync' = Append(Tail(sync), wr)
        /\ dma!ClockEdge(start_dma, slave!dma_dest_out, slave!dma_len_out, fifo!rdusedw, w)
        /\ slave!ClockEdge(access, dma!task_end_flag_out, 0)
        /\ stall' = IF current_state = "BURST" /\ w THEN stall + 1 ELSE 0
        /\ Record /\ CountFrames
    BY DEF Clk, PixelFifoEdge, Record
  <1>2. /\ DmaMove
        /\ DmaSends => AM_write(w) /\ ~w
        /\ ~DmaSends => ~(AM_write(w) /\ ~w)
    BY <1>1, DmaMoves
  <1>3. dma!task_end_flag_out <=> DmaFinishes
    BY <1>2, Finishing DEF DmaMove, DmaRests, DmaStarts, DmaWaits, DmaIssues, DmaSends, DmaStalls,
      DmaGoesOn, DmaFinishes, Active
  <1>4. /\ HostTypes' /\ HostPlace'
        /\ Taking /\ ~DmaFinishes => Taking' /\ buffer' = buffer
        /\ DmaFinishes => ~Taking'
        /\ ~Taking /\ Taking' => pc = "start" /\ pc' = "sensor"
        /\ done' = IF DmaFinishes THEN done \union {buffer}
                   ELSE IF pc = "start" /\ pc' = "sensor" THEN done \ {buffer} ELSE done
    BY <1>1, <1>3, HostStep
  <1>5. start_camera \in BOOLEAN /\ start_dma \in BOOLEAN
    BY DEF start_dma, start_camera, slave!start_dma_out, slave!start_camera_controller_out
  <1>6. ControllerTypes'
    BY <1>1, <1>5, PlaceBasics, ControllerTyped DEF ControllerStep
  <1>7. SensorPlace'
    BY <1>1, <1>6, SensorKept
  <1>8. ControllerPlace'
    BY <1>1, <1>7, ControllerKept
  <1>9. Taking => /\ Phases /\ (JustStored' => Storing) /\ (InRow => Storing \/ JustStored)
                  /\ (FrameBegins => position = 0 \/ Again)
    BY <1>1, <1>7, PhaseStep DEF sensor!ClockEdge
  <1>10. Stores
    BY <1>1, StoresWord
  <1>11. Shifts
    BY <1>1, LineShifts DEF TopInv
  <1>12. DmaFinishes => Taking
    BY <1>3, Finishing
  <1> QED
    BY <1>1, <1>2, <1>4, <1>7, <1>8, <1>9, <1>10, <1>11, <1>12 DEF Moves

LEMMA Activity ==
  ASSUME Rules, TopInv, Moves
  PROVE  /\ Active' <=> ~DmaRests /\ ~DmaFinishes
         /\ Active' => Taking /\ Taking' /\ (Active \/ DmaStarts) /\ (Active <=> ~DmaStarts)
         /\ DmaStarts => /\ wr = rd /\ position = 0 /\ position' = 0
                         /\ ~InRow /\ ~InRow' /\ ~Storing /\ Left' \in Nat
         /\ Active' => begun' = IF DmaStarts THEN 0
                                ELSE IF DmaGoesOn THEN begun + dma!BurstBeats ELSE begun
         /\ Active' /\ Active => rd' \in Nat /\ cnt_pixel' \in Nat /\ rd' - cnt_pixel' = rd - cnt_pixel
         /\ cnt_pixel' \in Nat /\ cnt_burst' \in Nat
  <1>0. DmaMove
    BY DEF Moves
  <1>1. /\ cnt_burst \in Nat /\ cnt_pixel \in Nat /\ rd \in Nat /\ seen \in Nat /\ wr \in Nat
        /\ dma!BurstBeats \in Nat /\ dma!BurstBeats = BurstLength + 1 /\ BurstLength \in Nat
        /\ stall \in Nat
    BY Beats DEF TopInv, DmaPlace, FifoPlace
  <1>2. Active' <=> ~DmaRests /\ ~DmaFinishes
    BY <1>0 DEF DmaMove, DmaRests, DmaStarts, DmaWaits, DmaIssues, DmaSends, DmaStalls, DmaGoesOn,
      DmaFinishes, Active
  <1>3. /\ ~DmaRests /\ ~DmaFinishes => (Active <=> ~DmaStarts)
        /\ ~DmaRests => Taking
    BY <1>0 DEF DmaMove, DmaRests, DmaStarts, DmaWaits, DmaIssues, DmaSends, DmaStalls, DmaGoesOn,
      DmaFinishes, Active, TopInv, DmaPlace
  <1>4. Taking /\ ~DmaFinishes => Taking'
    BY DEF Moves
  <1>5. DmaStarts => /\ wr = rd /\ position = 0 /\ position' = 0
                     /\ ~InRow /\ ~InRow' /\ ~Storing /\ Left' \in Nat
    <2>1. SUFFICES ASSUME DmaStarts
                   PROVE  /\ wr = rd /\ position = 0 /\ position' = 0
                          /\ ~InRow /\ ~InRow' /\ ~Storing /\ Left' \in Nat
      OBVIOUS
    <2>2. ~Active /\ Taking
      BY <2>1 DEF DmaStarts
    <2>3. wr = rd /\ reg_state = "IDLE"
      BY <2>2 DEF TopInv, DmaPlace, SensorPlace
    <2>4. position = 0 /\ ~InRow /\ ~Storing /\ Left = 0
      BY <2>3 DEF position, InRow, Storing, Left
    <2>5. Phases
      BY <2>2 DEF Moves
    <2>6. Quiet
      BY <2>4, <2>5 DEF Phases, RowBegins, RowGoesOn, RowEnds, Again
    <2> QED
      BY <2>3, <2>4, <2>6 DEF Quiet
  <1>6. /\ DmaStarts => begun' = 0
        /\ DmaWaits \/ DmaIssues \/ DmaStalls => begun' = begun
        /\ DmaGoesOn => begun' = begun + dma!BurstBeats
    BY <1>1 DEF DmaStarts, DmaWaits, DmaIssues, DmaStalls, DmaGoesOn, begun
  <1>7. DmaSends => begun' = begun
    <2>1. SUFFICES ASSUME DmaSends
                   PROVE  begun' = begun
      OBVIOUS
    <2>2. begun = cnt_pixel - cnt_burst /\ cnt_pixel' = cnt_pixel + 1 /\ cnt_burst' = cnt_burst + 1
      BY <2>1 DEF DmaSends, begun
    <2>3. CASE cnt_burst = BurstLength
      <3>1. begun' = cnt_pixel' - dma!BurstBeats
        BY <2>1, <2>3 DEF DmaSends, begun, dma!BurstBeats
      <3> QED
        BY <1>1, <2>2, <2>3, <3>1
    <2>4. CASE cnt_burst # BurstLength
      <3>1. begun' = cnt_pixel' - cnt_burst'
        BY <2>1, <2>4 DEF DmaSends, begun
      <3> QED
        BY <1>1, <2>2, <3>1
    <2> QED
      BY <2>3, <2>4
  <1>8. Active' => begun' = IF DmaStarts THEN 0
                            ELSE IF DmaGoesOn THEN begun + dma!BurstBeats ELSE begun
    BY <1>0, <1>2, <1>6, <1>7 DEF DmaMove
  <1>9. cnt_pixel' \in Nat /\ cnt_burst' \in Nat
    BY <1>0, <1>1 DEF DmaMove, DmaRests, DmaStarts, DmaWaits, DmaIssues, DmaSends, DmaStalls,
      DmaGoesOn, DmaFinishes
  <1>10. Active' /\ Active => rd' \in Nat /\ rd' - cnt_pixel' = rd - cnt_pixel
    BY <1>0, <1>1, <1>2, <1>3 DEF DmaMove, DmaStarts, DmaWaits, DmaIssues, DmaSends, DmaStalls,
      DmaGoesOn
  <1> QED
    BY <1>2, <1>3, <1>4, <1>5, <1>8, <1>9, <1>10

LEMMA DmaKept ==
  ASSUME Rules, TopInv, Moves
  PROVE  DmaPlace'
  <1>0. DmaMove /\ Stores
    BY DEF Moves
  <1>1. /\ BurstLength \in Nat \ {0} /\ MaxStall \in Nat /\ stall \in 0 .. MaxStall
        /\ cnt_burst \in Nat /\ cnt_pixel \in Nat /\ rd \in Nat /\ seen \in Nat /\ wr \in Nat
    BY Beats, BoundsAssumption DEF TopInv, DmaPlace, FifoPlace
  <1>2. current_state' \in dma!state_type /\ stall' \in 0 .. MaxStall
        /\ (current_state' # "BURST" => stall' = 0)
    BY <1>0, <1>1 DEF DmaMove, DmaRests, DmaStarts, DmaWaits, DmaIssues, DmaSends, DmaStalls,
      DmaGoesOn, DmaFinishes, dma!state_type
  <1>3. current_state' = "BURST" => cnt_burst' <= BurstLength /\ (cnt_burst' = BurstLength => stall' = 0)
    <2>1. current_state = "BURST" => cnt_burst <= BurstLength
      BY DEF TopInv, DmaPlace
    <2> QED
      BY <1>0, <1>1, <2>1 DEF DmaMove, DmaRests, DmaStarts, DmaWaits, DmaIssues, DmaSends, DmaStalls,
        DmaGoesOn, DmaFinishes
  <1>4. ASSUME Active'
        PROVE  /\ Taking' /\ reg_pixelnum' = Words
               /\ begun' \in Nat /\ Whole(begun') /\ begun' < Words
    <2>1. /\ Taking' /\ (Active <=> ~DmaStarts) /\ ~DmaRests /\ ~DmaFinishes
          /\ begun' = IF DmaStarts THEN 0
                      ELSE IF DmaGoesOn THEN begun + dma!BurstBeats ELSE begun
      BY <1>4, Activity
    <2>2. reg_pixelnum' = Words
      BY <1>0, <2>1 DEF DmaMove, DmaStarts, DmaWaits, DmaIssues, DmaSends, DmaStalls,
        DmaGoesOn, TopInv, DmaPlace
    <2>3. CASE DmaStarts
      BY <2>1, <2>2, <2>3, Sizes, WholeSums
    <2>4. CASE DmaGoesOn
      <3>1. Active /\ ~DmaStarts /\ current_state = "TASKEND" /\ cnt_pixel # Words
        BY <2>4 DEF DmaGoesOn, DmaStarts, Active
      <3>2. /\ begun \in Nat /\ Whole(begun) /\ begun + dma!BurstBeats <= Words
            /\ cnt_pixel = begun + dma!BurstBeats /\ dma!BurstBeats \in Nat
        BY <3>1, Behind, Beats
      <3>3. Whole(begun + dma!BurstBeats)
        BY <3>2, WholeSums
      <3> QED
        BY <2>1, <2>2, <2>4, <3>1, <3>2, <3>3, Sizes
    <2>5. CASE ~DmaStarts /\ ~DmaGoesOn
      <3>1. begun' = begun /\ begun \in Nat /\ Whole(begun) /\ begun < Words
        BY <2>1, <2>5, Behind
      <3> QED
        BY <2>1, <2>2, <3>1
    <2> QED
      BY <2>3, <2>4, <2>5
  <1>5. ASSUME ~Active'
        PROVE  wr' = rd' /\ (Taking' => pc' = "sensor")
    <2>1. DmaRests \/ DmaFinishes
      BY <1>5, Activity
    <2>2. CASE DmaRests
      BY <1>0, <2>2 DEF DmaRests, Stores, Moves, TopInv, DmaPlace
    <2>3. CASE DmaFinishes
      <3>1. wr = rd /\ reg_state # "VALID"
        BY <2>3, Finishing DEF DmaFinishes
      <3> QED
        BY <1>0, <2>3, <3>1 DEF DmaFinishes, Stores, Moves, Storing
    <2> QED
      BY <2>1, <2>2, <2>3
  <1>6. cnt_burst' \in Nat /\ cnt_pixel' \in Nat
    BY Activity
  <1> QED
    BY <1>2, <1>3, <1>4, <1>5, <1>6 DEF DmaPlace

\* A picture is sent before another frame begins.
LEMMA SentInTime ==
  ASSUME Rules, TopInv, Moves, Active, Active'
  PROVE  /\ ~Again
         /\ position' = IF Storing THEN position + 1 ELSE position
  <1>1. ~Again
    <2>1. SUFFICES ASSUME Again
                   PROVE  FALSE
      OBVIOUS
    <2>2. /\ cnt_pixel = Words /\ begun < Words /\ position = Words /\ begun \in Nat /\ Words \in Nat
          /\ \/ current_state = "TASKEND"
             \/ current_state = "WAITBURST" /\ position = begun
      BY <2>1, RowsSent, Behind, Sizes DEF Again
    <2>3. current_state = "TASKEND"
      BY <2>2
    <2>4. ~DmaFinishes /\ ~DmaRests
      BY Activity
    <2> QED
      BY <2>2, <2>3, <2>4 DEF Moves, DmaMove, DmaStarts, DmaWaits, DmaIssues,
        DmaSends, DmaStalls, DmaGoesOn, Active
  <1> QED
    BY <1>1, Activity DEF Moves, Phases, Quiet, RowBegins, RowGoesOn, RowEnds

LEMMA WordTyped ==
  ASSUME Rules, TopInv, Storing
  PROVE  Block(frame, position) \in BlockWords
  <1> DEFINE n == BlocksPerRow
             r == 2 * (position \div n) + 2
             c == 2 * (position % n) + 2
  <1>1. n \in Nat \ {0} /\ position \in Nat /\ frame \in Nat
    BY Sizes, Beats, Positions, PlaceBasics DEF TopInv
  <1>2. r - 1 \in Nat /\ r \in Nat /\ c - 1 \in Nat /\ c \in Nat
    BY <1>1
  <1> HIDE DEF r, c
  <1>3. BlockAt(frame, r, c) \in BlockWords
    BY <1>1, <1>2 DEF BlockAt, BlockWords, Pixel, Pixels
  <1> QED
    BY <1>3 DEF Block, r, c

LEMMA FifoKept ==
  ASSUME Rules, TopInv, Moves
  PROVE  FifoPlace'
  <1>0. DmaMove /\ Stores /\ Shifts /\ FifoPlace
    BY DEF Moves, TopInv
  <1>1. /\ SyncStages \in Nat \ {0} /\ line[0] = seen /\ line[SyncStages + 1] = wr
        /\ \A i \in 0 .. SyncStages + 1 : line[i] \in Nat /\ seen <= line[i] /\ line[i] <= wr
        /\ wr \in Nat /\ rd \in Nat /\ seen \in Nat /\ rd <= seen /\ wr - rd <= Depth
        /\ stream \in Seq(BlockWords) /\ Len(stream) = wr /\ Depth \in Nat
    BY <1>0, LineUp, DepthAssumption DEF FifoPlace
  <1>2. /\ sync' \in Seq(Nat) /\ Len(sync') = SyncStages
        /\ seen' = line[1] /\ line'[SyncStages + 1] = wr'
        /\ \A i \in 0 .. SyncStages : line'[i] = line[i + 1]
    BY <1>0 DEF Shifts
  <1>3. wr' \in Nat /\ wr' >= wr /\ rd' \in Nat /\ rd' >= rd /\ wr' - rd' <= Depth
    <2>1. /\ wr' = wr \/ (wr' = wr + 1 /\ wr - rd < Depth)
          /\ rd' = rd \/ (rd' = rd + 1)
      BY <1>0, <1>1, Room DEF Stores, DmaMove, DmaRests, DmaStarts, DmaWaits, DmaIssues, DmaSends, DmaStalls,
        DmaGoesOn, DmaFinishes
    <2> QED
      BY <1>1, <2>1
  <1>4. seen' \in Nat /\ rd' <= seen'
    <2>1. seen' \in Nat /\ seen <= seen'
      BY <1>1, <1>2
    <2>2. rd' = rd \/ (rd' = rd + 1 /\ seen > rd)
      BY <1>0 DEF DmaMove, DmaRests, DmaStarts, DmaWaits, DmaIssues, DmaSends, DmaStalls,
        DmaGoesOn, DmaFinishes
    <2> QED
      BY <1>1, <2>1, <2>2
  <1>5. ASSUME NEW i \in 0 .. SyncStages + 1, NEW j \in 0 .. SyncStages + 1, i <= j
        PROVE  line'[i] <= line'[j]
    <2>1. CASE j <= SyncStages
      <3>1. i + 1 \in 0 .. SyncStages + 1 /\ j + 1 \in 0 .. SyncStages + 1 /\ i + 1 <= j + 1
        BY <1>1, <1>5, <2>1
      <3>2. line[i + 1] <= line[j + 1]
        BY <1>0, <3>1 DEF FifoPlace
      <3> QED
        BY <1>1, <1>2, <1>5, <2>1, <3>2
    <2>2. CASE j = SyncStages + 1
      <3>1. CASE i <= SyncStages
        <4>1. line[i + 1] \in Nat /\ line[i + 1] <= wr
          BY <1>1, <3>1
        <4> QED
          BY <1>1, <1>2, <1>3, <2>2, <3>1, <4>1
      <3>2. CASE i = SyncStages + 1
        BY <1>2, <1>3, <2>2, <3>2
      <3> QED
        BY <1>1, <3>1, <3>2
    <2> QED
      BY <1>1, <2>1, <2>2
  <1>6. stream' \in Seq(BlockWords) /\ Len(stream') = wr'
    <2>1. CASE Taking /\ Storing
      <3>1. Block(frame, position) \in BlockWords
        BY <2>1, WordTyped
      <3> QED
        BY <1>0, <1>1, <2>1, <3>1, AppendProperties DEF Stores
    <2>2. CASE ~(Taking /\ Storing)
      BY <1>0, <1>1, <2>2 DEF Stores
    <2> QED
      BY <2>1, <2>2
  <1> QED
    BY <1>2, <1>3, <1>4, <1>5, <1>6 DEF FifoPlace

LEMMA TalliedKept ==
  ASSUME Rules, TopInv, Moves
  PROVE  Tallied'
  <1>1. SUFFICES ASSUME Active'
                 PROVE  wr' - rd' + cnt_pixel' = position' /\ cnt_pixel' <= rd'
    BY DEF Tallied
  <1>2. /\ Taking /\ (Active <=> ~DmaStarts) /\ ~DmaFinishes
        /\ Active => rd' \in Nat /\ cnt_pixel' \in Nat /\ rd' - cnt_pixel' = rd - cnt_pixel
    BY <1>1, Activity
  <1>3. wr' = IF Storing THEN wr + 1 ELSE wr
    BY <1>2 DEF Moves, Stores
  <1>4. wr \in Nat /\ rd \in Nat /\ cnt_pixel \in Nat /\ position \in Nat
    BY Positions DEF TopInv, FifoPlace, DmaPlace
  <1>5. CASE DmaStarts
    BY <1>3, <1>4, <1>5, Activity DEF DmaStarts
  <1>6. CASE Active
    <2>1. position' = IF Storing THEN position + 1 ELSE position
      BY <1>1, <1>6, SentInTime
    <2>5. rd' \in Nat /\ cnt_pixel' \in Nat /\ rd' - cnt_pixel' = rd - cnt_pixel
      BY <1>1, <1>2, <1>6
    <2>2. wr - rd + cnt_pixel = position /\ cnt_pixel <= rd
      BY <1>6 DEF TopInv, Tallied
    <2> DEFINE b == rd'
               c == cnt_pixel'
    <2>6. b \in Nat /\ c \in Nat /\ b - c = rd - cnt_pixel
      BY <2>5
    <2> HIDE DEF b, c
    <2>7. (wr + 1) - b + c = position + 1 /\ wr - b + c = position /\ c <= b
      BY <1>4, <2>2, <2>6
    <2> QED
      BY <1>3, <2>1, <2>7 DEF b, c
  <1> QED
    BY <1>2, <1>5, <1>6

-----------------------------------------------------------------------------
(* The pace is kept.                                                       *)

\* A place of the write pointer is that of the stage before it.
LEMMA PlacesShift ==
  ASSUME Rules, TopInv, Moves, Active, Active', NEW i \in 0 .. SyncStages
  PROVE  line'[i] - rd' + cnt_pixel' = place_of(i + 1)
  <1>1. line'[i] = line[i + 1] /\ line[i + 1] \in Nat
    BY LineUp DEF TopInv, Moves, Shifts
  <1>2. /\ rd' \in Nat /\ cnt_pixel' \in Nat /\ rd' - cnt_pixel' = rd - cnt_pixel
        /\ rd \in Nat /\ cnt_pixel \in Nat
    BY Activity DEF TopInv, FifoPlace, DmaPlace
  <1> DEFINE a == line[i + 1]
             b == rd'
             c == cnt_pixel'
  <1>3. a \in Nat /\ b \in Nat /\ c \in Nat /\ b - c = rd - cnt_pixel
        /\ rd \in Nat /\ cnt_pixel \in Nat
    BY <1>1, <1>2
  <1> HIDE DEF a, b, c
  <1>4. a - b + c = a - rd + cnt_pixel
    BY <1>3
  <1>5. line'[i] - rd' + cnt_pixel' = line[i + 1] - rd + cnt_pixel
    BY <1>1, <1>4 DEF a, b, c
  <1> QED
    BY <1>5 DEF place_of

LEMMA SpacedKept ==
  ASSUME Rules, TopInv, Moves
  PROVE  Spaced'
  <1>1. SUFFICES ASSUME Active'
                 PROVE  /\ \A i \in 0 .. SyncStages - 1 :
                             Whole(line'[i] - rd' + cnt_pixel' + 1) => line'[i] < line'[i + 2]
                        /\ JustStored' => line'[SyncStages] < wr'
    BY DEF Spaced, place_of
  <1>2. /\ SyncStages \in Nat \ {0} /\ line[0] = seen /\ line[SyncStages + 1] = wr
        /\ \A i \in 0 .. SyncStages + 1 : line[i] \in Nat /\ seen <= line[i] /\ line[i] <= wr
        /\ wr \in Nat /\ rd \in Nat /\ seen \in Nat /\ rd <= seen /\ cnt_pixel \in Nat
    BY LineUp DEF TopInv, FifoPlace, DmaPlace
  <1>3. /\ line'[SyncStages + 1] = wr' /\ \A i \in 0 .. SyncStages : line'[i] = line[i + 1]
        /\ Taking /\ Taking' /\ (Active <=> ~DmaStarts)
        /\ wr' = IF Storing THEN wr + 1 ELSE wr
    BY <1>1, Activity DEF Moves, Shifts, Stores
  <1>4. JustStored' => line'[SyncStages] < wr'
    <2>1. JustStored' => Storing
      BY <1>3 DEF Moves
    <2> QED
      BY <1>2, <1>3, <2>1
  <1>5. ASSUME NEW i \in 0 .. SyncStages - 1, Whole(line'[i] - rd' + cnt_pixel' + 1)
        PROVE  line'[i] < line'[i + 2]
    <2>1. /\ i \in 0 .. SyncStages /\ i + 1 \in 0 .. SyncStages + 1 /\ i + 1 \in 0 .. SyncStages
          /\ line'[i] = line[i + 1] /\ line[i + 1] \in Nat /\ seen <= line[i + 1] /\ line[i + 1] <= wr
      BY <1>2, <1>3
    <2>2. CASE DmaStarts
      <3>1. wr = rd /\ rd' = rd /\ cnt_pixel' = 0
        BY <2>2, Activity DEF DmaStarts
      <3>2. line'[i] - rd' + cnt_pixel' + 1 = 0 + 1
        BY <1>2, <2>1, <3>1
      <3>3. ~Whole(0 + 1)
        <4>1. Whole(0)
          BY Sizes, WholeSums
        <4> QED
          BY <4>1, WholeSums
      <3> QED
        BY <1>5, <3>2, <3>3
    <2>3. CASE Active
      <3>1. line'[i] - rd' + cnt_pixel' = place_of(i + 1)
        BY <1>1, <2>1, <2>3, PlacesShift
      <3>2. Whole(place_of(i + 1) + 1)
        BY <1>5, <3>1
      <3>3. CASE i < SyncStages - 1
        <4>1. i + 1 \in 0 .. SyncStages - 1 /\ i + 2 \in 0 .. SyncStages
          BY <1>2, <3>3
        <4>2. line[i + 1] < line[(i + 1) + 2]
          BY <2>3, <3>2, <4>1 DEF TopInv, Spaced
        <4>3. line'[i + 2] = line[(i + 2) + 1] /\ (i + 2) + 1 = (i + 1) + 2
          BY <1>3, <4>1
        <4> QED
          BY <2>1, <4>2, <4>3
      <3>4. CASE i = SyncStages - 1
        <4>1. i + 1 = SyncStages /\ i + 2 = SyncStages + 1
          BY <1>2, <3>4
        <4>2. CASE line[i + 1] < wr
          BY <1>2, <1>3, <2>1, <4>1, <4>2
        <4>3. CASE line[i + 1] = wr /\ Storing
          BY <1>2, <1>3, <2>1, <4>1, <4>3
        <4>4. ~(line[i + 1] = wr /\ ~Storing)
          <5>1. SUFFICES ASSUME line[i + 1] = wr, ~Storing
                         PROVE  FALSE
            OBVIOUS
          <5>2. place_of(i + 1) = position
            BY <2>3, <5>1 DEF place_of, TopInv, Tallied
          <5>3. Whole(position + 1)
            BY <3>2, <5>2
          <5>4. ~InRow
            <6>1. InRow => JustStored
              BY <1>3, <5>1 DEF Moves
            <6>2. JustStored => line[SyncStages] < wr
              BY <2>3 DEF TopInv, Spaced
            <6> QED
              BY <1>2, <4>1, <5>1, <6>1, <6>2
          <5>5. Whole(position) /\ position \in Nat
            BY <5>4, Positions DEF TopInv
          <5> QED
            BY <5>3, <5>5, WholeSums
        <4> QED
          BY <1>2, <2>1, <4>2, <4>3, <4>4
      <3> QED
        BY <1>2, <3>3, <3>4
    <2> QED
      BY <1>3, <2>2, <2>3
  <1> QED
    BY <1>4, <1>5

LEMMA SuppliedKept ==
  ASSUME Rules, TopInv, Moves
  PROVE  Supplied'
  <1>1. SUFFICES ASSUME current_state' = "BURST"
                 PROVE  \/ line'[0] - rd' + cnt_pixel' >= begun' + dma!BurstBeats
                        \/ /\ cnt_burst' = 0
                           /\ line'[0] - rd' + cnt_pixel' >= begun' + BurstLength
                           /\ line'[1] - rd' + cnt_pixel' >= begun' + dma!BurstBeats
    BY DEF Supplied, place_of, dma!BurstBeats
  <1>2. Active'
    BY <1>1 DEF Active
  <1>3. DmaIssues \/ DmaSends \/ DmaStalls
    BY <1>1 DEF Moves, DmaMove, DmaRests, DmaStarts, DmaWaits, DmaIssues, DmaSends, DmaStalls, DmaGoesOn,
      DmaFinishes
  <1>4. Active /\ ~DmaStarts /\ ~DmaGoesOn
    BY <1>3 DEF DmaIssues, DmaSends, DmaStalls, Active, DmaStarts, DmaGoesOn
  <1>5. begun' = begun /\ begun \in Nat /\ cnt_pixel \in Nat
    BY <1>2, <1>4, Activity DEF TopInv, DmaPlace
  <1>6. /\ SyncStages \in Nat \ {0} /\ line[0] = seen
        /\ \A i \in 0 .. SyncStages + 1 : line[i] \in Nat
        /\ seen <= line[1] /\ line[1] <= line[2] /\ seen \in Nat /\ rd \in Nat
    <2>1. SyncStages \in Nat \ {0} /\ 1 \in 0 .. SyncStages + 1 /\ 2 \in 0 .. SyncStages + 1
      BY LineUp DEF TopInv
    <2>2. line[1] <= line[2]
      BY <2>1 DEF TopInv, FifoPlace
    <2> QED
      BY <2>1, <2>2, LineUp DEF TopInv, FifoPlace
  <1>7. /\ line'[0] - rd' + cnt_pixel' = place_of(1)
        /\ line'[1] - rd' + cnt_pixel' = place_of(2)
    <2>1. 0 \in 0 .. SyncStages /\ 1 \in 0 .. SyncStages
      BY <1>6
    <2>2. line'[0] - rd' + cnt_pixel' = place_of(0 + 1) /\ line'[1] - rd' + cnt_pixel' = place_of(1 + 1)
      BY <1>2, <1>4, <2>1, PlacesShift
    <2> QED
      BY <2>2
  <1>8. /\ place_of(0) = seen - rd + cnt_pixel /\ place_of(1) = line[1] - rd + cnt_pixel
        /\ place_of(2) = line[2] - rd + cnt_pixel /\ line[1] \in Nat /\ line[2] \in Nat
    BY <1>6 DEF place_of
  <1>9. /\ place_of(0) \in Int /\ place_of(1) \in Int /\ place_of(2) \in Int
        /\ place_of(0) <= place_of(1) /\ place_of(1) <= place_of(2)
    BY <1>5, <1>6, <1>8
  <1>10. dma!BurstBeats = BurstLength + 1 /\ BurstLength \in Nat
    BY Beats
  <1>11. CASE DmaIssues
    <2>1. cnt_pixel = begun /\ seen - rd >= BurstLength /\ cnt_burst' = 0
      BY <1>4, <1>11, Behind DEF DmaIssues
    <2>2. place_of(0) >= begun + BurstLength
      BY <1>5, <1>6, <1>8, <1>10, <2>1
    <2>3. CASE place_of(1) >= begun + dma!BurstBeats
      BY <1>5, <1>7, <2>3
    <2>4. CASE ~(place_of(1) >= begun + dma!BurstBeats)
      <3>1. place_of(0) = begun + BurstLength /\ place_of(1) = begun + BurstLength
        BY <1>5, <1>9, <1>10, <2>2, <2>4
      <3>2. place_of(0) + 1 = begun + dma!BurstBeats
        BY <1>5, <1>10, <3>1
      <3>3. Whole(place_of(0) + 1)
        BY <1>4, <3>2, Behind, WholeSums
      <3>4. line[0] < line[0 + 2]
        <4>1. 0 \in 0 .. SyncStages - 1
          BY <1>6
        <4> QED
          BY <1>4, <3>3, <4>1 DEF TopInv, Spaced
      <3>5. place_of(2) >= begun + dma!BurstBeats
        BY <1>5, <1>6, <1>8, <1>10, <3>1, <3>4
      <3> QED
        BY <1>5, <1>7, <1>9, <1>10, <2>1, <3>1, <3>5
    <2> QED
      BY <2>3, <2>4
  <1>12. CASE DmaSends \/ DmaStalls
    <2>1. current_state = "BURST"
      BY <1>12 DEF DmaSends, DmaStalls
    <2>2. place_of(1) >= begun + dma!BurstBeats
      <3>1. \/ place_of(0) >= begun + dma!BurstBeats
            \/ place_of(1) >= begun + dma!BurstBeats
        BY <2>1 DEF TopInv, Supplied
      <3> QED
        BY <1>5, <1>9, <1>10, <3>1
    <2> QED
      BY <1>5, <1>7, <2>2
  <1> QED
    BY <1>3, <1>11, <1>12

LEMMA LeftTyped ==
  ASSUME Rules, TopInv
  PROVE  Left \in Int
  <1>1. /\ Setting["frame_width"] \in Nat /\ Setting["line_line_blank"] \in Nat
        /\ Setting["frame_frame_blank"] \in Nat /\ Setting["line_frame_blank"] \in Nat
        /\ width_counter \in Nat /\ blank_counter \in Nat
    BY BlanksSet, Scanned DEF TopInv
  <1> QED
    BY <1>1 DEF Left

\* What the stages have seen they see a cycle later, one stage further.
LEMMA SeenShifts ==
  ASSUME Rules, TopInv, Moves, ~(Taking /\ Storing), NEW d \in 0 .. SyncStages + 1, SeenIn(d)
  PROVE  \E e \in 0 .. SyncStages + 1 : SeenIn(e)' /\ e = (IF d = 0 THEN 0 ELSE d - 1)
  <1>1. /\ SyncStages \in Nat \ {0} /\ line'[SyncStages + 1] = wr' /\ wr' = wr
        /\ \A i \in 0 .. SyncStages : line'[i] = line[i + 1]
    BY BoundsAssumption DEF Moves, Shifts, Stores
  <1>2. PICK e \in 0 .. SyncStages + 1 : e = IF d = 0 THEN 0 ELSE d - 1
    BY <1>1
  <1>3. ASSUME NEW i \in e .. SyncStages + 1
        PROVE  line'[i] = wr'
    <2>1. CASE i = SyncStages + 1
      BY <1>1, <2>1
    <2>2. CASE i # SyncStages + 1
      <3>1. i \in 0 .. SyncStages /\ i + 1 \in d .. SyncStages + 1
        BY <1>1, <1>2, <2>2
      <3> QED
        BY <1>1, <3>1 DEF SeenIn
    <2> QED
      BY <2>1, <2>2
  <1>4. SeenIn(e)'
    BY <1>3 DEF SeenIn
  <1> QED
    BY <1>2, <1>4

\* Unless it waits for words the DMA gets on with its work.
LEMMA WorkDone ==
  ASSUME Rules, TopInv, Moves, Active, Active', ~DmaWaits, NEW q \in Nat, q >= 1
  PROVE  \E p \in Nat : /\ begun + q * dma!BurstBeats = begun' + p * dma!BurstBeats
                        /\ Work(p)' <= Work(q) - 1 /\ Work(p)' \in Int
  <1> DEFINE C == BurstCost
             M == MaxStall
  <1>1. /\ dma!BurstBeats \in Nat /\ begun \in Nat /\ C \in Nat /\ M \in Nat
        /\ BurstLength \in Nat \ {0} /\ C = BurstLength * (M + 1) + 3
        /\ cnt_burst \in Nat /\ stall \in 0 .. M
    BY Behind, Beats, Costs DEF TopInv, DmaPlace
  <1>2. /\ Work(q) \in Int /\ (q - 1) * C \in Nat /\ q * C = (q - 1) * C + C
        /\ Work(q) = IF current_state = "WAITBURST" THEN q * C ELSE (q - 1) * C + Rest
    BY Works
  <1>3. Rest \in Nat
    BY Rests
  <1>4. \A p \in Nat : Work(p)' = IF current_state' = "WAITBURST" THEN p * C ELSE (p - 1) * C + Rest'
    BY DEF Work
  <1>5. begun' = IF DmaGoesOn THEN begun + dma!BurstBeats ELSE begun
    BY Activity DEF DmaStarts
  <1>6. DmaIssues \/ DmaSends \/ DmaStalls \/ DmaGoesOn
    BY Activity DEF Moves, DmaMove, DmaStarts
  <1>7. CASE DmaGoesOn
    <2>1. /\ current_state = "TASKEND" /\ current_state' = "WAITBURST"
      BY <1>7 DEF DmaGoesOn
    <2>2. Rest = 1
      BY <2>1 DEF Rest
    <2>3. q - 1 \in Nat
      OBVIOUS
    <2>4. Work(q - 1)' = (q - 1) * C
      BY <1>4, <2>1, <2>3
    <2>5. begun + q * dma!BurstBeats = begun' + (q - 1) * dma!BurstBeats
      <3>1. (q - 1) * dma!BurstBeats = q * dma!BurstBeats - dma!BurstBeats /\ q * dma!BurstBeats \in Int
        BY <1>1, Products
      <3> QED
        BY <1>1, <1>5, <1>7, <3>1
    <2>6. Work(q - 1)' <= Work(q) - 1 /\ Work(q - 1)' \in Int
      BY <1>2, <2>1, <2>2, <2>4
    <2> QED
      BY <2>3, <2>5, <2>6
  <1>8. ASSUME ~DmaGoesOn, Rest' \in Int, current_state' # "WAITBURST", Work(q) >= (q - 1) * C + Rest' + 1
        PROVE  \E p \in Nat : /\ begun + q * dma!BurstBeats = begun' + p * dma!BurstBeats
                              /\ Work(p)' <= Work(q) - 1 /\ Work(p)' \in Int
    <2>1. begun + q * dma!BurstBeats = begun' + q * dma!BurstBeats
      BY <1>5, <1>8
    <2>2. Work(q)' = (q - 1) * C + Rest'
      BY <1>4, <1>8
    <2>3. Work(q)' <= Work(q) - 1 /\ Work(q)' \in Int
      BY <1>2, <1>8, <2>2
    <2> QED
      BY <2>1, <2>3
  <1>9. CASE DmaIssues
    <2>1. current_state = "WAITBURST" /\ current_state' = "BURST" /\ cnt_burst' = 0 /\ stall' = 0 /\ ~DmaGoesOn
      BY <1>9 DEF DmaIssues, DmaGoesOn
    <2>2. Rest' = (BurstLength - 0) * (M + 1) + 2 - 0
      BY <2>1 DEF Rest
    <2>3. Rest' = C - 1
      BY <1>1, <2>2, Products
    <2>4. Work(q) = q * C
      BY <1>2, <2>1
    <2> QED
      BY <1>1, <1>2, <1>8, <2>1, <2>3, <2>4
  <1>10. CASE DmaStalls
    <2>1. /\ current_state = "BURST" /\ current_state' = "BURST" /\ ~DmaGoesOn
          /\ cnt_burst' = cnt_burst /\ stall' = stall + 1
      BY <1>10 DEF DmaStalls, DmaGoesOn
    <2> DEFINE x == (BurstLength - cnt_burst) * (M + 1)
    <2>2. Rest = x + 2 - stall /\ Rest' = x + 2 - (stall + 1)
      BY <2>1 DEF Rest
    <2>3. x \in Int
      BY <1>1, Products
    <2> HIDE DEF x
    <2>4. Rest' = Rest - 1
      BY <1>1, <2>2, <2>3
    <2>5. Work(q) = (q - 1) * C + Rest
      BY <1>2, <2>1
    <2> QED
      BY <1>2, <1>3, <1>8, <2>1, <2>4, <2>5
  <1>11. CASE DmaSends /\ cnt_burst # BurstLength
    <2>1. /\ current_state = "BURST" /\ current_state' = "BURST" /\ ~DmaGoesOn
          /\ cnt_burst' = cnt_burst + 1 /\ stall' = 0
      BY <1>11 DEF DmaSends, DmaGoesOn
    <2> DEFINE e == BurstLength - cnt_burst
               x == e * (M + 1)
    <2>2. Rest = x + 2 - stall /\ Rest' = (BurstLength - (cnt_burst + 1)) * (M + 1) + 2 - 0
      BY <2>1 DEF Rest
    <2>3. e \in Int /\ BurstLength - (cnt_burst + 1) = e - 1
      BY <1>1
    <2> HIDE DEF e
    <2>4. x \in Int /\ (e - 1) * (M + 1) = x - (M + 1)
      BY <1>1, <2>3, Products
    <2>5. Rest' = x - (M + 1) + 2
      BY <1>1, <2>2, <2>3, <2>4
    <2> HIDE DEF x
    <2>6. Rest' <= Rest - 1 /\ Rest' \in Int
      BY <1>1, <2>2, <2>4, <2>5
    <2>7. Work(q) = (q - 1) * C + Rest
      BY <1>2, <2>1
    <2> QED
      BY <1>2, <1>3, <1>8, <2>1, <2>6, <2>7
  <1>12. CASE DmaSends /\ cnt_burst = BurstLength
    <2>1. /\ current_state = "BURST" /\ current_state' = "TASKEND" /\ ~DmaGoesOn
      BY <1>12 DEF DmaSends, DmaGoesOn
    <2>2. Rest > 1 /\ Rest' = 1
      BY <2>1, Rests DEF Rest
    <2>3. Work(q) = (q - 1) * C + Rest
      BY <1>2, <2>1
    <2> QED
      BY <1>2, <1>3, <1>8, <2>1, <2>2, <2>3
  <1> QED
    BY <1>6, <1>7, <1>9, <1>10, <1>11, <1>12

\* A cycle without a new word is a cycle less to go.
LEMMA WorkStep ==
  ASSUME Rules, TopInv, Moves, Active, Active', ~Storing,
         NEW q \in Nat, NEW d \in 0 .. SyncStages + 1,
         position = begun + q * dma!BurstBeats, SeenIn(d),
         current_state # "WAITBURST" => q >= 1
  PROVE  \E p \in Nat : \E e \in 0 .. SyncStages + 1 :
           /\ position = begun' + p * dma!BurstBeats /\ SeenIn(e)'
           /\ Work(p)' + e <= 0 \/ Work(p)' + e <= Work(q) + d - 1
  <1>1. PICK e \in 0 .. SyncStages + 1 : SeenIn(e)' /\ e = (IF d = 0 THEN 0 ELSE d - 1)
    BY SeenShifts
  <1>2. /\ SyncStages \in Nat \ {0} /\ line[0] = seen /\ wr \in Nat /\ rd \in Nat /\ seen \in Nat
        /\ seen <= wr /\ d \in Nat /\ e \in Nat
    BY LineUp DEF TopInv, FifoPlace
  <1>3. Work(q) \in Int
    BY Works
  <1>4. /\ dma!BurstBeats \in Nat /\ BurstLength \in Nat \ {0} /\ dma!BurstBeats = BurstLength + 1
        /\ q * dma!BurstBeats \in Int
    BY Beats, Products
  <1>5. current_state = "WAITBURST" => wr - rd = q * dma!BurstBeats
    <2>1. SUFFICES ASSUME current_state = "WAITBURST"
                   PROVE  wr - rd = q * dma!BurstBeats
      OBVIOUS
    <2>2. cnt_pixel = begun /\ begun \in Nat
      BY <2>1, Behind
    <2>3. wr - rd + cnt_pixel = position
      BY DEF TopInv, Tallied
    <2> HIDE DEF begun
    <2> QED
      BY <1>2, <1>4, <2>2, <2>3
  <1>6. CASE DmaWaits
    <2>1. current_state = "WAITBURST" /\ current_state' = "WAITBURST" /\ seen - rd < BurstLength
          /\ ~DmaGoesOn
      BY <1>6 DEF DmaWaits, DmaGoesOn
    <2>2. begun' = begun
      BY <2>1, Activity DEF DmaStarts
    <2>3. Work(q)' = q * BurstCost /\ Work(q) = q * BurstCost
      BY <2>1 DEF Work
    <2>4. d = 0 => q = 0
      <3>1. SUFFICES ASSUME d = 0, q >= 1
                     PROVE  FALSE
        OBVIOUS
      <3>2. seen = wr
        BY <1>2, <3>1 DEF SeenIn
      <3>3. 1 * dma!BurstBeats <= q * dma!BurstBeats
        BY <1>4, <3>1, Grows
      <3> QED
        BY <1>2, <1>4, <1>5, <2>1, <3>2, <3>3
    <2>5. 0 * BurstCost = 0
      BY Costs, Products
    <2>6. Work(q)' + e <= 0 \/ Work(q)' + e <= Work(q) + d - 1
      <3>1. CASE d = 0
        <4>1. e = 0 /\ Work(q)' = 0
          BY <1>1, <2>3, <2>4, <2>5, <3>1
        <4> QED
          BY <4>1
      <3>2. CASE d # 0
        <4>1. e = d - 1 /\ Work(q)' = Work(q)
          BY <1>1, <2>3, <3>2
        <4> QED
          BY <1>2, <1>3, <4>1
      <3> QED
        BY <3>1, <3>2
    <2>7. position = begun' + q * dma!BurstBeats
      BY <2>2
    <2> QED
      BY <1>1, <2>6, <2>7
  <1>7. CASE ~DmaWaits
    <2>1. q >= 1
      <3>1. CASE current_state # "WAITBURST"
        BY <3>1
      <3>2. CASE current_state = "WAITBURST" /\ q = 0
        <4>1. DmaIssues
          BY <1>7, <3>2 DEF Moves, DmaMove, DmaRests, DmaStarts, DmaSends, DmaStalls, DmaGoesOn,
            DmaFinishes, Active
        <4>2. seen - rd >= BurstLength /\ wr - rd = 0
          BY <1>4, <1>5, <3>2, <4>1, Products DEF DmaIssues
        <4> QED
          BY <1>2, <1>4, <4>2
      <3> QED
        BY <3>1, <3>2
    <2>2. PICK p \in Nat : /\ begun + q * dma!BurstBeats = begun' + p * dma!BurstBeats
                           /\ Work(p)' <= Work(q) - 1 /\ Work(p)' \in Int
      BY <1>7, <2>1, WorkDone
    <2>3. position = begun' + p * dma!BurstBeats
      BY <2>2
    <2>4. Work(p)' + e <= Work(q) + d - 1
      BY <1>1, <1>2, <1>3, <2>2
    <2> QED
      BY <1>1, <2>3, <2>4
  <1> QED
    BY <1>6, <1>7

\* A row of blocks that is over leaves time enough to send it.
LEMMA RowOpens ==
  ASSUME Rules, TopInv, Moves, Active, Active', RowEnds
  PROVE  \E q \in Nat : \E d \in 0 .. SyncStages + 1 :
           position' = begun' + q * dma!BurstBeats /\ SeenIn(d)' /\ Work(q)' + d <= Left'
  <1> DEFINE P == BlocksPerRow
             C == BurstCost
  <1>1. PICK bursts \in 1 .. P :
          /\ P = bursts * dma!BurstBeats
          /\ RowCost(bursts) <= Setting["frame_width"] + 2 * Setting["line_line_blank"] + 2
          /\ RowCost(bursts) <= Setting["line_frame_blank"] + Setting["frame_frame_blank"]
    BY DEF Rules, InPace
  <1>2. /\ P \in Nat /\ Whole(P) /\ dma!BurstBeats \in Nat /\ dma!BurstBeats > 1 /\ C \in Nat
        /\ SyncStages \in Nat /\ bursts \in Nat
    BY <1>1, Sizes, Beats, Costs, BoundsAssumption
  <1>3. /\ begun' \in Nat /\ Whole(begun')
        /\ current_state' = "BURST" => cnt_burst' \in 0 .. BurstLength
        /\ stall' \in 0 .. MaxStall /\ (current_state' # "BURST" => stall' = 0)
    BY DmaKept, Beats DEF DmaPlace
  <1>4. /\ base \in 0 .. position /\ Whole(base) /\ position \in 0 .. Words /\ Words \in Nat
    BY Positions, Sizes DEF TopInv
  <1>5. position' = position + 1 /\ position' = base + P /\ InRow
    BY DEF RowEnds
  <1>6. begun >= base
    BY <1>5 DEF TopInv, Paced
  <1>7. /\ begun \in Nat /\ begun <= position /\ cnt_pixel \in Nat /\ cnt_pixel <= position
        /\ DmaGoesOn => begun + dma!BurstBeats = cnt_pixel
    <2>1. begun \in Nat /\ begun <= cnt_pixel /\ cnt_pixel <= position /\ cnt_pixel \in Nat
      BY Behind DEF TopInv, DmaPlace
    <2>2. DmaGoesOn => begun + dma!BurstBeats = cnt_pixel
      BY Behind DEF DmaGoesOn
    <2> HIDE DEF begun
    <2> QED
      BY <1>4, <2>1, <2>2
  <1>8. begun' >= base /\ begun' <= position'
    <2>1. begun' = IF DmaGoesOn THEN begun + dma!BurstBeats ELSE begun
      BY Activity DEF DmaStarts
    <2>2. CASE DmaGoesOn
      BY <1>2, <1>4, <1>5, <1>6, <1>7, <2>1, <2>2
    <2>3. CASE ~DmaGoesOn
      BY <1>4, <1>5, <1>6, <1>7, <2>1, <2>3
    <2> QED
      BY <2>2, <2>3
  <1>9. position' \in Nat /\ Whole(position')
    <2>1. base \in Nat /\ base + P \in Nat
      BY <1>2, <1>4
    <2>2. Whole(base + P)
      BY <1>2, <1>4, <2>1, WholeAdds
    <2> QED
      BY <1>5, <2>1, <2>2, Zenon
  <1>10. PICK q \in Nat : position' = begun' + q * dma!BurstBeats
    <2> DEFINE a == begun'
               b == position'
    <2>1. a \in Nat /\ b \in Nat /\ Whole(a) /\ Whole(b) /\ a <= b
      BY <1>3, <1>8, <1>9
    <2> HIDE DEF a, b
    <2>2. \E q \in Nat : b = a + q * dma!BurstBeats
      BY <2>1, WholeGap
    <2> QED
      BY <2>2 DEF a, b
  <1>11. q <= bursts
    <2>1. SUFFICES ASSUME bursts + 1 <= q
                   PROVE  FALSE
      BY <1>2
    <2>2. (bursts + 1) * dma!BurstBeats <= q * dma!BurstBeats
      BY <1>2, <2>1, Grows
    <2>3. (bursts + 1) * dma!BurstBeats = P + dma!BurstBeats
      BY <1>1, <1>2, Products
    <2> DEFINE x == q * dma!BurstBeats
               a == begun'
    <2>4. x \in Int /\ P + dma!BurstBeats <= x /\ a \in Nat /\ a >= base
      BY <1>2, <1>3, <1>8, <2>2, <2>3, Products
    <2>5. base + P = a + x
      BY <1>5, <1>10
    <2> HIDE DEF P, x, a
    <2> QED
      BY <1>2, <1>4, <2>4, <2>5
  <1>12. q * C <= bursts * C /\ q * C \in Nat /\ bursts * C \in Nat
    BY <1>2, <1>11, Grows
  <1>13. Work(q)' <= q * C /\ Work(q)' \in Int
    <2>1. Work(q)' = IF current_state' = "WAITBURST" THEN q * C ELSE (q - 1) * C + Rest'
      BY DEF Work
    <2>2. (q - 1) * C = q * C - C
      BY <1>2, Products
    <2>3. Rest' \in Int /\ Rest' <= C - 1
      <3>1. CASE current_state' = "BURST"
        <4>1. Rest' = (BurstLength - cnt_burst') * (MaxStall + 1) + 2 - stall'
          BY <3>1 DEF Rest
        <4> DEFINE n == cnt_burst'
                   s == stall'
        <4>2. n \in 0 .. BurstLength /\ s \in 0 .. MaxStall
          BY <1>3, <3>1
        <4> HIDE DEF n, s
        <4>3. LET rest == (BurstLength - n) * (MaxStall + 1) + 2 - s
              IN rest \in Int /\ rest <= BurstCost - 1
          BY <4>2, RestBounds
        <4> QED
          BY <4>1, <4>3 DEF n, s
      <3>2. CASE current_state' # "BURST"
        <4>1. Rest' = 1
          BY <3>2 DEF Rest
        <4> QED
          BY <4>1, Costs
      <3> QED
        BY <3>1, <3>2
    <2> DEFINE x == q * C
               r == Rest'
    <2>4. Work(q)' = IF current_state' = "WAITBURST" THEN x ELSE x - C + r
      BY <2>1, <2>2
    <2>5. x \in Nat /\ r \in Int /\ r <= C - 1
      BY <1>12, <2>3
    <2> HIDE DEF x, r, C
    <2>6. Work(q)' <= x /\ Work(q)' \in Int
      BY <1>2, <2>4, <2>5
    <2> QED
      BY <2>6 DEF x
  <1>14. RowCost(bursts) = bursts * C + SyncStages + 1
    BY DEF RowCost
  <1>15. RowCost(bursts) <= Left'
    BY <1>1 DEF RowEnds
  <1>16. Left' \in Int
    BY BlanksSet DEF RowEnds
  <1>17. SyncStages + 1 \in 0 .. SyncStages + 1
    BY <1>2
  <1>18. SeenIn(SyncStages + 1)'
    <2>1. line'[SyncStages + 1] = wr'
      BY DEF Moves, Shifts
    <2>2. \A i \in SyncStages + 1 .. SyncStages + 1 : i = SyncStages + 1
      BY <1>2
    <2> QED
      BY <2>1, <2>2 DEF SeenIn
  <1>19. Work(q)' + (SyncStages + 1) <= Left'
    <2> HIDE DEF C
    <2> QED
      BY <1>2, <1>12, <1>13, <1>14, <1>15, <1>16
  <1> QED
    BY <1>10, <1>17, <1>18, <1>19

LEMMA PacedKept ==
  ASSUME Rules, TopInv, Moves
  PROVE  Paced'
  <1>1. SUFFICES ASSUME Active'
                 PROVE  IF InRow' THEN begun' >= base'
                        ELSE \E q \in Nat : \E d \in 0 .. SyncStages + 1 :
                               /\ base' = begun' + q * dma!BurstBeats
                               /\ SeenIn(d)' /\ Work(q)' + d <= Left'
    BY DEF Paced
  <1>2. Taking /\ (Active <=> ~DmaStarts)
    BY <1>1, Activity
  <1>3. Phases
    BY <1>2 DEF Moves
  <1>4. ~InRow' => base' = position'
    BY DEF base
  <1>5. dma!BurstBeats \in Nat /\ SyncStages \in Nat \ {0}
    BY Beats, BoundsAssumption
  <1>6. CASE DmaStarts
    <2>1. /\ wr = rd /\ position' = 0 /\ ~InRow' /\ ~Storing /\ Left' \in Nat /\ begun' = 0
          /\ current_state' = "WAITBURST"
      BY <1>1, <1>6, Activity DEF DmaStarts
    <2>2. SeenIn(0)
      BY <2>1, LineUp DEF TopInv, FifoPlace, SeenIn
    <2>3. 0 \in 0 .. SyncStages + 1
      BY <1>5
    <2>4. SeenIn(0)'
      <3>1. PICK e \in 0 .. SyncStages + 1 : SeenIn(e)' /\ e = 0
        BY <2>1, <2>2, <2>3, SeenShifts
      <3> QED
        BY <3>1
    <2>5. Work(0)' = 0 * BurstCost
      BY <2>1 DEF Work
    <2>6. 0 * BurstCost = 0 /\ 0 * dma!BurstBeats = 0
      BY <1>5, Costs, Products
    <2>7. base' = begun' + 0 * dma!BurstBeats /\ Work(0)' + 0 <= Left'
      BY <1>4, <2>1, <2>5, <2>6
    <2> QED
      BY <2>1, <2>3, <2>4, <2>7
  <1>7. CASE Active /\ Quiet
    <2>1. ~InRow /\ ~Storing /\ ~InRow' /\ position' = position /\ Left' \in Nat /\ Left' >= Left - 1
      BY <1>7 DEF Quiet
    <2>2. PICK q \in Nat, d \in 0 .. SyncStages + 1 :
            /\ position = begun + q * dma!BurstBeats /\ SeenIn(d) /\ Work(q) + d <= Left
            /\ current_state # "WAITBURST" => q >= 1
      BY <1>7, <2>1, Open
    <2>3. PICK p \in Nat, e \in 0 .. SyncStages + 1 :
            /\ position = begun' + p * dma!BurstBeats /\ SeenIn(e)'
            /\ Work(p)' + e <= 0 \/ Work(p)' + e <= Work(q) + d - 1
      BY <1>1, <1>7, <2>1, <2>2, WorkStep
    <2>4. Work(p)' \in Int
      <3>1. Work(p)' = IF current_state' = "WAITBURST" THEN p * BurstCost ELSE (p - 1) * BurstCost + Rest'
        BY DEF Work
      <3>2. p * BurstCost \in Int /\ (p - 1) * BurstCost \in Int
        BY Costs, Products
      <3>3. Rest' \in Int
        <4>1. cnt_burst' \in Nat /\ stall' \in 0 .. MaxStall /\ BurstLength \in Nat /\ MaxStall \in Nat
          BY DmaKept, Beats, BoundsAssumption DEF DmaPlace
        <4>2. (BurstLength - cnt_burst') * (MaxStall + 1) \in Int
          BY <4>1, Products
        <4>3. Rest' = IF current_state' = "BURST"
                      THEN (BurstLength - cnt_burst') * (MaxStall + 1) + 2 - stall' ELSE 1
          BY DEF Rest
        <4> QED
          BY <4>1, <4>2, <4>3
      <3> QED
        BY <3>1, <3>2, <3>3
    <2>5. Work(q) \in Int /\ Left \in Int /\ d \in Int /\ e \in Int
      BY <1>5, <1>7, Works, LeftTyped
    <2>6. Work(p)' + e <= Left'
      BY <2>1, <2>2, <2>3, <2>4, <2>5
    <2>7. base' = begun' + p * dma!BurstBeats
      BY <1>4, <2>1, <2>3
    <2> QED
      BY <2>1, <2>3, <2>6, <2>7
  <1>8. CASE Active /\ RowBegins
    <2>1. InRow' /\ base' = position
      BY <1>8 DEF RowBegins
    <2>2. \/ current_state = "TASKEND" /\ position = begun + dma!BurstBeats
          \/ current_state = "WAITBURST" /\ position = begun
      BY <1>8, RowsSent DEF RowBegins
    <2>3. current_state = "TASKEND" => DmaGoesOn
      BY <1>1, Activity DEF Moves, DmaMove, DmaRests, DmaStarts, DmaWaits, DmaIssues, DmaSends,
        DmaStalls, Active
    <2>4. current_state = "WAITBURST" => ~DmaGoesOn
      BY DEF DmaGoesOn
    <2>5. begun' = position /\ position \in Nat
      BY <1>1, <1>2, <1>8, <2>2, <2>3, <2>4, Activity, Positions DEF TopInv
    <2> QED
      BY <2>1, <2>5
  <1>9. CASE Active /\ RowGoesOn
    <2>1. InRow /\ InRow' /\ base' = base
      BY <1>9 DEF RowGoesOn
    <2>2. begun >= base /\ begun \in Nat /\ base \in Nat
      BY <1>9, <2>1, Behind, Positions DEF TopInv, Paced
    <2>3. begun' = IF DmaGoesOn THEN begun + dma!BurstBeats ELSE begun
      BY <1>1, <1>2, <1>9, Activity
    <2>4. begun' >= base
      BY <1>5, <2>2, <2>3
    <2> QED
      BY <2>1, <2>4
  <1>10. CASE Active /\ RowEnds
    <2>1. ~InRow'
      BY <1>10 DEF RowEnds
    <2> QED
      BY <1>1, <1>4, <1>10, <2>1, RowOpens
  <1>11. ~(Active /\ Again)
    BY <1>1, SentInTime
  <1> QED
    BY <1>2, <1>3, <1>6, <1>7, <1>8, <1>9, <1>10, <1>11 DEF Phases

-----------------------------------------------------------------------------
(* Every word is the one of its place.                                     *)

\* Pictures under way are of the frame they began with.
LEMMA SameFrame ==
  ASSUME Rules, TopInv, Moves, Active, Active'
  PROVE  /\ FrameBegins => position = 0 /\ ~Storing
         /\ ~FrameBegins => frame' = frame
         /\ buffer' = buffer
  <1>1. FrameBegins => position = 0
    BY Activity, SentInTime DEF Moves
  <1>2. FrameBegins => ~Storing
    BY PlaceBasics DEF FrameBegins, fvalid, sensor!frame_valid, Storing
  <1>3. ~FrameBegins => frame' = frame
    BY DEF Moves, CountFrames
  <1>4. buffer' = buffer
    BY Activity DEF Moves
  <1> QED
    BY <1>1, <1>2, <1>3, <1>4

LEMMA GatheredKept ==
  ASSUME Rules, TopInv, Moves
  PROVE  Gathered'
  <1>1. SUFFICES ASSUME Active', NEW i \in 0 .. position' - 1
                 PROVE  stream'[wr' - position' + i + 1] = Block(frame', i)
    BY DEF Gathered
  <1>2. Taking /\ (Active <=> ~DmaStarts) /\ (DmaStarts => position' = 0)
    BY <1>1, Activity
  <1>3. Active
    BY <1>1, <1>2
  <1>4. /\ position' = IF Storing THEN position + 1 ELSE position
        /\ position \in Nat
    BY <1>1, <1>3, SentInTime, Positions DEF TopInv
  <1>5. /\ wr \in Nat /\ rd \in Nat /\ cnt_pixel \in Nat /\ stream \in Seq(BlockWords) /\ Len(stream) = wr
        /\ wr - rd + cnt_pixel = position /\ cnt_pixel <= rd
    BY <1>3 DEF TopInv, FifoPlace, DmaPlace, Tallied
  <1>6. wr - position \in Nat
    BY <1>4, <1>5
  <1>7. frame' = frame
    BY <1>1, <1>3, <1>4, SameFrame
  <1>8. \A j \in 0 .. position - 1 : stream[wr - position + j + 1] = Block(frame, j)
    BY <1>3 DEF TopInv, Gathered
  <1>9. CASE ~Storing
    <2>1. stream' = stream /\ wr' = wr /\ position' = position
      BY <1>4, <1>9 DEF Moves, Stores
    <2> QED
      BY <1>1, <1>7, <1>8, <2>1
  <1>10. CASE Storing
    <2>1. stream' = Append(stream, Block(frame, position)) /\ wr' = wr + 1 /\ position' = position + 1
      BY <1>2, <1>4, <1>10 DEF Moves, Stores
    <2>2. wr' - position' + i + 1 = wr - position + i + 1
      BY <1>4, <1>5, <2>1
    <2>3. Block(frame, position) \in BlockWords
      BY <1>10, WordTyped
    <2>4. CASE i = position
      <3>1. wr - position + i + 1 = Len(stream) + 1
        BY <1>4, <1>5, <2>4
      <3> QED
        BY <1>5, <1>7, <2>1, <2>2, <2>3, <2>4, <3>1, AppendProperties
    <2>5. CASE i # position
      <3>1. i \in 0 .. position - 1
        BY <1>1, <1>4, <2>1, <2>5
      <3>2. wr - position + i + 1 \in 1 .. Len(stream)
        BY <1>4, <1>5, <1>6, <3>1
      <3>3. stream'[wr - position + i + 1] = stream[wr - position + i + 1]
        BY <1>5, <2>1, <2>3, <3>2, AppendProperties
      <3> QED
        BY <1>7, <1>8, <2>2, <3>1, <3>3
    <2> QED
      BY <2>4, <2>5
  <1> QED
    BY <1>9, <1>10

\* What an edge does to the bus and to memory.
Writes ==
  /\ DmaSends =>
       /\ mem' = [a \in DOMAIN mem \union {buffer + 4 * cnt_pixel} |->
                    IF a = buffer + 4 * cnt_pixel THEN Block(frame, cnt_pixel) ELSE mem[a]]
       /\ bus_left' = dma!BurstBeats - cnt_burst - 1
       /\ cnt_burst # BurstLength => bus_addr' = buffer + 4 * (cnt_pixel + 1)
  /\ ~DmaSends => UNCHANGED <<bus_left, bus_addr, mem>>

\* The picture fits below the end of the addresses.
LEMMA Addresses ==
  ASSUME Rules, TopInv, NEW i \in Nat, i < Words
  PROVE  /\ buffer \in Nat /\ Words \in Nat
         /\ ~(buffer + 4 * i >= AddrSpace)
  <1>1. buffer \in Nat /\ buffer + 4 * Words <= AddrSpace
    BY BuffersAssumption DEF TopInv, HostTypes
  <1>2. Words \in Nat /\ AddrSpace \in Nat
    BY Sizes, AddrSpaceAssumption
  <1>3. ~(buffer + 4 * i >= AddrSpace)
    <2>1. SUFFICES ASSUME AddrSpace <= buffer + 4 * i
                   PROVE  FALSE
      OBVIOUS
    <2>2. buffer + 4 * Words <= buffer + 4 * i
      BY <1>1, <1>2, <2>1
    <2> QED
      BY <1>1, <1>2, <2>2
  <1> QED
    BY <1>1, <1>2, <1>3

LEMMA BeatTaken ==
  ASSUME Rules, TopInv, Moves, NEW w,
         bus!ClockEdge(AM_write(w), w, base_addr, dma!BurstBeats, data_pixel),
         DmaSends => AM_write(w) /\ ~w,
         ~DmaSends => ~(AM_write(w) /\ ~w)
  PROVE  Writes
  <1>1. ~DmaSends => UNCHANGED <<bus_left, bus_addr, mem>>
    BY DEF bus!ClockEdge, bus!vars
  <1>2. ASSUME DmaSends
        PROVE  /\ mem' = [a \in DOMAIN mem \union {buffer + 4 * cnt_pixel} |->
                            IF a = buffer + 4 * cnt_pixel THEN Block(frame, cnt_pixel) ELSE mem[a]]
               /\ bus_left' = dma!BurstBeats - cnt_burst - 1
               /\ cnt_burst # BurstLength => bus_addr' = buffer + 4 * (cnt_pixel + 1)
    <2>1. current_state = "BURST" /\ seen > rd /\ Active
      BY <1>2 DEF DmaSends, Active
    <2>2. /\ cnt_burst \in Nat /\ cnt_pixel \in Nat /\ begun \in Nat /\ cnt_pixel = begun + cnt_burst
          /\ cnt_burst <= BurstLength /\ begun + dma!BurstBeats <= Words
          /\ BurstLength \in Nat /\ dma!BurstBeats = BurstLength + 1
      BY <2>1, Behind, Beats DEF TopInv, DmaPlace
    <2>3. /\ wr \in Nat /\ rd \in Nat /\ seen \in Nat /\ seen <= wr /\ position \in Nat
          /\ wr - rd + cnt_pixel = position
      BY <2>1, LineUp, Positions DEF TopInv, FifoPlace, Tallied
    <2>4. data_pixel = stream[rd + 1]
      <3>1. seen # rd
        BY <2>1, <2>3
      <3> QED
        BY <3>1 DEF data_pixel, fifo!rdempty
    <2>5. stream[rd + 1] = Block(frame, cnt_pixel)
      <3>1. cnt_pixel \in 0 .. position - 1 /\ wr - position + cnt_pixel + 1 = rd + 1
        BY <2>1, <2>2, <2>3
      <3>2. stream[wr - position + cnt_pixel + 1] = Block(frame, cnt_pixel)
        BY <2>1, <3>1 DEF TopInv, Gathered
      <3> QED
        BY <3>1, <3>2
    <2>6. /\ base_addr = buffer + 4 * begun
          /\ cnt_burst > 0 => bus_left = dma!BurstBeats - cnt_burst /\ bus_addr = buffer + 4 * cnt_pixel
          /\ ~(cnt_burst > 0) => bus_left = 0
      BY <2>1 DEF TopInv, Placed
    <2> DEFINE at == IF bus_left = 0 THEN base_addr ELSE bus_addr
    <2>7. /\ at = buffer + 4 * cnt_pixel
          /\ (IF bus_left = 0 THEN dma!BurstBeats ELSE bus_left) = dma!BurstBeats - cnt_burst
      <3>1. CASE cnt_burst > 0
        <4>1. bus_left # 0
          BY <2>2, <2>6, <3>1
        <4> QED
          BY <2>6, <3>1, <4>1
      <3>2. CASE ~(cnt_burst > 0)
        <4>1. cnt_burst = 0 /\ cnt_pixel = begun
          BY <2>2, <3>2
        <4>2. dma!BurstBeats = dma!BurstBeats - cnt_burst
          BY <2>2, <4>1
        <4> QED
          BY <2>6, <3>2, <4>1, <4>2
      <3> QED
        BY <3>1, <3>2
    <2>12. bus!Accept(base_addr, dma!BurstBeats, data_pixel)
      BY <1>2 DEF bus!ClockEdge
    <2>8. /\ mem' = [a \in DOMAIN mem \union {at} |-> IF a = at THEN data_pixel ELSE mem[a]]
          /\ ~(at + 4 >= AddrSpace) => bus_addr' = at + 4
          /\ bus_left' = (IF bus_left = 0 THEN dma!BurstBeats ELSE bus_left) - 1
      <3>1. mem' = [a \in DOMAIN mem \union {at} |-> IF a = at THEN data_pixel ELSE mem[a]]
        BY <2>12, Zenon DEF bus!Accept
      <3>2. ~(at + 4 >= AddrSpace) => bus_addr' = at + 4
        BY <2>12, Zenon DEF bus!Accept
      <3>3. bus_left' = (IF bus_left = 0 THEN dma!BurstBeats ELSE bus_left) - 1
        BY <2>12, Zenon DEF bus!Accept
      <3> QED
        BY <3>1, <3>2, <3>3, Zenon
    <2>9. mem' = [a \in DOMAIN mem \union {buffer + 4 * cnt_pixel} |->
                    IF a = buffer + 4 * cnt_pixel THEN Block(frame, cnt_pixel) ELSE mem[a]]
      <3> HIDE DEF at
      <3> QED
        BY <2>4, <2>5, <2>7, <2>8, Zenon
    <2>10. bus_left' = dma!BurstBeats - cnt_burst - 1
      BY <2>7, <2>8
    <2>11. cnt_burst # BurstLength => bus_addr' = buffer + 4 * (cnt_pixel + 1)
      <3>1. SUFFICES ASSUME cnt_burst # BurstLength
                     PROVE  bus_addr' = buffer + 4 * (cnt_pixel + 1)
        OBVIOUS
      <3>2. cnt_pixel + 1 \in Nat /\ cnt_pixel + 1 < Words
        <4>1. Words \in Nat
          BY Sizes
        <4> HIDE DEF begun
        <4> QED
          BY <2>2, <3>1, <4>1
      <3>3. buffer \in Nat /\ ~(buffer + 4 * (cnt_pixel + 1) >= AddrSpace)
        BY <3>2, Addresses
      <3>4. at + 4 = buffer + 4 * (cnt_pixel + 1)
        BY <2>2, <2>7, <3>3
      <3> HIDE DEF at
      <3> QED
        BY <2>8, <3>3, <3>4
    <2> QED
      BY <2>9, <2>10, <2>11
  <1> QED
    BY <1>1, <1>2 DEF Writes

LEMMA PlacedKept ==
  ASSUME Rules, TopInv, Moves, Writes
  PROVE  Placed'
  <1>1. ASSUME ~DmaSends
        PROVE  IF current_state' = "BURST" /\ cnt_burst' > 0
                 THEN bus_left' = dma!BurstBeats - cnt_burst' /\ bus_addr' = buffer' + 4 * cnt_pixel'
                 ELSE bus_left' = 0
    <2>1. /\ bus_left' = bus_left /\ bus_addr' = bus_addr
          /\ IF current_state = "BURST" /\ cnt_burst > 0
               THEN bus_left = dma!BurstBeats - cnt_burst /\ bus_addr = buffer + 4 * cnt_pixel
               ELSE bus_left = 0
      BY <1>1 DEF Writes, TopInv, Placed
    <2>2. CASE DmaStalls
      <3>1. /\ current_state = "BURST" /\ current_state' = "BURST"
            /\ cnt_burst' = cnt_burst /\ cnt_pixel' = cnt_pixel
        BY <2>2 DEF DmaStalls
      <3>2. buffer' = buffer
        <4>1. Active /\ Active'
          BY <3>1 DEF Active
        <4> QED
          BY <4>1, SameFrame
      <3> QED
        BY <2>1, <3>1, <3>2
    <2>3. CASE DmaIssues
      <3>1. cnt_burst' = 0 /\ current_state # "BURST"
        BY <2>3 DEF DmaIssues
      <3>2. ~(cnt_burst' > 0)
        BY <3>1
      <3> QED
        BY <2>1, <3>1, <3>2
    <2>4. CASE ~DmaStalls /\ ~DmaIssues
      <3>1. current_state # "BURST" /\ current_state' # "BURST"
        BY <1>1, <2>4 DEF Moves, DmaMove, DmaRests, DmaStarts, DmaWaits, DmaGoesOn, DmaFinishes, Active
      <3> QED
        BY <2>1, <3>1
    <2> QED
      BY <2>2, <2>3, <2>4
  <1>2. ASSUME DmaSends
        PROVE  IF current_state' = "BURST" /\ cnt_burst' > 0
                 THEN bus_left' = dma!BurstBeats - cnt_burst' /\ bus_addr' = buffer' + 4 * cnt_pixel'
                 ELSE bus_left' = 0
    <2>1. /\ bus_left' = dma!BurstBeats - cnt_burst - 1
          /\ cnt_burst # BurstLength => bus_addr' = buffer + 4 * (cnt_pixel + 1)
          /\ cnt_burst' = cnt_burst + 1 /\ cnt_pixel' = cnt_pixel + 1
          /\ current_state' = (IF cnt_burst = BurstLength THEN "TASKEND" ELSE "BURST")
          /\ current_state = "BURST"
      BY <1>2 DEF Writes, DmaSends
    <2>2. cnt_burst \in Nat /\ BurstLength \in Nat /\ dma!BurstBeats = BurstLength + 1
      BY Beats DEF TopInv, DmaPlace
    <2>3. buffer' = buffer
      <3>1. Active /\ Active'
        BY <2>1 DEF Active
      <3> QED
        BY <3>1, SameFrame
    <2>4. CASE cnt_burst = BurstLength
      BY <2>1, <2>2, <2>4
    <2>5. CASE cnt_burst # BurstLength
      BY <2>1, <2>2, <2>3, <2>5
    <2> QED
      BY <2>4, <2>5
  <1>3. ASSUME Active'
        PROVE  /\ \A i \in 0 .. cnt_pixel' - 1 :
                    buffer' + 4 * i \in DOMAIN mem' /\ mem'[buffer' + 4 * i] = Block(frame', i)
               /\ base_addr' = buffer' + 4 * begun'
    <2>1. CASE DmaStarts
      <3>1. cnt_pixel' = 0 /\ base_addr' = buffer
        BY <2>1 DEF DmaStarts
      <3>2. begun' = 0 /\ buffer' = buffer
        <4>1. Taking /\ ~DmaFinishes
          BY <1>3, Activity
        <4> QED
          BY <1>3, <2>1, <4>1, Activity DEF Moves
      <3>3. buffer \in Nat
        BY BuffersAssumption DEF TopInv, HostTypes
      <3> QED
        BY <3>1, <3>2, <3>3
    <2>2. CASE Active
      <3>1. /\ \A i \in 0 .. cnt_pixel - 1 :
                 buffer + 4 * i \in DOMAIN mem /\ mem[buffer + 4 * i] = Block(frame, i)
            /\ base_addr = buffer + 4 * begun
        BY <2>2 DEF TopInv, Placed
      <3>2. /\ cnt_pixel \in Nat /\ position \in Nat /\ cnt_pixel <= position /\ begun \in Nat
            /\ wr - rd + cnt_pixel = position /\ wr \in Nat /\ rd \in Nat /\ seen \in Nat /\ seen <= wr
        BY <2>2, Behind, Positions, LineUp DEF TopInv, DmaPlace, Tallied, FifoPlace
      <3>3. buffer' = buffer /\ (position > 0 => frame' = frame)
        <4>1. position > 0 => position # 0
          BY <3>2
        <4> QED
          BY <1>3, <2>2, <4>1, SameFrame
      <3>4. buffer \in Nat
        BY BuffersAssumption DEF TopInv, HostTypes
      <3>5. base_addr' = buffer' + 4 * begun'
        <4>1. begun' = IF DmaGoesOn THEN begun + dma!BurstBeats ELSE begun
          BY <1>3, <2>2, Activity
        <4>2. CASE DmaGoesOn
          <5>1. /\ base_addr' = dma!Wrap(base_addr + 4 * dma!BurstBeats)
                /\ current_state = "TASKEND" /\ cnt_pixel # Words
            BY <4>2 DEF DmaGoesOn
          <5>2. begun + dma!BurstBeats \in Nat /\ begun + dma!BurstBeats < Words /\ dma!BurstBeats \in Nat
            <6>1. cnt_pixel = begun + dma!BurstBeats /\ begun + dma!BurstBeats <= Words
              BY <2>2, <5>1, Behind
            <6>2. Words \in Nat
              BY Sizes
            <6> HIDE DEF begun
            <6> QED
              BY <3>2, <5>1, <6>1, <6>2, Beats
          <5>3. ~(buffer + 4 * (begun + dma!BurstBeats) >= AddrSpace)
            BY <5>2, Addresses
          <5>4. base_addr + 4 * dma!BurstBeats = buffer + 4 * (begun + dma!BurstBeats)
            BY <3>1, <3>2, <3>4, <5>2
          <5>5. base_addr' = buffer + 4 * (begun + dma!BurstBeats)
            BY <5>1, <5>3, <5>4 DEF dma!Wrap
          <5> QED
            BY <3>3, <4>1, <4>2, <5>5
        <4>3. CASE ~DmaGoesOn
          <5>1. base_addr' = base_addr
            BY <1>3, <2>2, <4>3, Activity DEF Moves, DmaMove, DmaStarts, DmaWaits, DmaIssues, DmaSends,
              DmaStalls
          <5> QED
            BY <3>1, <3>3, <4>1, <4>3, <5>1
        <4> QED
          BY <4>2, <4>3
      <3>6. ASSUME NEW i \in 0 .. cnt_pixel' - 1
            PROVE  buffer' + 4 * i \in DOMAIN mem' /\ mem'[buffer' + 4 * i] = Block(frame', i)
        <4>1. CASE DmaSends
          <5>1. cnt_pixel' = cnt_pixel + 1 /\ seen > rd
            BY <4>1 DEF DmaSends
          <5>2. frame' = frame
            <6>1. position > 0
              BY <3>2, <5>1
            <6> QED
              BY <3>3, <6>1
          <5> DEFINE at == buffer + 4 * cnt_pixel
          <5>3. mem' = [a \in DOMAIN mem \union {at} |-> IF a = at THEN Block(frame, cnt_pixel) ELSE mem[a]]
            BY <4>1 DEF Writes
          <5>4. CASE i = cnt_pixel
            <6>1. buffer' + 4 * i = at
              BY <3>3, <5>4
            <6> HIDE DEF at
            <6> QED
              BY <5>2, <5>3, <5>4, <6>1
          <5>5. CASE i # cnt_pixel
            <6>1. i \in 0 .. cnt_pixel - 1
              BY <3>2, <5>1, <5>5
            <6>2. buffer + 4 * i # at
              BY <3>2, <3>4, <6>1
            <6>3. buffer + 4 * i \in DOMAIN mem /\ mem[buffer + 4 * i] = Block(frame, i)
              BY <3>1, <6>1
            <6> HIDE DEF at
            <6> QED
              BY <3>3, <5>2, <5>3, <6>2, <6>3
          <5> QED
            BY <5>4, <5>5
        <4>2. CASE ~DmaSends
          <5>1. mem' = mem
            BY <4>2 DEF Writes
          <5>2. cnt_pixel' = cnt_pixel
            BY <1>3, <2>2, <4>2, Activity DEF Moves, DmaMove, DmaStarts, DmaWaits, DmaIssues,
              DmaStalls, DmaGoesOn
          <5>3. position > 0
            BY <3>2, <3>6, <5>2
          <5> QED
            BY <3>1, <3>3, <5>1, <5>2, <5>3
        <4> QED
          BY <4>1, <4>2
      <3> QED
        BY <3>5, <3>6
    <2> QED
      BY <1>3, <2>1, <2>2, Activity
  <1> QED
    BY <1>1, <1>2, <1>3 DEF Placed

LEMMA PictureWholeKept ==
  ASSUME Rules, TopInv, Moves, Writes, DmaFinishes => Taking,
         done' = IF DmaFinishes THEN done \union {buffer}
                 ELSE IF pc = "start" /\ pc' = "sensor" THEN done \ {buffer} ELSE done
  PROVE  PictureWhole'
  <1>0. done \subseteq Buffers /\ buffer \in Buffers /\ buffer \in Nat /\ Words \in Nat
    BY BuffersAssumption, Sizes DEF TopInv, HostTypes
  <1>1. ASSUME NEW b \in done
        PROVE  \E f \in 0 .. FrameTags - 1 : \A i \in 0 .. Words - 1 :
                 b + 4 * i \in DOMAIN mem' /\ mem'[b + 4 * i] = Block(f, i)
    <2>1. PICK f \in 0 .. FrameTags - 1 : \A i \in 0 .. Words - 1 :
            b + 4 * i \in DOMAIN mem /\ mem[b + 4 * i] = Block(f, i)
      BY <1>1 DEF TopInv, PictureWhole
    <2>2. CASE ~DmaSends
      BY <2>1, <2>2 DEF Writes
    <2>3. CASE DmaSends
      <3>1. current_state = "BURST" /\ Active
        BY <2>3 DEF DmaSends, Active
      <3>2. b # buffer /\ b \in Buffers /\ b \in Nat
        BY <1>0, <1>1, <3>1, BuffersAssumption DEF TopInv, DmaPlace, HostPlace
      <3>3. cnt_pixel \in 0 .. Words - 1
        <4>1. /\ cnt_pixel \in Nat /\ cnt_burst \in Nat /\ begun \in Nat /\ cnt_pixel = begun + cnt_burst
              /\ cnt_burst <= BurstLength /\ begun + dma!BurstBeats <= Words
              /\ BurstLength \in Nat /\ dma!BurstBeats = BurstLength + 1
          BY <3>1, Behind, Beats DEF TopInv, DmaPlace
        <4> HIDE DEF begun
        <4> QED
          BY <1>0, <4>1
      <3>4. buffer + 4 * Words <= b \/ b + 4 * Words <= buffer
        BY <1>0, <3>2 DEF Rules, BuffersApart
      <3> DEFINE at == buffer + 4 * cnt_pixel
      <3>5. mem' = [a \in DOMAIN mem \union {at} |-> IF a = at THEN Block(frame, cnt_pixel) ELSE mem[a]]
        BY <2>3 DEF Writes
      <3>6. \A i \in 0 .. Words - 1 : b + 4 * i # at
        BY <1>0, <3>2, <3>3, <3>4
      <3> HIDE DEF at
      <3> QED
        BY <2>1, <3>5, <3>6
    <2> QED
      BY <2>2, <2>3
  <1>2. ASSUME DmaFinishes
        PROVE  \E f \in 0 .. FrameTags - 1 : \A i \in 0 .. Words - 1 :
                 buffer + 4 * i \in DOMAIN mem' /\ mem'[buffer + 4 * i] = Block(f, i)
    <2>1. cnt_pixel = Words /\ Active /\ ~DmaSends
      BY <1>2 DEF DmaFinishes, Active, DmaSends
    <2>2. mem' = mem
      BY <2>1 DEF Writes
    <2>3. frame \in 0 .. FrameTags - 1
      BY PlaceBasics, FrameTagsAssumption DEF TopInv, SensorPlace
    <2>4. \A i \in 0 .. Words - 1 : buffer + 4 * i \in DOMAIN mem /\ mem[buffer + 4 * i] = Block(frame, i)
      BY <2>1 DEF TopInv, Placed
    <2> QED
      BY <2>2, <2>3, <2>4
  <1>3. \A b \in done' : (b \in done) \/ (DmaFinishes /\ b = buffer)
    <2>1. CASE DmaFinishes
      BY <2>1
    <2>2. CASE ~DmaFinishes
      BY <2>2
    <2> QED
      BY <2>1, <2>2
  <1>4. \A b \in done' : \E f \in 0 .. FrameTags - 1 : \A i \in 0 .. Words - 1 :
          b + 4 * i \in DOMAIN mem' /\ mem'[b + 4 * i] = Block(f, i)
    BY <1>1, <1>2, <1>3
  <1> QED
    BY <1>4 DEF PictureWhole, Words, BlocksPerRow, Block

-----------------------------------------------------------------------------
(* The theorems about CameraTop.                                           *)

\* Where the design is after power-up and after nrst.
Fresh ==
  /\ sensor!Init /\ controller!Init
  /\ current_state = "IDLE" /\ cnt_burst = 0 /\ cnt_pixel = 0 /\ stall = 0
  /\ start_reg = {} /\ clear_task_flag = FALSE /\ task_finished_flag = FALSE /\ readdata = 0
  /\ wr \in Nat /\ rd = wr /\ seen = wr /\ sync = [i \in 1 .. SyncStages |-> wr]
  /\ stream \in Seq(BlockWords) /\ Len(stream) = wr
  /\ bus_left = 0 /\ frame \in 0 .. FrameTags - 1
  /\ pc = "len" /\ buffer \in Buffers /\ pictures \in Nat /\ done = {}

LEMMA FreshHolds ==
  ASSUME Fresh
  PROVE  TopInv
  <1>1. ~Taking /\ ~Active
    BY DEF Fresh, Taking, Active
  <1>2. HostTypes /\ HostPlace /\ PictureWhole
    BY <1>1 DEF Fresh, HostTypes, HostPlace, PictureWhole
  <1>3. reg_state = "IDLE" /\ state_current = "IDLE"
    BY DEF Fresh, sensor!Init, controller!Init, controller!camera_mux!Init
  <1>4. SensorTypes
    BY ConfigRangeAssumption DEF Fresh, sensor!Init, SensorTypes, Blanks, sensor!MinimumConfig
  <1>5. ControllerTypes /\ AtRest
    BY DEF Fresh, controller!Init, controller!camera_mux!Init, controller!average_and_combine!Init,
      ControllerTypes, Colours, Pixels, AtRest
  <1>6. SensorPlace
    <2>1. reg_start = FALSE /\ reg_stop = FALSE /\ frame \in Nat /\ frame < FrameTags
      BY FrameTagsAssumption DEF Fresh, sensor!Init
    <2>2. Scanning
      BY <1>3, <2>1 DEF Scanning
    <2> QED
      BY <1>3, <1>4, <1>5, <2>1, <2>2 DEF Fresh, SensorPlace, Framed, Blanks
  <1>7. ControllerPlace
    BY <1>1, <1>3, <1>5 DEF ControllerPlace
  <1>8. FifoPlace
    <2>1. SyncStages \in Nat \ {0} /\ Depth \in Nat
      BY BoundsAssumption, DepthAssumption
    <2>2. sync \in Seq(Nat) /\ Len(sync) = SyncStages
      BY <2>1 DEF Fresh
    <2>3. \A i \in 0 .. SyncStages + 1 : line[i] = wr
      BY <2>1 DEF Fresh, line
    <2>4. rd <= seen /\ wr - rd <= Depth
      BY <2>1 DEF Fresh
    <2>5. \A i, j \in 0 .. SyncStages + 1 : i <= j => line[i] <= line[j]
      BY <2>3 DEF Fresh
    <2> QED
      BY <2>2, <2>4, <2>5 DEF Fresh, FifoPlace
  <1>9. DmaPlace
    BY <1>1, BoundsAssumption DEF Fresh, DmaPlace, dma!state_type
  <1>10. Tallied /\ Paced /\ Spaced /\ Supplied /\ Gathered
    BY <1>1 DEF Active, Tallied, Paced, Spaced, Supplied, Gathered
  <1>11. Placed
    BY <1>1 DEF Fresh, Active, Placed
  <1> QED
    BY <1>2, <1>6, <1>7, <1>8, <1>9, <1>10, <1>11 DEF TopInv

LEMMA TopStarts ==
  ASSUME Init
  PROVE  Fresh
  <1>1. SyncStages \in Nat
    BY BoundsAssumption
  <1> QED
    BY FrameTagsAssumption DEF Init, Fresh, dma!Init, slave!Init, bus!Init, fifo!Init

LEMMA TopResets ==
  ASSUME TopInv, Reset
  PROVE  Fresh'
  <1>1. sensor!Init' /\ controller!Init'
    BY DEF Reset, sensor!Reset, sensor!Init, controller!Reset, controller!Init,
      controller!camera_mux!Reset, controller!camera_mux!Init,
      controller!average_and_combine!Reset, controller!average_and_combine!Init
  <1>2. /\ wr \in Nat /\ stream \in Seq(BlockWords) /\ Len(stream) = wr
        /\ frame \in 0 .. FrameTags - 1 /\ buffer \in Buffers /\ pictures \in Nat
    BY PlaceBasics, FrameTagsAssumption DEF TopInv, FifoPlace, SensorPlace, HostTypes
  <1> QED
    BY <1>1, <1>2 DEF Reset, Fresh, dma!Reset, slave!Reset, bus!Reset, fifo!Clear

LEMMA ClkKept ==
  ASSUME Rules, TopInv, ClkStep
  PROVE  TopInv'
  <1>1. PICK access \in accesses, command \in commands, w \in waitrequests : Clk(access, command, w)
    BY DEF ClkStep
  <1>2. /\ Moves /\ HostTypes' /\ HostPlace' /\ ControllerPlace' /\ SensorPlace'
        /\ done' = IF DmaFinishes THEN done \union {buffer}
                   ELSE IF pc = "start" /\ pc' = "sensor" THEN done \ {buffer} ELSE done
        /\ DmaFinishes => Taking
        /\ DmaSends => AM_write(w) /\ ~w
        /\ ~DmaSends => ~(AM_write(w) /\ ~w)
    BY <1>1, MovesHold DEF Moves
  <1>3. Writes
    BY <1>1, <1>2, BeatTaken DEF Clk
  <1>4. FifoPlace' /\ DmaPlace' /\ Tallied' /\ Paced' /\ Spaced' /\ Supplied' /\ Gathered'
    BY <1>2, FifoKept, DmaKept, TalliedKept, PacedKept, SpacedKept, SuppliedKept, GatheredKept
  <1>5. Placed' /\ PictureWhole'
    BY <1>2, <1>3, PlacedKept, PictureWholeKept
  <1> QED
    BY <1>2, <1>4, <1>5 DEF TopInv

LEMMA TopStutters ==
  ASSUME TopInv, UNCHANGED vars
  PROVE  TopInv'
  <1>1. /\ UNCHANGED sensorVars /\ UNCHANGED controllerVars /\ UNCHANGED fifoVars /\ UNCHANGED dmaVars
        /\ UNCHANGED slaveVars /\ UNCHANGED busVars /\ UNCHANGED hostVars /\ UNCHANGED historyVars
    BY DEF vars
  <1> USE <1>1 DEF sensorVars, controllerVars, fifoVars, dmaVars, slaveVars, busVars, hostVars, historyVars
  <1>2. Taking' = Taking /\ Active' = Active /\ line' = line /\ begun' = begun /\ position' = position
    BY DEF Taking, Active, line, begun, position
  <1>3. HostTypes' /\ HostPlace' /\ PictureWhole'
    BY <1>2 DEF TopInv, HostTypes, HostPlace, PictureWhole
  <1>4. SensorTypes' /\ ControllerTypes' /\ Width' = Width /\ Height' = Height /\ blank_length' = blank_length
        /\ fvalid' = fvalid /\ lvalid' = lvalid
    BY DEF TopInv, SensorPlace, Framed, SensorTypes, ControllerTypes, Width, Height, blank_length, fvalid, lvalid,
      sensor!frame_valid, sensor!line_valid
  <1>5. SensorPlace'
    <2>1. Scanning' /\ frame' \in Nat
      BY <1>4 DEF TopInv, SensorPlace, Framed, Scanning, Fits
    <2> QED
      BY <1>4, <2>1 DEF TopInv, SensorPlace, Framed
  <1>6. ControllerPlace'
    <2>1. \A row, first, n : /\ Greens(row, first, n)' = Greens(row, first, n)
                             /\ Reds(row, first, n)' = Reds(row, first, n)
      BY DEF Greens, Reds, Pixel
    <2>2. (AtRest' = AtRest) /\ (OffPixel' = OffPixel) /\ (OnPixel' = OnPixel)
      BY <1>4, <2>1 DEF AtRest, OffPixel, OnPixel, Pixel
    <2> QED
      BY <1>2, <1>4, <2>2 DEF TopInv, ControllerPlace, Follows
  <1>7. FifoPlace' /\ DmaPlace' /\ Tallied'
    BY <1>2 DEF TopInv, FifoPlace, DmaPlace, Tallied
  <1>8. (InRow' = InRow) /\ (JustStored' = JustStored) /\ base' = base /\ Left' = Left /\ Rest' = Rest
    BY <1>2 DEF InRow, JustStored, base, Left, Rest
  <1>9. Paced'
    BY <1>2, <1>8 DEF TopInv, Paced, SeenIn, Work
  <1>10. Spaced' /\ Supplied'
    BY <1>2, <1>8 DEF TopInv, Spaced, Supplied, place_of
  <1>11. Gathered' /\ Placed'
    BY <1>2 DEF TopInv, Gathered, Placed
  <1> QED
    BY <1>3, <1>5, <1>6, <1>7, <1>9, <1>10, <1>11 DEF TopInv

\* Sensor, controller, FIFO, DMA, bus and software stay where the parts of
\* TopInv say, for every setting in pace and buffers apart.
THEOREM TopInvariant ==
  ASSUME SettingAllowed, InPace, BuffersApart
  PROVE  Spec => []TopInv
  <1>1. Rules
    BY DEF Rules
  <1>2. Fresh => TopInv
    BY FreshHolds
  <1>3. Fresh' => TopInv'
    BY <1>2, PTL
  <1>4. Init => TopInv
    BY <1>2, TopStarts
  <1>5. TopInv /\ [Next]_vars => TopInv'
    BY <1>1, <1>3, ClkKept, TopResets, TopStutters DEF Next
  <1> QED
    BY <1>4, <1>5, PTL DEF Spec

\* A word that the controller gives out never meets a full FIFO: the DMA has
\* sent the rows before by then, and there is room for one row.
THEOREM NoWordDropped ==
  ASSUME SettingAllowed, InPace, BuffersApart
  PROVE  Spec => []NothingDropped
  <1>1. Rules
    BY DEF Rules
  <1>2. TopInv => NothingDropped
    <2>1. SUFFICES ASSUME TopInv, controller!wrfifo(start_camera, FALSE)
                   PROVE  ~fifo!wrfull
      BY DEF NothingDropped
    <2>2. Taking /\ Storing
      BY <1>1, <2>1, Storings DEF controller!wrfifo, controller!average_and_combine!wrfifo
    <2>3. wr - rd < Depth /\ wr \in Nat /\ rd \in Nat /\ Depth \in Nat
      BY <1>1, <2>1, <2>2, Room, DepthAssumption DEF TopInv, FifoPlace
    <2> QED
      BY <2>3 DEF fifo!wrfull
  <1> QED
    BY <1>2, TopInvariant, PTL

\* The DMA never takes a beat from an empty FIFO, although it starts a burst
\* when one of its words is not seen yet.
THEOREM DmaNeverDry ==
  ASSUME SettingAllowed, InPace, BuffersApart
  PROVE  Spec => []NeverDry
  <1>1. Rules
    BY DEF Rules
  <1>2. TopInv => NeverDry
    <2>1. SUFFICES ASSUME TopInv, current_state = "BURST"
                   PROVE  ~fifo!rdempty
      BY DEF NeverDry
    <2>2. seen > rd /\ seen \in Nat /\ rd \in Nat
      BY <1>1, <2>1, NotDry DEF TopInv, FifoPlace
    <2> QED
      BY <2>2 DEF fifo!rdempty
  <1> QED
    BY <1>2, TopInvariant, PTL

\* A finished picture is in memory, block by block and of one frame, and is
\* left alone while the next ones are taken.
THEOREM PicturesWhole ==
  ASSUME SettingAllowed, InPace, BuffersApart
  PROVE  Spec => []PictureWhole
  <1>1. TopInv => PictureWhole
    BY DEF TopInv
  <1> QED
    BY <1>1, TopInvariant, PTL

=============================================================================
