-------------------------- MODULE MCCameraCapture --------------------------
(* Values for model checking CameraCapture.                                *)
EXTENDS CameraCapture

Registers(widths, heights, ffb, flb, llb, lfb) ==
  [r \in sensor!registers |->
     CASE r = "frame_width" -> widths
       [] r = "frame_height" -> heights
       [] r = "frame_frame_blank" -> ffb
       [] r = "frame_line_blank" -> flb
       [] r = "line_line_blank" -> llb
       [] r = "line_frame_blank" -> lfb]

\* Frames of one or two blocks in a row and two rows of them, with the
\* shortest blanks.
EvenFrames == Registers({2, 4}, {4}, {1}, {1}, {1}, {0})

\* These sizes and blanks are of those the properties are proved for.
ASSUME SettingsAllowed == Settings
=============================================================================
