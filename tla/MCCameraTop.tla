----------------------------- MODULE MCCameraTop -----------------------------
(* Values for model checking CameraTop.                                    *)
EXTENDS CameraTop

Frame(width, height, ffb, flb, llb, lfb) ==
  [r \in {"frame_width", "frame_height", "frame_frame_blank",
          "frame_line_blank", "line_line_blank", "line_frame_blank"} |->
     CASE r = "frame_width" -> width
       [] r = "frame_height" -> height
       [] r = "frame_frame_blank" -> ffb
       [] r = "frame_line_blank" -> flb
       [] r = "line_line_blank" -> llb
       [] r = "line_frame_blank" -> lfb]

\* Two rows of four blocks, a burst for each, and a pause between frames.
TwoBursts == Frame(8, 4, 15, 1, 1, 1)

TwoPictures == {0, 64}

\* This setting and these buffers are of those the properties are proved for.
ASSUME RulesHold == SettingAllowed /\ InPace /\ BuffersApart
=============================================================================
