-------------------------- MODULE MCMediaPipeline --------------------------
(* Instances of MediaPipeline for TLC. *)
EXTENDS MediaPipeline

MovieWithSound == [V |-> 2, A |-> 3]
SoundFirst == [V |-> 1, A |-> 3]

File(blank, rejected, loop, mayFail) ==
  [blank |-> blank, rejected |-> rejected, loop |-> loop, mayFail |-> mayFail]

\* A plain movie; and a looped one, with a packet the codec refuses, that may fail to open.
PlayedAndLooped == {File("V", {}, FALSE, FALSE), File("none", {2}, TRUE, TRUE)}
Plain == {File("V", {}, FALSE, FALSE)}

\* A movie whose failing read names the audio stream: its video decoder is not told.
EndsInAudio == {File("A", {}, FALSE, FALSE)}
=============================================================================
