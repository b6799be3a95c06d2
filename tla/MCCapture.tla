------------------------------- MODULE MCCapture -------------------------------
(* Two checkpoints and a tag that no checkpoint has, which may also come      *)
(* first in an array with one that has.                                      *)
EXTENDS CaptureHistory

MCMappedTags == {"tagA", "tagB"}
MCTags == MCMappedTags \cup {"tagX"}
MCCheckpoints == {"cpA", "cpB"}
MCCheckpointOf == [t \in MCMappedTags |-> IF t = "tagA" THEN "cpA" ELSE "cpB"]
MCDetectionArrays == {<<>>, <<"tagA">>, <<"tagB">>, <<"tagX", "tagA">>}
=============================================================================
