------------------------------ MODULE MCResult ------------------------------
(***************************************************************************)
(* A small merge: arrays of three entries, up to four files, a detector of *)
(* two pixels.                                                             *)
(***************************************************************************)
EXTENDS MergeResult

MCPixel   == {1} \X {1, 2}

\* Nothing, one neutron, or two, the first of which misses the detector
MCMissed  == <<0, 0>>
MCContent == {<<>>, <<<<1, 1>>>>, <<MCMissed, <<1, 2>>>>}

\* The default rays miss the detector, or all go to one pixel
MCStray   == {[p \in MCPixel |-> 0], [p \in MCPixel |-> IF p = <<1, 1>> THEN 3 ELSE 0]}

\* The outputs of the jobs that have succeeded, in the order of the jobs
MCListing == {<<>>, <<1>>, <<2, 3>>, <<1, 2, 3>>, <<1, 2, 3, 4>>}

\* The detector file and one other, in either order; a directory may hold more
MCListings == {<<"D22_Detector", "other">>, <<"other", "D22_Detector">>}
=============================================================================
