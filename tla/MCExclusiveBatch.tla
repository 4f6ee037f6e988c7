-------------------------- MODULE MCExclusiveBatch --------------------------
(* ExclusiveBatch with three profiles: nothing on, a blitter that shares   *)
(* the bus with the processor, and one that does not.                      *)
EXTENDS ExclusiveBatch

MCSources == {"vertb", "audio"}
MCProfiles ==
    << [dma |-> {}, fair |-> FALSE, hog |-> FALSE],
       [dma |-> {"raster", "blitter"}, fair |-> TRUE, hog |-> FALSE],
       [dma |-> {"raster", "blitter", "hog"}, fair |-> FALSE, hog |-> TRUE] >>
MCSystemDma == {{"raster", "blitter"}, {"raster", "blitter", "audio"}}
=============================================================================
