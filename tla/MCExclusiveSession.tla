------------------------- MODULE MCExclusiveSession -------------------------
(* ExclusiveSession with two sprites, two channels and one block of each   *)
(* use.                                                                    *)
EXTENDS ExclusiveSession

MCChipBlocks == {"sources", "blitter_memory", "audio_sample", "sprite_data"}
MCFastBlocks == {"fast_sources", "stack"}
=============================================================================
