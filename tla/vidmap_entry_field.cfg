\* The vidmap window after scheduler_remap_video writes it.
SPECIFICATION Spec
INVARIANT VidmapInVideoMemory
