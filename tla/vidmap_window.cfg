\* The vidmap window against the running terminal's video page.
SPECIFICATION Spec
INVARIANT VidmapWindow
