\* Video mappings and screen contents under ticks, Alt+F, writes, vidmap.
SPECIFICATION Spec
INVARIANT TypeOK
INVARIANT VideoMapping
INVARIANT ScreenIsolation
