SPECIFICATION Spec
CONSTANTS
    None = None
    Layouts <- MixedLayouts
INVARIANT NoPanic
