\* Two siblings are enough for CanPurge to stop before the last one.
CONSTANTS
    Sib = {s1, s2}
    NoSib = NoSib
SPECIFICATION Spec
PROPERTY IterExits
