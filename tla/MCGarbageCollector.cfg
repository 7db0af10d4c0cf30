\* Five Start/Stop rounds: enough for a goroutine of one round to overlap
\* goroutines of the next two and for the field to be reset several times.
CONSTANTS
    MaxStarts = 5
SPECIFICATION Spec
INVARIANT NoConcurrentSweeps
PROPERTY StopQuiesces
