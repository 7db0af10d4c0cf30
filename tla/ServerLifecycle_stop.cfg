\* Two rounds of Start and Stop, and one failing storage Open.  A caller
\* blocked forever waiting for Start is a state with no successor; it is
\* exactly what StopShutsDown reports, so deadlock is not checked apart.
CONSTANTS
    MaxStarts = 2
    MaxOpenFailures = 1
SPECIFICATION Spec
PROPERTY StopShutsDown
CHECK_DEADLOCK FALSE
