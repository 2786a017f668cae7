SPECIFICATION Spec
CONSTANT Midstream = FALSE
INVARIANT FirstCloserRecorded
