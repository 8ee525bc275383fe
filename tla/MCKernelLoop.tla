----------------------------- MODULE MCKernelLoop -----------------------------
EXTENDS KernelLoop

MCSignedVals   == {-1, 0, 1}
MCUnsignedVals == {0, 1}
MCFloatVals    == {0, 1}
MCStrs         == {<<>>, <<0>>, <<1>>, <<0, 1>>}

=============================================================================
