-------------------------- MODULE MCEncoderTracking --------------------------
EXTENDS EncoderTracking

\* The fastest turn either way, a standstill, and one count back.
MCSteps == {-MaxStep, -1, 0, MaxStep}

\* Before a wrap, after one, and in the middle of the counter's range.
MCStarts == {65535, 0, 32768}
=============================================================================
