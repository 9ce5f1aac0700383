------------------------------- MODULE MCImages -------------------------------
EXTENDS Images

\* Every ratio of two sides up to 40, some finer ones, and a zero.
MCSides == 0..40 \cup {97, 128, 211, 289}

\* Zero ("00"), one macroblock, both limits, one macroblock past each, and
\* sides that are not aligned.
MCFrameSides == {0, 16, 24, 480, 832, 848, 1280, 1296}
===============================================================================
