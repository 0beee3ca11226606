------------------------------- MODULE MCArray -------------------------------
EXTENDS Array

\* Two to four drives, with and without an incomplete last stripe, and lists
\* build_raid refuses: a single drive, unequal drives, a drive below a stripe.
MCDriveLists == {<<9, 9>>, <<12, 12, 12>>, <<10, 10, 10, 10>>,
                 <<12>>, <<10, 12>>, <<3, 3>>}
=============================================================================
