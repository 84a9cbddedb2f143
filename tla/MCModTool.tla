-------------------------------- MODULE MCModTool --------------------------------
EXTENDS ModTool

\* Two blocks with a part of their names in common, neither of which contains the
\* other's.
MCBlocks == {<<"am_", "tx">>, <<"fm_", "tx">>}

\* One block, everything, and the file that runs the module's tests.
MCPatterns == {<<"am_">>, <<>>, <<"test_">>}

================================================================================
