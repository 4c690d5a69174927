----------------------------- MODULE MCCdefUnit -----------------------------
EXTENDS CdefUnit

(* All four 4x4 blocks skipped, all but one, and none.                    *)
MCSkipPatterns == {<<TRUE, TRUE, TRUE, TRUE>>, <<TRUE, TRUE, TRUE, FALSE>>,
                   <<FALSE, FALSE, FALSE, FALSE>>}
(* Zero, a middle value and the 8-bit maximum 15.                         *)
MCPrimaryStrengths == {0, 4, 15}
MCSecondaryStrengths == {0, 2}
(* Zero, below and at the >> 6 threshold, the spec's example 4096, the    *)
(* cap of variance_strength (2^18) and beyond it.                         *)
MCVariances == {0, 63, 64, 4096, 2^18, 2^20}
=============================================================================
