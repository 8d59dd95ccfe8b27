--------------------------- MODULE MCEpochHistory ---------------------------
\* EpochHistory on the readings of MCTrancheEpochs.
EXTENDS EpochHistory

MCMarkets == {[nav |-> 1, valid |-> TRUE], [nav |-> 2, valid |-> TRUE],
              [nav |-> 1, valid |-> FALSE]}
=============================================================================
