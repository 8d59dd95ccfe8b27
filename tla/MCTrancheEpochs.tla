-------------------------- MODULE MCTrancheEpochs ---------------------------
\* TrancheEpochs for two users, with a NAV that doubles and halves and an oracle that is
\* invalid at the lower one.
EXTENDS TrancheEpochs, TLC

MCMarkets == {[nav |-> 1, valid |-> TRUE], [nav |-> 2, valid |-> TRUE],
              [nav |-> 1, valid |-> FALSE]}
MCSymmetry == Permutations(Users)
=============================================================================
