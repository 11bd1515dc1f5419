---------------------------- MODULE MCDVDThread -----------------------------
\* Model-checking instances of DVDThread.
EXTENDS DVDThread

\* The pairs of interferences that meet in shared state.
MCScenarios ==
  {{"Other", "Cancel", "Error"}, {"State", "Disc"}, {"State", "Other"}, {"State", "Session"},
   {"Disc", "Session"}, {"State", "Card"},
   {"Other", "Cancel", "Overclock"}, {"State", "Overclock"}, {"Disc", "Overclock"},
   {"Session", "Overclock"}}

MCCard == {{"State", "Card"}}

\* As it is, half as fast again, and half as fast.
MCFactors == {<<1, 1>>, <<3, 2>>, <<1, 2>>}
=============================================================================
