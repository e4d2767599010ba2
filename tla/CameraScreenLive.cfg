\* Three connections: one of each _start and one that is closed; two selections
\* under way at once, of two clips.
CONSTANTS
  Connections = {p1, p2, p3}
  NoConnection = NoConnection
  Clips = {k1, k2}
  NoClip = NoClip
  Selections = {s1, s2}
  NoSelection = NoSelection
SPECIFICATION FairSpec
INVARIANTS ScreenTypeOK NeverStuck PictureIsLive NoControllerLeft LastSelectionPlays
PROPERTIES PictureComesBack
