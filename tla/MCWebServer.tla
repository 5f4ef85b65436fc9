----------------------------- MODULE MCWebServer -----------------------------
EXTENDS WebServer

\* A pull-up, and a source that holds the pin low.
ResistorOrShort == {[high |-> TRUE, strong |-> FALSE], [high |-> FALSE, strong |-> TRUE]}

Scene(happens, most, samples) ==
  [happens |-> happens, commands |-> most, batches |-> samples]

\* Both pages and the pin; a page during the shutdown; what the board tells the
\* pages; bytes in both directions.
FourScenes ==
  {Scene({"pin", "low", "PushPull"}, 3, 0),
   Scene({"pin", "low", "PushPull", "shutdown"}, 2, 0),
   Scene({"buffer", "uart"}, 0, 3),
   Scene({"uart", "send", "other"}, 3, 0)}
=============================================================================
