--------------------------- MODULE MCStripControl ---------------------------
(* Commands with one attribute, and with the ones an app sends together. *)
EXTENDS StripControl

MCCommands ==
    {[socket |-> v] : v \in {0, 1}} \union {[time |-> v] : v \in {0, 1}}
      \union {[count |-> 1]} \union {[week |-> w] : w \in {{}, {1}}}
      \union {[on |-> m] : m \in {0, 1}}
      \union {[time |-> 0, off |-> 1], [time |-> 1, week |-> {1, 2}, on |-> 0, off |-> 1]}
=============================================================================
