------------------------------- MODULE MCHandout -------------------------------
(* A worker whose canvases are read out of its memory, or come over its socket, and one of this
   process, which leaves them on the card.                                                     *)
EXTENDS Handout

MCPaths == <<"memory", "card">>
================================================================================
