--------------------------------- MODULE MCRdma ---------------------------------
(* Two ports at either end.  A payload of two paths whose last part takes the remainder of two
   pages and more pieces than its link holds, one read back into another place that is less
   than a page for each path, and one that does not fit.                                     *)
EXTENDS Rdma

Payload(writing, offset, remote, cells) ==
    [writing |-> writing, offset |-> offset, remote |-> remote, cells |-> cells]
MCCalls == <<Payload(TRUE, 1, 0, 13), Payload(FALSE, 2, 1, 5), Payload(TRUE, 11, 0, 4)>>
===============================================================================
