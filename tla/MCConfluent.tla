---------------------------- MODULE MCConfluent ----------------------------
(***************************************************************************)
(* A small instance of Confluent.                                           *)
(***************************************************************************)
EXTENDS Confluent

Request(n, h, q, o, f, k) ==
    [nodes |-> n, head |-> h, queue |-> q, os |-> o, ofed |-> f,
     fabric |-> f # "none", kernel |-> k, running |-> "k1"]
One(a) == [n \in {"n1"} |-> a]
Two(a, b) == [n \in {"n1", "n2"} |-> IF n = "n1" THEN a ELSE b]

\* With PBS a node comes, goes and changes its address, and the head node moves;
\* with SLURM the kernel of the nodes is another than the running one.  The last
\* request is refused.
MCRequests ==
    { Request(One("a1"), "h1", "pbs", "el", "none", Unset),
      Request(Two("a2", "a1"), "h2", "pbs", "el", "doca", Unset),
      Request(One("a1"), "h1", "slurm", "el", "doca", "k2"),
      Request(One("a1"), "h1", "none", "el", "oracle", Unset) }
=============================================================================
