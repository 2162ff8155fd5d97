---------------------------- MODULE MCXcatImage ----------------------------
(***************************************************************************)
(* A small instance of XcatImage: two cached images that share the package  *)
(* list, the postinstall script and the synclist.                           *)
(***************************************************************************)
EXTENDS XcatImage

\* Every plain setting, for one image.
PlainRequests == { c \in Settings : ~c.skipCopycds /\ ~c.forceGenimage }

\* Of the first image all or nothing; of the second nothing.
SomeLost == [i \in Images |-> IF i = "rocky" THEN {{}, Files} ELSE {{}}]

Ask(image, queue, host, password, skip, force) ==
    [image |-> image, queue |-> queue, host |-> host, addr |-> "a1",
     password |-> password, skipCopycds |-> skip, forceGenimage |-> force]

\* The first image with both queue systems: with PBS also without copycds under
\* another password, and with a forced rebuild under another name of the head
\* node (where rmdef fails, that is a plain run).  The second with none.
ImageRequests ==
    {Ask("ubuntu", "none", "h1", "p1", FALSE, FALSE),
     Ask("rocky", "slurm", "h1", "p1", FALSE, FALSE),
     Ask("rocky", "pbs", "h1", "p1", FALSE, FALSE),
     Ask("rocky", "pbs", "h1", "p2", TRUE, FALSE),
     Ask("rocky", "pbs", "h2", "p1", FALSE, TRUE)}
=============================================================================
