---------------------------- MODULE MCXcatNodes ----------------------------
(***************************************************************************)
(* A small instance of XcatNodes.                                           *)
(***************************************************************************)
EXTENDS XcatNodes

\* Either DHCP server; PBS or not; with Kea all nodes have a BMC or none has,
\* with ISC dhcpd the first has one.
MCRequests ==
    { c \in Settings :
        /\ DOMAIN c.nodes # {}
        /\ c.bmc \in IF c.kea THEN {{}, DOMAIN c.nodes} ELSE {DOMAIN c.nodes \cap {"n1"}} }
=============================================================================
