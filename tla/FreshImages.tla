---------------------------- MODULE FreshImages ----------------------------
(***************************************************************************)
(* What creating a node image promises, with no cache: a run that finishes  *)
(* leaves for the nodes an image that a rebuild from nothing for its own    *)
(* request can give, and no other run changes what the nodes can boot.      *)
(***************************************************************************)
CONSTANTS
    Images, Requests, Nothing,
    Fresh(_)    \* the images that a rebuild for a request can give

VARIABLES
    boot,       \* what the nodes that boot an image get
    request,    \* the settings of the run
    finished    \* whether the run has finished

FInit ==
    /\ boot = [i \in Images |-> Nothing]
    /\ request \in Requests
    /\ finished = FALSE

Ask(c) ==
    /\ request' = c /\ finished' = FALSE
    /\ UNCHANGED boot

Rebuild ==
    /\ \E image \in Fresh(request) : boot' = [boot EXCEPT ![request.image] = image]
    /\ finished' = TRUE
    /\ UNCHANGED request

FNext == (\E c \in Requests : Ask(c)) \/ Rebuild

FSpec == FInit /\ [][FNext]_<<boot, request, finished>>
=============================================================================
