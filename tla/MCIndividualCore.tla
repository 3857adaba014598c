-------------------------- MODULE MCIndividualCore --------------------------
(***************************************************************************)
(* IndividualCore on every sibling pairing of six CPUs and every reserved *)
(* set, slices of at most four devices (so that a catalog spans up to two *)
(* slices), and claims naming known, unknown and foreign devices.         *)
(***************************************************************************)
EXTENDS IndividualCore

CONSTANTS drv, other, cpudev

MCCPUs == 0..5

RQ(d, i) == [driver |-> d, device |-> <<cpudev, i>>]

MCRequests ==
    { <<>>,
      <<RQ(drv, 0), RQ(drv, 1)>>,
      <<RQ(drv, 2), RQ(other, 9), RQ(drv, 5)>>,
      <<RQ(drv, 4), RQ(drv, 4)>> }

=============================================================================
