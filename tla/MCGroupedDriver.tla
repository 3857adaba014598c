-------------------------- MODULE MCGroupedDriver ---------------------------
(***************************************************************************)
(* Model-checking instances of GroupedDriver: six CPUs on two sockets and *)
(* three NUMA nodes, CPUs 0 and 1 reserved (so socket 0 keeps one CPU and *)
(* NUMA node 0 none), four claims whose results compete for the devices.  *)
(***************************************************************************)
EXTENDS GroupedDriver

CONSTANTS c1, c2, c3, c4, drv, other, socketPrefix, numaPrefix

MCCPUs == 0..5
MCSocketOf == [c \in MCCPUs |-> IF c <= 2 THEN 0 ELSE 1]
MCNUMAOf == [c \in MCCPUs |-> c \div 2]
MCReserved == {0, 1}
MCClaims == {c1, c2, c3, c4}
MCDrivers == {drv, other}

R(d, p, k, n) == [driver |-> d, device |-> <<p, k>>, count |-> n]

(* Socket devices: socket 0 offers 1 CPU, socket 1 offers 3. c1 and c3
   overcommit socket 0; socket 1 is asked for exactly its 3 CPUs. *)
SocketResults ==
    [c \in MCClaims |->
        CASE c = c1 -> <<R(drv, socketPrefix, 0, 1), R(drv, socketPrefix, 1, 0)>>
          [] c = c2 -> <<R(other, socketPrefix, 0, 1), R(drv, socketPrefix, 1, 2)>>
          [] c = c3 -> <<R(drv, socketPrefix, 0, 1), R(drv, socketPrefix, 1, 1)>>
          [] c = c4 -> NoAllocation]

(* Socket devices, c1 naming socket 1 twice in one claim. *)
DuplicateResults ==
    [SocketResults EXCEPT
        ![c1] = <<R(drv, socketPrefix, 1, 1), R(drv, socketPrefix, 1, 1)>>]

(* NUMA devices: node 0 is never published, nodes 1 and 2 offer 2 CPUs;
   c2 and c4 overcommit node 2. *)
NUMAResults ==
    [c \in MCClaims |->
        CASE c = c1 -> <<R(drv, numaPrefix, 1, 1)>>
          [] c = c2 -> <<R(drv, numaPrefix, 1, 1), R(drv, numaPrefix, 2, 2)>>
          [] c = c3 -> <<R(drv, numaPrefix, 0, 1)>>
          [] c = c4 -> <<R(other, numaPrefix, 1, 2), R(drv, numaPrefix, 2, 1)>>]

=============================================================================
