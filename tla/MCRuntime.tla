---------------------------- MODULE MCRuntime ----------------------------
(* Instances of Runtime: one service with a port and one without, one       *)
(* dependency, one resolver, two modes.  No step reads both a dependency    *)
(* and a resolver: where resolvers are selected, the dependency is a        *)
(* program of the host, which no script touches.                            *)
EXTENDS Runtime, TLC

CONSTANTS api, worker, postgres, dev, prod

MCServices == {api, worker}
MCPorted == {api}
MCDepOrder == <<postgres>>
MCModeOrder == <<dev, prod>>
MCInfraModes == {"auto", "external", "managed"}

StartSymmetry == Permutations(Starts)

MCInit ==
  /\ Init
  /\ IF selected = {} THEN \A x \in Resolvers : res[x] = "down"
                     ELSE \A d \in Deps : dep[d] = "external"

(* A number is looked at only where it is on a file that is there or read.  *)
OnFile == {file[m] : m \in Modes} \cup {stop[s].seen : s \in Stops}
NumbersOnFile == UNION {f.pids \cup {f.by} : f \in OnFile \ {None, Torn}}

(* What a start does not see as it is counts with the faults.               *)
MCNext ==
  /\ Next
  /\ reused' \ reused \subseteq NumbersOnFile
  /\ Cardinality(misread') + faults' <= MaxFaults
MCSpec == MCInit /\ [][MCNext]_vars
=============================================================================
