------------------------------- MODULE Cluster -------------------------------
(***************************************************************************)
(* The scheduler's table of nodes.  Every operation holds the table's      *)
(* lock, so each is one step; what can go wrong is what one operation      *)
(* forgets of another's: a capacity that is detected anew, a node that     *)
(* registers again or comes back from the dead.                            *)
(*                                                                         *)
(* The service calls RegisterNode, Heartbeat, UpdateNodeCapacity and       *)
(* ToggleDrain; placement, DrainNode and evacuation have no caller yet but *)
(* the tests, and are modelled as the operations they are.                 *)
(***************************************************************************)
EXTENDS Integers, FiniteSets

CONSTANTS NodeIds,      \* the nodes; LocalNode is the one the scheduler runs on
          LocalNode,
          NodeLabels,   \* [NodeIds -> the label a node registers with]
          Loads,        \* what a node has: the workloads it may register with
          MaxUnits,     \* memory and CPU of a node, in units
          MaxRegisters  \* bound on the registrations of a workload

ASSUME ClusterAssumption ==
    /\ IsFiniteSet(NodeIds) /\ LocalNode \in NodeIds
    /\ MaxUnits \in Nat /\ MaxRegisters \in Nat

VARIABLES
    node,        \* the table
    overdue,     \* nodes whose last heartbeat is older than the timeout
    registered,  \* by workload: how often a node registered with it
    evacuated    \* by workload: how often EvacuateOfflineNodes returned it

clusterVars == <<node, overdue, registered, evacuated>>

Units  == 0 .. MaxUnits
AnyLabel == "any"
NoNode == [status |-> "absent", mem |-> 0, cpu |-> 0, loads |-> {}]

Known(n) == node[n].status # "absent"

ClusterTypeOK ==
    /\ node \in [NodeIds -> [status : {"absent", "ready", "draining", "offline"},
                             mem : Int, cpu : Int, loads : SUBSET Loads]]
    /\ overdue \subseteq NodeIds
    /\ registered \in [Loads -> 0 .. MaxRegisters]
    /\ evacuated \in [Loads -> Nat]

\* What the machine says of itself: the memory that is not available, and the
\* load average, at most the number of cores.  An available memory above the
\* total counts as a fifth of the total in use.
DetectSystemCapacity(avail, load) ==
    [mem |-> IF MaxUnits - avail < 0 THEN MaxUnits \div 5 ELSE MaxUnits - avail,
     cpu |-> IF load > MaxUnits THEN MaxUnits ELSE load]

Detections == {DetectSystemCapacity(a, l) : a, l \in 0 .. MaxUnits + 1}

\* DetectHostNode, registered when the scheduler starts.
ClusterInit ==
    /\ \E c \in Detections :
           node = [n \in NodeIds |-> IF n = LocalNode
                                     THEN [status |-> "ready", mem |-> c.mem, cpu |-> c.cpu, loads |-> {}]
                                     ELSE NoNode]
    /\ overdue    = {}
    /\ registered = [w \in Loads |-> 0]
    /\ evacuated  = [w \in Loads |-> 0]

\* A node as its body describes it replaces the one of its id, what was placed
\* there and all.
RegisterNode(n, loads) ==
    /\ \A w \in loads : registered[w] < MaxRegisters
    /\ node' = [node EXCEPT ![n] = [status |-> "ready", mem |-> 0, cpu |-> 0, loads |-> loads]]
    /\ overdue' = overdue \ {n}
    /\ registered' = [w \in Loads |-> IF w \in loads THEN registered[w] + 1 ELSE registered[w]]
    /\ UNCHANGED evacuated

Heartbeat(n) ==
    /\ Known(n)
    /\ node' = [node EXCEPT ![n].status = IF @ = "offline" THEN "ready" ELSE @]
    /\ overdue' = overdue \ {n}
    /\ UNCHANGED <<registered, evacuated>>

\* Listing the nodes detects the local one's capacity anew.
UpdateNodeCapacity(c) ==
    /\ Known(LocalNode)
    /\ node' = [node EXCEPT ![LocalNode].mem = c.mem, ![LocalNode].cpu = c.cpu]
    /\ overdue' = overdue \ {LocalNode}
    /\ UNCHANGED <<registered, evacuated>>

\* An offline node that is drained drains, and is ready the next time.
ToggleDrain(n) ==
    /\ Known(n)
    /\ node' = [node EXCEPT ![n].status = IF @ = "draining" THEN "ready" ELSE "draining"]
    /\ overdue' = overdue \ {n}
    /\ UNCHANGED <<registered, evacuated>>

\* Returns the workloads, and leaves them where they are.
DrainNode(n) ==
    /\ Known(n)
    /\ node' = [node EXCEPT ![n].status = "draining"]
    /\ overdue' = overdue \ {n}
    /\ UNCHANGED <<registered, evacuated>>

\* The timeout of a node's heartbeat passes.
Miss(n) ==
    /\ Known(n) /\ n \notin overdue
    /\ overdue' = overdue \cup {n}
    /\ UNCHANGED <<node, registered, evacuated>>

Dying == {n \in overdue : node[n].status # "offline"}

\* Mutant: the workloads are copied and not taken.
EvacuateCopies ==
    /\ Dying # {}
    /\ node' = [n \in NodeIds |-> IF n \in Dying
                                  THEN [node[n] EXCEPT !.status = "offline", !.mem = 0, !.cpu = 0]
                                  ELSE node[n]]
    /\ evacuated' = [w \in Loads |-> IF \E n \in Dying : w \in node[n].loads
                                     THEN evacuated[w] + 1 ELSE evacuated[w]]
    /\ UNCHANGED <<overdue, registered>>

\* A workload that several dying nodes registered with is returned for each.
EvacuateOfflineNodes ==
    LET times(w) == Cardinality({n \in Dying : w \in node[n].loads})
    IN  /\ Dying # {}
        /\ node' = [n \in NodeIds |->
                        IF n \in Dying
                        THEN [status |-> "offline", mem |-> 0, cpu |-> 0, loads |-> {}]
                        ELSE node[n]]
        /\ evacuated' = [w \in Loads |-> evacuated[w] + times(w)]
        /\ UNCHANGED <<overdue, registered>>

Fits(n, mem, cpu, label) == /\ node[n].status = "ready"
                            /\ label \in {AnyLabel, NodeLabels[n]}
                            /\ MaxUnits - node[n].mem >= mem
                            /\ MaxUnits - node[n].cpu >= cpu

\* Of the nodes that fit, one with the most memory left.
SelectPlacementNode(n, mem, cpu, label) ==
    /\ Fits(n, mem, cpu, label)
    /\ \A m \in NodeIds : Fits(m, mem, cpu, label) => node[n].mem <= node[m].mem
    /\ node' = [node EXCEPT ![n].mem = @ + mem, ![n].cpu = @ + cpu]
    /\ UNCHANGED <<overdue, registered, evacuated>>

ClusterNext ==
    \/ \E n \in NodeIds : \/ \E loads \in SUBSET Loads : RegisterNode(n, loads)
                          \/ Heartbeat(n) \/ ToggleDrain(n) \/ DrainNode(n) \/ Miss(n)
                          \/ \E mem, cpu \in Units, label \in {AnyLabel, NodeLabels[n]} :
                                 SelectPlacementNode(n, mem, cpu, label)
    \/ \E c \in Detections : UpdateNodeCapacity(c)
    \/ EvacuateOfflineNodes

ClusterSpec == ClusterInit /\ [][ClusterNext]_clusterVars

-----------------------------------------------------------------------------
(* Properties                                                              *)

\* No order of placements, detections, registrations and evacuations hands out
\* more than a node has, and a workload is evacuated no more often than a node
\* registered with it, however often that node dies and comes back.
NodesAccountFor ==
    /\ \A n \in NodeIds : node[n].mem \in Units /\ node[n].cpu \in Units
    /\ \A w \in Loads : evacuated[w] <= registered[w]
=============================================================================
