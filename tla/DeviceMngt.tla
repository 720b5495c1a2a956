----------------------------- MODULE DeviceMngt -----------------------------
(***************************************************************************)
(* The node lists of the MAC: MngtNodeList_t of device_mngt.c and the      *)
(* operations on it, as functions from a list to a list.  A list is the    *)
(* sequence of its nodes; the program keeps two, RNL (registrations not    *)
(* yet taken over) and NODES (sorted by slot demand).                      *)
(*                                                                         *)
(* The array children[] of a node is filled from its first entry on and    *)
(* only ever cleared as a whole, so it is a sequence, and nboChildren its  *)
(* length.  Left out: the DATA statistics of a node, and nboSchReq, which  *)
(* is written and never read.                                              *)
(***************************************************************************)
EXTENDS Integers, Sequences, FiniteSets, SequencesExt

CONSTANTS Addr,         (* the addresses of the end nodes                  *)
          NoAddr,       (* the parent address 0 of a node without a parent *)
          MaxChildren   (* TWOHOP_MAX_NBO_CHILDREN                         *)

ASSUME DeviceAssumption == NoAddr \notin Addr /\ MaxChildren \in Nat \ {0}
-----------------------------------------------------------------------------
\* Slot demands are uint8_t, classes have three bits.
Uint8 == 256
Class == 0 .. 7
NodeType == {"Onehop", "Twohop"}

Child == [addr : Addr, slotDemand : 0 .. Uint8 - 1]

MngtNode == [addr : Addr, class : Class, slotDmn : 0 .. Uint8 - 1, type : NodeType,
             isConnected : BOOLEAN, schFlag : BOOLEAN, parrentAddr : Addr \cup {NoAddr},
             children : Seq(Child)]

slotDemandCalculation(class) == 2 ^ class

\* The demand of every class fits in its field.
ASSUME DemandAssumption ==
    \A class \in Class : slotDemandCalculation(class) \in 0 .. Uint8 - 1

createNewNode(addr, class, type, parrent) ==
    [addr |-> addr, class |-> class, slotDmn |-> slotDemandCalculation(class), type |-> type,
     isConnected |-> FALSE, schFlag |-> FALSE, parrentAddr |-> parrent, children |-> << >>]
-----------------------------------------------------------------------------
isNodeExisted(lst, addr) == \E i \in 1 .. Len(lst) : lst[i].addr = addr

IndexOf(lst, addr) == Min({i \in 1 .. Len(lst) : lst[i].addr = addr})

NodeAt(lst, addr) == lst[IndexOf(lst, addr)]

\* The place of a new node: behind all nodes in an unsorted list, before
\* the first node with a smaller demand in a sorted one.
PushPosition(lst, node, sort) ==
    LET smaller == {i \in 1 .. Len(lst) : sort /\ lst[i].slotDmn < node.slotDmn}
    IN  IF smaller = {} THEN Len(lst) + 1 ELSE Min(smaller)

\* A push that does not look for the address first.
pushNode_NoLookup(lst, node, sort) ==
    InsertAt(lst, PushPosition(lst, node, sort), node)

\* An existing node is overwritten where it stands (dmNodeUpdateGenInfo).
pushNode(lst, node, sort) ==
    IF isNodeExisted(lst, node.addr)
    THEN ReplaceAt(lst, IndexOf(lst, node.addr), node)
    ELSE InsertAt(lst, PushPosition(lst, node, sort), node)

popNodeByAddress(lst, addr) == RemoveAt(lst, IndexOf(lst, addr))

dmSetSchFlagAll(lst, val) == [i \in 1 .. Len(lst) |-> [lst[i] EXCEPT !.schFlag = val]]

ChildAddrs(node) == {node.children[i].addr : i \in 1 .. Len(node.children)}

\* The code follows the reference of every listed child without checking
\* that it was found.
dmSetChildConnStatus(lst, node, status) ==
    [i \in 1 .. Len(lst) |-> IF lst[i].addr \in ChildAddrs(node)
                             THEN [lst[i] EXCEPT !.isConnected = status]
                             ELSE lst[i]]
-----------------------------------------------------------------------------
IsChildOf(parent, addr) == addr \in ChildAddrs(parent)

ChildIndex(parent, addr) ==
    Min({i \in 1 .. Len(parent.children) : parent.children[i].addr = addr})

\* The slots of the children of a node: each with its place in the list.
ChildSlots(children) ==
    UNION {{i} \X (1 .. children[i].slotDemand) : i \in 1 .. Len(children)}

HasRoomFor(parent, addr) == IsChildOf(parent, addr) \/ Len(parent.children) < MaxChildren

\* A parent that pays for a child again each time the child registers.
dmAddChildToNode_PaysTwice(parent, child) ==
    LET entry == [addr |-> child.addr, slotDemand |-> child.slotDmn]
    IN  [parent EXCEPT
           !.slotDmn = (@ + 2 * child.slotDmn) % Uint8,
           !.children = IF IsChildOf(parent, child.addr)
                        THEN ReplaceAt(@, ChildIndex(parent, child.addr), entry)
                        ELSE Append(@, entry)]

\* A parent carries each slot of a child twice: to receive it and to
\* forward it.  A child that is listed already changes its entry.
dmAddChildToNode(parent, child) ==
    LET entry == [addr |-> child.addr, slotDemand |-> child.slotDmn]
        known == IsChildOf(parent, child.addr)
        pos   == ChildIndex(parent, child.addr)
        old   == IF known THEN parent.children[pos].slotDemand ELSE 0
    IN  [parent EXCEPT
           !.slotDmn  = (@ - 2 * old + 2 * child.slotDmn) % Uint8,
           !.children = IF known THEN ReplaceAt(@, pos, entry) ELSE Append(@, entry)]
-----------------------------------------------------------------------------
\* addNodeToNodeList for NODES and a one-hop node: a known node starts anew,
\* without children, and those it had are marked as disconnected.
AddOnehopNode(lst, node) ==
    LET disconnected == IF isNodeExisted(lst, node.addr)
                        THEN dmSetChildConnStatus(lst, NodeAt(lst, node.addr), FALSE)
                        ELSE lst
    IN  pushNode(disconnected, node, TRUE)

\* Whether addNodeToNodeList takes a two-hop node into NODES: its parent is
\* known and has a place for it.
TwohopAccepted(lst, node) ==
    /\ isNodeExisted(lst, node.parrentAddr)
    /\ HasRoomFor(NodeAt(lst, node.parrentAddr), node.addr)

\* A child that is put in the parent's list but not in NODES itself.
AddTwohopNode_ParentOnly(lst, node) ==
    IF ~ TwohopAccepted(lst, node) THEN lst
    ELSE LET parent == dmAddChildToNode(NodeAt(lst, node.parrentAddr), node)
         IN  pushNode(popNodeByAddress(lst, parent.addr), [parent EXCEPT !.schFlag = FALSE], TRUE)

\* A parent that is not scheduled again for its new child.
AddTwohopNode_KeepsSchFlag(lst, node) ==
    IF ~ TwohopAccepted(lst, node) THEN lst
    ELSE LET parent == dmAddChildToNode(NodeAt(lst, node.parrentAddr), node)
         IN  pushNode(pushNode(popNodeByAddress(lst, parent.addr), parent, TRUE), node, TRUE)

(* addNodeToNodeList for NODES and a two-hop node.  The parent is taken out *)
(* of the list and put back at the place of its new demand, to be scheduled *)
(* again; a full parent goes back too, and an unknown parent changes        *)
(* nothing.                                                                 *)
AddTwohopNode(lst, node) ==
    IF ~ isNodeExisted(lst, node.parrentAddr) THEN lst
    ELSE LET parent == NodeAt(lst, node.parrentAddr)
             others == popNodeByAddress(lst, parent.addr)
         IN  IF HasRoomFor(parent, node.addr)
             THEN pushNode(pushNode(others,
                                    [dmAddChildToNode(parent, node) EXCEPT !.schFlag = FALSE],
                                    TRUE),
                           node, TRUE)
             ELSE pushNode(others, parent, TRUE)
=============================================================================
