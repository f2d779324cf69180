----------------------------- MODULE ExecPorts ------------------------------
(***************************************************************************)
(* Lists and message ports of exec.library (execlist.rs) as the pointers   *)
(* they are made of, and the packets sent to the filesystem handler's port *)
(* (dospkt.rs), which are answered before PutMsg returns.                  *)
(*                                                                         *)
(* A list header is two nodes that share a longword: the one before the    *)
(* first node, whose ln_Pred is lh_Tail, and the one after the last node,  *)
(* whose ln_Succ is lh_Tail.  lh_Tail is never written after NewList.      *)
(*                                                                         *)
(* The guest links a node that is on no list, unlinks one that is on one,  *)
(* and deletes ports and requests that are not in use.                     *)
(***************************************************************************)
EXTENDS Integers, FiniteSets, Sequences

CONSTANTS
  MsgPorts,      \* blocks of memory a MsgPort can be in
  OtherLists,    \* lists that the guest made with NewList
  Nodes,         \* messages, requests and other nodes
  Pri,           \* ln_Pri of each
  NULL

Headers == MsgPorts \union OtherLists

ASSUME NodesAssumption ==
  /\ MsgPorts \cap OtherLists = {} /\ Nodes \cap Headers = {}
  /\ NULL \notin Nodes \union Headers
ASSUME PriAssumption == Pri \in [Nodes -> -128 .. 127]

VARIABLES
  ln_Succ, ln_Pred,  \* of every node, the two in each header included
  ln_Type,
  mn_ReplyPort,
  ports,       \* the MsgPorts that exist
  requests,    \* the nodes that exist
  hung,        \* WaitPort found an empty port, and ended the run
  last,        \* the last list call and what it returned
  asked        \* history: the port the answer to each packet belongs at

portVars == <<ln_Succ, ln_Pred, ln_Type, mn_ReplyPort, ports, requests, hung, last, asked>>

Front(l) == <<l, "head">>
Back(l) == <<l, "tail">>
Node(n) == <<n, "node">>
Nowhere == <<NULL, "node">>
Places == {Front(l) : l \in Headers} \union {Back(l) : l \in Headers} \union {Node(n) : n \in Nodes}

Lists == ports \union OtherLists

\* The chain from a node on, as far as the sentinel whose ln_Succ is lh_Tail.
Chain(succ, from) ==
  LET w[at \in Places] == IF succ[at] = Nowhere THEN <<at>> ELSE <<at>> \o w[succ[at]]
  IN  w[from]
NodesOf(l) ==
  LET w == Chain(ln_Succ, ln_Succ[Front(l)])
  IN  [i \in 1 .. Len(w) - 1 |-> w[i][1]]
Elements(l) == {NodesOf(l)[i] : i \in DOMAIN NodesOf(l)}

\* A node that is on no list has no pointers here (see remove_impl).
OnList(n) == ln_Succ[Node(n)] # Nowhere

\* The header fields that NewList and init_msg_port_fields set.
init_list_header(f, l, at) ==
  IF at = "succ" THEN [f EXCEPT ![Front(l)] = Back(l), ![Back(l)] = Nowhere]
  ELSE [f EXCEPT ![Back(l)] = Front(l), ![Front(l)] = Nowhere]

PortsInit ==
  LET blank == [p \in Places |-> Nowhere]
      Made(at) == [p \in Places |->
                     IF p[1] \in OtherLists THEN init_list_header(blank, p[1], at)[p] ELSE Nowhere]
  IN
  /\ ln_Succ = Made("succ") /\ ln_Pred = Made("pred")
  /\ ln_Type = [n \in Nodes |-> "none"]
  /\ mn_ReplyPort = [n \in Nodes |-> NULL]
  /\ ports = {} /\ requests = {}
  /\ hung = FALSE
  /\ last = <<"none", NULL>>
  /\ asked = [n \in Nodes |-> NULL]

\* n is linked in between two neighbours, which are named by the one before
\* (add_head_impl and insert_impl) or by the one after (add_tail_impl).
LinkAfter(pred, n) ==
  LET succ == ln_Succ[pred] IN
  /\ ln_Succ' = [ln_Succ EXCEPT ![n] = succ, ![pred] = n]
  /\ ln_Pred' = [ln_Pred EXCEPT ![n] = pred, ![succ] = n]
LinkBefore(succ, n) ==
  LET pred == ln_Pred[succ] IN
  /\ ln_Succ' = [ln_Succ EXCEPT ![n] = succ, ![pred] = n]
  /\ ln_Pred' = [ln_Pred EXCEPT ![n] = pred, ![succ] = n]

\* The neighbours are linked to each other.  The node's own pointers, which
\* nothing reads until it is linked again, are forgotten.
remove_impl(n) ==
  /\ ln_Succ' = [ln_Succ EXCEPT ![ln_Pred[n]] = ln_Succ[n], ![n] = Nowhere]
  /\ ln_Pred' = [ln_Pred EXCEPT ![ln_Succ[n]] = ln_Pred[n], ![n] = Nowhere]

\* A loose node that exists, and the first and the last node of a list.
Loose(n) == n \in requests /\ ~OnList(n)
First(l) == ln_Succ[Front(l)]
Last(l) == ln_Pred[Back(l)]
Empty(l) == ln_Succ[First(l)] = Nowhere

AddHead(l, n) ==
  /\ ~hung /\ Loose(n) /\ LinkAfter(Front(l), Node(n))
  /\ last' = <<"AddHead", NULL>>
  /\ UNCHANGED <<ln_Type, mn_ReplyPort, ports, requests, hung, asked>>

AddTail(l, n) ==
  /\ ~hung /\ Loose(n) /\ LinkBefore(Back(l), Node(n))
  /\ last' = <<"AddTail", NULL>>
  /\ UNCHANGED <<ln_Type, mn_ReplyPort, ports, requests, hung, asked>>

\* After a node of the list, or after its header, which NULL stands for too.
Insert(l, n, pred) ==
  /\ ~hung /\ Loose(n)
  /\ LinkAfter(pred, Node(n))
  /\ last' = <<"Insert", NULL>>
  /\ UNCHANGED <<ln_Type, mn_ReplyPort, ports, requests, hung, asked>>

\* The node Enqueue stops at: the first of a lower priority, or the sentinel.
bug_Stop(l, n) ==
  LET w == Chain(ln_Succ, First(l))
      lower == {i \in DOMAIN w : i = Len(w) \/ Pri[w[i][1]] <= Pri[n]}
  IN  w[CHOOSE i \in lower : \A j \in lower : i <= j]
Stop(l, n) ==
  LET w == Chain(ln_Succ, First(l))
      lower == {i \in DOMAIN w : i = Len(w) \/ Pri[w[i][1]] < Pri[n]}
  IN  w[CHOOSE i \in lower : \A j \in lower : i <= j]

Enqueue(l, n) ==
  /\ ~hung /\ Loose(n) /\ LinkAfter(ln_Pred[Stop(l, n)], Node(n))
  /\ last' = <<"Enqueue", NULL>>
  /\ UNCHANGED <<ln_Type, mn_ReplyPort, ports, requests, hung, asked>>

Remove(n) ==
  /\ ~hung /\ OnList(n) /\ remove_impl(Node(n))
  /\ last' = <<"Remove", NULL>>
  /\ asked' = [asked EXCEPT ![n] = NULL]
  /\ UNCHANGED <<ln_Type, mn_ReplyPort, ports, requests, hung>>

\* RemHead and GetMsg, RemTail: the node at one end, or NULL.
TakeNode(l, end, op) ==
  /\ ~hung
  /\ \/ /\ Empty(l)
        /\ last' = <<op, NULL>>
        /\ UNCHANGED <<ln_Succ, ln_Pred, asked>>
     \/ /\ ~Empty(l) /\ remove_impl(end)
        /\ last' = <<op, end[1]>>
        /\ asked' = [asked EXCEPT ![end[1]] = NULL]
  /\ UNCHANGED <<ln_Type, mn_ReplyPort, ports, requests, hung>>
RemHead(l) == TakeNode(l, First(l), "RemHead")
RemTail(l) == TakeNode(l, Last(l), "RemTail")

\* WaitPort leaves the message; it never waits, an empty port ends the run.
WaitPort(p) ==
  /\ ~hung
  /\ hung' = Empty(p)
  /\ last' = IF Empty(p) THEN <<"none", NULL>> ELSE <<"WaitPort", First(p)[1]>>
  /\ UNCHANGED <<ln_Succ, ln_Pred, ln_Type, mn_ReplyPort, ports, requests, asked>>

put_msg_impl(p, n, type) ==
  /\ LinkBefore(Back(p), Node(n))
  /\ ln_Type' = [ln_Type EXCEPT ![n] = type]
  /\ last' = <<"AddTail", NULL>>

PutMsg(p, n) ==
  /\ ~hung /\ Loose(n) /\ put_msg_impl(p, n, "NT_MESSAGE")
  /\ UNCHANGED <<mn_ReplyPort, ports, requests, hung, asked>>

reply_msg(n) ==
  /\ ~hung /\ Loose(n)
  /\ \/ mn_ReplyPort[n] # NULL /\ put_msg_impl(mn_ReplyPort[n], n, "NT_REPLYMSG")
     \/ /\ mn_ReplyPort[n] = NULL
        /\ ln_Type' = [ln_Type EXCEPT ![n] = "NT_REPLYMSG"]
        /\ last' = <<"none", NULL>>
        /\ UNCHANGED <<ln_Succ, ln_Pred>>
  /\ UNCHANGED <<mn_ReplyPort, ports, requests, hung>>
ReplyMsg(n) == reply_msg(n) /\ UNCHANGED asked

\* A packet whose dp_Port is p is put to the filesystem handler's port: the
\* action it asks for is done, known or not, and the answer goes to dp_Port.
bug_handle_fs_packet(p, n) == reply_msg(n) /\ asked' = [asked EXCEPT ![n] = p]
handle_fs_packet(p, n) ==
  /\ ~hung /\ Loose(n) /\ put_msg_impl(p, n, "NT_REPLYMSG")
  /\ asked' = [asked EXCEPT ![n] = p]
  /\ UNCHANGED <<mn_ReplyPort, ports, requests, hung>>

CreateMsgPort(p) ==
  /\ ~hung /\ p \notin ports
  /\ ports' = ports \union {p}
  /\ ln_Succ' = init_list_header(ln_Succ, p, "succ")
  /\ ln_Pred' = init_list_header(ln_Pred, p, "pred")
  /\ last' = <<"none", NULL>>
  /\ UNCHANGED <<ln_Type, mn_ReplyPort, requests, hung, asked>>

DeleteMsgPort(p) ==
  /\ ~hung /\ p \in ports
  /\ Empty(p) /\ \A n \in requests : mn_ReplyPort[n] # p
  /\ ports' = ports \ {p}
  /\ last' = <<"none", NULL>>
  /\ UNCHANGED <<ln_Succ, ln_Pred, ln_Type, mn_ReplyPort, requests, hung, asked>>

CreateIORequest(n, p) ==
  /\ ~hung /\ n \notin requests
  /\ requests' = requests \union {n}
  /\ ln_Type' = [ln_Type EXCEPT ![n] = "NT_MESSAGE"]
  /\ mn_ReplyPort' = [mn_ReplyPort EXCEPT ![n] = p]
  /\ last' = <<"none", NULL>>
  /\ UNCHANGED <<ln_Succ, ln_Pred, ports, hung, asked>>

\* What was in the freed block is forgotten.
DeleteIORequest(n) ==
  /\ ~hung /\ Loose(n)
  /\ requests' = requests \ {n}
  /\ ln_Type' = [ln_Type EXCEPT ![n] = "none"]
  /\ mn_ReplyPort' = [mn_ReplyPort EXCEPT ![n] = NULL]
  /\ last' = <<"none", NULL>>
  /\ UNCHANGED <<ln_Succ, ln_Pred, ports, hung, asked>>

PortsNext ==
  \/ \E n \in Nodes :
       \/ \E l \in OtherLists : \/ AddHead(l, n) \/ AddTail(l, n) \/ Enqueue(l, n)
                               \/ \E pred \in {Front(l)} \union {Node(m) : m \in Elements(l)} :
                                     Insert(l, n, pred)
       \/ \E p \in ports : PutMsg(p, n) \/ handle_fs_packet(p, n)
       \/ Remove(n) \/ ReplyMsg(n) \/ DeleteIORequest(n)
       \/ \E p \in ports \union {NULL} : CreateIORequest(n, p)
  \/ \E l \in Lists : RemHead(l) \/ RemTail(l)
  \/ \E p \in ports : WaitPort(p) \/ DeleteMsgPort(p)
  \/ \E p \in MsgPorts : CreateMsgPort(p)

PortsSpec == PortsInit /\ [][PortsNext]_portVars

-----------------------------------------------------------------------------
(* Properties *)

\* The nodes in each list, none in a header that is not one now.
contents == [l \in Headers |-> IF l \in Lists THEN NodesOf(l) ELSE <<>>]

\* Lists and ports are queues, whichever calls are mixed on them: each call
\* finds, links and unlinks what it would in a sequence, from both ends, and
\* no list ever gets a node of another, though all of it is done through the
\* pointers of the neighbours and headers with no test for an empty list.
sequences == INSTANCE Queues WITH
            Lists <- Headers, Things <- Nodes, Priority <- Pri, Nobody <- NULL, queue <- contents
PortsAreQueues == sequences!Spec

\* A client that sent a packet finds its answer: from PutMsg until the client
\* takes it, the packet waits, replied, at the port the packet named, whatever
\* the reply port of its message is.  So neither GetMsg nor WaitPort there
\* comes back without it, and WaitPort does not end the run.
PacketsAnswered ==
  \A n \in Nodes : asked[n] # NULL =>
    /\ ln_Type[n] = "NT_REPLYMSG" /\ asked[n] \in ports
    /\ n \in Elements(asked[n])
=============================================================================
