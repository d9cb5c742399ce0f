----------------------------- MODULE Forwarding -----------------------------
(***************************************************************************)
(* Unicast packets between the network manager and the motes:             *)
(* forwarding.c, iphc.c, openbridge.c, icmpv6echo.c, and what              *)
(* opencoap_receive does with a command.  A packet goes up by preferred    *)
(* parents; the manager's commands come down by the source route that      *)
(* SourceRoutingHeader.java writes.  The MAC below delivers, gives up, or  *)
(* delivers without learning of it; each mote has a few packet buffers.    *)
(*                                                                         *)
(* What forwarding_receive finds out about loops and directions is only    *)
(* printed and decides nothing: it is left out.                            *)
(***************************************************************************)
EXTENDS Integers, Sequences, FiniteSets, SequencesExt, FiniteSetsExt

CONSTANTS
    Motes, Root, Server, NoHop,
    Links,              \* pairs that hear each other: each other's stable neighbors
    Origins,            \* nodes where packets are made, beside the manager
    Buffers,            \* QUEUELENGTH
    HopLimit,           \* IPHC_DEFAULT_HOP_LIMIT
    ServerHopLimit,     \* the hop limit the manager writes
    MaxCopies           \* packets made, and duplicates by lost acknowledgements

Nodes == Motes \cup {Root}
Linked(n) == {k \in Nodes : {n, k} \in Links}

ASSUME ForwardingAssumption ==
    /\ Root \notin Motes /\ Server \notin Nodes /\ NoHop \notin Nodes
    /\ \A l \in Links : \E n, k \in Nodes : n # k /\ l = {n, k}
    /\ Origins \subseteq Nodes
    /\ {Buffers, HopLimit, ServerHopLimit, MaxCopies} \subseteq Nat

VARIABLES
    buf,        \* openqueue: buf[n][b]
    busy,       \* icmpv6echo_vars.busySending
    made,       \* packets made so far
    spent,      \* packets and duplicates so far, what MaxCopies bounds
    arrived,    \* history: how often packet i reached its end
    copies,     \* history: how often packet i was duplicated on the air
    excused,    \* history: packets the network may have lost
    misread     \* history: a command was handed up elsewhere, or in part

history == <<arrived, copies, excused, misread>>
vars == <<buf, busy, made, spent, history>>

-----------------------------------------------------------------------------
(* Packets.                                                                *)

Free == [st |-> "free"]

FreeBuffers(n) == {b \in 1 .. Buffers : buf[n][b] = Free}
FirstFree(n)   == Min(FreeBuffers(n))

\* seen and circled are history: the motes that have sent the packet on, and
\* whether one of them did so twice.
NewPacket(i, kind, src, dst, creator) ==
    [st |-> "new", id |-> i, kind |-> kind, src |-> src, dst |-> dst, hops |-> HopLimit,
     routed |-> FALSE, route |-> <<>>, left |-> 0, creator |-> creator, next |-> NoHop,
     seen |-> {}, circled |-> FALSE]

\* What is left to do for a packet when the MAC is through with it: sendDone
\* goes by its creator.
Sent(p) == [st |-> "sent", creator |-> p.creator]

Spend == spent < MaxCopies /\ spent' = spent + 1

-----------------------------------------------------------------------------
(* Going down the stack.                                                   *)

\* forwarding_getNextHop.  The preferred parent is what RPL has made of it by
\* now: any neighbor, or none.
NextHops(m, dst) == IF dst \in Linked(m) THEN {dst} ELSE Linked(m) \cup {NoHop}

\* Mutant: the hop limit is not looked at.
FailsUnlimited(n, p, next) == n = Root \/ next = NoHop

\* E_FAIL of forwarding_send_internal_RoutingTable: the root has no routing of
\* its own, there is no next hop, or the packet has come too far.
Fails(n, p, next) == n = Root \/ next = NoHop \/ p.hops = 0

\* iphc_sendFromForwarding and sixtop_send.
Queued(n, p, next) ==
    [p EXCEPT !.st = "queued", !.next = next, !.hops = @ - 1,
              !.seen = IF p.circled THEN {} ELSE @ \cup {n},
              !.circled = @ \/ n \in p.seen]

\* What the buffer holds after the packet was given to forwarding: every caller
\* frees the buffer of a packet that could not be sent.
Outgoing(n, p, next) == IF Fails(n, p, next) THEN Free ELSE Queued(n, p, next)

\* A packet may be dropped for its hop limit when it has gone in a circle.
Excuse(n, p, next) ==
    IF n = Root \/ next = NoHop \/ (p.hops = 0 /\ (p.circled \/ n \in p.seen))
    THEN {p.id} ELSE {}

-----------------------------------------------------------------------------
(* New packets.                                                            *)

\* icmpv6echo_trigger, by a command from a mote's serial line.
Trigger(n, dst) ==
    /\ Spend /\ ~busy[n] /\ FreeBuffers(n) # {}
    /\ made' = made + 1
    /\ \E next \in NextHops(n, dst) :
           LET p == NewPacket(made', "request", n, dst, "echo")
           IN  /\ buf' = [buf EXCEPT ![n][FirstFree(n)] = Outgoing(n, p, next)]
               /\ busy' = [busy EXCEPT ![n] = ~Fails(n, p, next)]
               /\ excused' = excused \cup Excuse(n, p, next)
    /\ UNCHANGED <<arrived, copies, misread>>

\* An application reports to the manager: openudp_send.
Report(m) ==
    /\ Spend /\ FreeBuffers(m) # {}
    /\ made' = made + 1
    /\ \E next \in NextHops(m, Server) :
           LET p == NewPacket(made', "report", m, Server, "udp")
           IN  /\ buf' = [buf EXCEPT ![m][FirstFree(m)] = Outgoing(m, p, next)]
               /\ excused' = excused \cup Excuse(m, p, next)
    /\ UNCHANGED <<busy, arrived, copies, misread>>

\* The paths from the root in the manager's graph.
Paths == {s \in SeqOf(Motes, 3) : /\ s # <<>> /\ s[1] \in Linked(Root)
                                  /\ \A i \in 1 .. Len(s) - 1 : s[i + 1] \in Linked(s[i])
                                  /\ \A i, j \in DOMAIN s : s[i] = s[j] => i = j}

\* CoAPBuilder: a command to a mote in the root's table carries no route.  The
\* addresses of a route are those behind the first hop, in their order.
CommandOn(i, path, routed) ==
    [NewPacket(i, "command", Server, Last(path), "bridge") EXCEPT
        !.st = "queued", !.next = Head(path), !.hops = ServerHopLimit,
        !.routed = routed, !.route = Tail(path), !.left = Len(path) - 1]

\* openbridge_triggerData, for a command that has come over the serial line.
Command(path, routed) ==
    /\ Spend /\ FreeBuffers(Root) # {}
    /\ routed \/ Len(path) = 1
    /\ made' = made + 1
    /\ buf' = [buf EXCEPT ![Root][FirstFree(Root)] = CommandOn(made', path, routed)]
    /\ UNCHANGED <<busy, history>>

-----------------------------------------------------------------------------
(* The MAC.                                                                *)

Reaches(n, p) == p.next \in Linked(n) /\ FreeBuffers(p.next) # {}

Put(k, p) == [buf[k] EXCEPT ![FirstFree(k)] = [p EXCEPT !.st = "received", !.next = NoHop]]

Deliver(n, b) == LET p == buf[n][b] IN
    /\ Reaches(n, p)
    /\ buf' = [buf EXCEPT ![n][b] = Sent(p), ![p.next] = Put(p.next, p)]
    /\ UNCHANGED <<busy, made, spent, history>>

\* The acknowledgement is lost: the sender tries again, or gives up.
DeliverUnacknowledged(n, b) == LET p == buf[n][b] IN
    /\ Reaches(n, p)
    /\ Spend
    /\ buf' = [buf EXCEPT ![p.next] = Put(p.next, p)]
    /\ copies' = [copies EXCEPT ![p.id] = @ + 1]
    /\ UNCHANGED <<busy, made, arrived, excused, misread>>

\* After TXRETRIES, whatever the reason.
GiveUp(n, b) == LET p == buf[n][b] IN
    /\ buf' = [buf EXCEPT ![n][b] = Sent(p)]
    /\ excused' = excused \cup {p.id}
    /\ UNCHANGED <<busy, made, spent, arrived, copies, misread>>

Transmit(n, b) ==
    /\ buf[n][b].st = "queued"
    /\ Deliver(n, b) \/ DeliverUnacknowledged(n, b) \/ GiveUp(n, b)

\* Mutant: icmpv6echo_sendDone leaves the flag.
BusyAfterForgotten(n, p) == busy[n]

\* iphc_sendDone, forwarding_sendDone and the creator's sendDone: all free the
\* buffer, the echo module ends its wait.
BusyAfter(n, p) == busy[n] /\ p.creator # "echo"

SendDone(n, b) ==
    /\ buf[n][b].st = "sent"
    /\ buf' = [buf EXCEPT ![n][b] = Free]
    /\ busy' = [busy EXCEPT ![n] = BusyAfter(n, buf[n][b])]
    /\ UNCHANGED <<made, spent, history>>

-----------------------------------------------------------------------------
(* Going up the stack.                                                     *)

\* Octets of HdrExtLen as the manager writes it, for n addresses.
HdrExtLen(n) == 8 * n

\* The last hop cuts off as many addresses of 8 octets as HdrExtLen says, in a
\* parameter of 8 bits.  What is left is the command, or some of it, or bytes
\* from behind it.
Whole(p) == ~p.routed \/ (8 * HdrExtLen(Len(p.route))) % 256 = 8 * Len(p.route)

\* openbridge_receive: the root hands every unicast packet to the manager.
Bridge(b) == LET p == buf[Root][b] IN
    /\ buf' = [buf EXCEPT ![Root][b] = Free]
    /\ arrived' = [arrived EXCEPT ![p.id] = @ + 1]
    /\ UNCHANGED <<busy, made, spent, copies, excused, misread>>

\* icmpv6echo_receive of a request: the reply takes a second buffer before the
\* request gives up its own, and the flag is the reply's from then on.
AnswerEcho(m, b, next) == LET p == buf[m][b]
                              r == NewPacket(p.id, "reply", m, p.src, "echo") IN
    /\ p.kind = "request"
    /\ \/ /\ FreeBuffers(m) # {}
          /\ buf' = [buf EXCEPT ![m] = [@ EXCEPT ![b] = Free,
                                                ![FirstFree(m)] = Outgoing(m, r, next)]]
          /\ busy' = [busy EXCEPT ![m] = ~Fails(m, r, next)]
          /\ excused' = excused \cup Excuse(m, r, next)
       \/ /\ FreeBuffers(m) = {}
          /\ buf' = [buf EXCEPT ![m][b] = Free]
          /\ excused' = excused \cup {p.id}
          /\ UNCHANGED busy
    /\ UNCHANGED <<arrived, copies, misread>>

TakeReply(m, b) == LET p == buf[m][b] IN
    /\ p.kind = "reply"
    /\ buf' = [buf EXCEPT ![m][b] = Free]
    /\ arrived' = [arrived EXCEPT ![p.id] = @ + 1]
    /\ UNCHANGED <<busy, copies, excused, misread>>

\* opencoap_receive answers in the buffer of the command.  Bytes that are no
\* command are freed.
Execute(m, b, next) == LET p == buf[m][b]
                           answer == NewPacket(p.id, "report", m, p.src, "udp") IN
    /\ p.kind = "command"
    /\ misread' = (misread \/ m # p.dst \/ ~Whole(p))
    /\ \/ /\ Whole(p)
          /\ buf' = [buf EXCEPT ![m][b] = Outgoing(m, answer, next)]
          /\ excused' = excused \cup Excuse(m, answer, next)
          /\ UNCHANGED arrived
       \/ /\ ~Whole(p)
          /\ buf' = [buf EXCEPT ![m][b] = Free]
          /\ arrived' = [arrived EXCEPT ![p.id] = @ + 1]
          /\ UNCHANGED excused
    /\ UNCHANGED <<busy, copies>>

HandUp(m, b) ==
    \/ \E next \in NextHops(m, buf[m][b].src) : AnswerEcho(m, b, next) \/ Execute(m, b, next)
    \/ TakeReply(m, b)

\* Mutant: the relayed packet is copied into a buffer of its own.
RelayedCopy(m, b, p, next) ==
    IF FreeBuffers(m) = {} THEN [buf[m] EXCEPT ![b] = Outgoing(m, p, next)]
    ELSE [buf[m] EXCEPT ![FirstFree(m)] = Outgoing(m, p, next)]

Relayed(m, b, p, next) == [buf[m] EXCEPT ![b] = Outgoing(m, p, next)]

\* forwarding_receive of a packet for another mote.
Relay(m, b) == LET p == [buf[m][b] EXCEPT !.creator = "forwarding"] IN
    /\ ~p.routed /\ p.dst # m
    /\ \E next \in NextHops(m, p.dst) :
           /\ buf' = [buf EXCEPT ![m] = Relayed(m, b, p, next)]
           /\ excused' = excused \cup Excuse(m, p, next)
    /\ UNCHANGED <<busy, arrived, copies, misread>>

\* forwarding_send_internal_SourceRouting: the number of segments left, taken
\* down by one, is the position of the next address.
FollowRoute(m, b) ==
    LET p == [buf[m][b] EXCEPT !.creator = "forwarding", !.left = @ - 1]
    IN  /\ p.routed /\ p.left >= 0 /\ p.hops > 0
        /\ buf' = [buf EXCEPT ![m][b] = Queued(m, p, p.route[p.left + 1])]
        /\ UNCHANGED <<busy, arrived, copies, excused, misread>>

ReceiveAtMote(m, b) ==
    /\ \/ Relay(m, b)
       \/ FollowRoute(m, b)
       \/ (IF buf[m][b].routed THEN buf[m][b].left = 0 ELSE buf[m][b].dst = m) /\ HandUp(m, b)
    /\ UNCHANGED <<made, spent>>

\* iphc_receive.
Receive(n, b) ==
    /\ buf[n][b].st = "received"
    /\ IF n = Root THEN Bridge(b) ELSE ReceiveAtMote(n, b)

-----------------------------------------------------------------------------
Init ==
    /\ buf = [n \in Nodes |-> [b \in 1 .. Buffers |-> Free]]
    /\ busy = [n \in Nodes |-> FALSE]
    /\ made = 0 /\ spent = 0
    /\ arrived = [i \in 1 .. MaxCopies |-> 0]
    /\ copies = [i \in 1 .. MaxCopies |-> 0]
    /\ excused = {}
    /\ misread = FALSE

Originate ==
    \/ \E n \in Origins : \E dst \in Motes \ {n} : Trigger(n, dst)
    \/ \E m \in Origins \ {Root} : Report(m)
    \/ \E path \in Paths, routed \in BOOLEAN : Command(path, routed)

Handle == \E n \in Nodes, b \in 1 .. Buffers : Transmit(n, b) \/ SendDone(n, b) \/ Receive(n, b)

Next == Originate \/ Handle

Spec == Init /\ [][Next]_vars

\* The motes' slots and tasks go on.
FairSpec == Spec /\ WF_vars(Handle)

-----------------------------------------------------------------------------
\* The buffers that hold a copy of packet i on its way.
Alive(i) == {s \in Nodes \X (1 .. Buffers) : LET p == buf[s[1]][s[2]] IN
                p.st \in {"queued", "received"} /\ p.id = i}

Packet == [st : {"queued", "received"}, id : 1 .. made,
           kind : {"request", "reply", "report", "command"},
           src : Nodes \cup {Server}, dst : Motes \cup {Server},
           hops : (0 .. HopLimit) \cup (0 .. ServerHopLimit),
           routed : BOOLEAN, route : SeqOf(Motes, 2), left : 0 .. 2,
           creator : {"echo", "udp", "bridge", "forwarding"}, next : Nodes \cup {NoHop},
           seen : SUBSET Motes, circled : BOOLEAN]

\* Every buffer is free, or holds a packet on its way, or one that is done with.
ForwardingTypeOK ==
    /\ \A n \in Nodes, b \in 1 .. Buffers :
           \/ buf[n][b] = Free
           \/ buf[n][b].st = "sent"
           \/ buf[n][b] \in Packet /\ buf[n][b].left <= Len(buf[n][b].route)
    /\ busy \in [Nodes -> BOOLEAN]

\* A packet is multiplied by lost acknowledgements only, and it disappears only
\* when the MAC gave it up, a mote had no next hop or no buffer for it, or its
\* hop limit ended a walk in a circle.  An echo that answers a request, or a
\* report that answers a command, takes its place.
PacketsAccounted ==
    \A i \in 1 .. made :
        /\ Cardinality(Alive(i)) + arrived[i] <= 1 + copies[i]
        /\ Alive(i) # {} \/ arrived[i] > 0 \/ i \in excused

\* However the parents change, and though loops are not broken, every packet
\* leaves the network, every buffer is given back, and no mote waits for the end
\* of an echo for ever.
TravelEnds ==
    <>[](\A n \in Nodes : FreeBuffers(n) = 1 .. Buffers /\ ~busy[n])

\* A command that is handed up is handed up whole, by the mote it is meant for:
\* the route is read as the manager has written it.
RoutesAgree == ~misread

=============================================================================
