------------------------------ MODULE NetStack ------------------------------
(***************************************************************************)
(* The bare-metal TCP/IP stack, platforms/bare-metal/src/net.rs, and the   *)
(* calls of platform.rs that use it.  It is polled from the calling        *)
(* thread: nothing arrives and no lease changes but inside a call.  One    *)
(* step of a call is one turn of its loop; what poll brought in is the     *)
(* steps of the network before it.                                         *)
(*                                                                         *)
(* Sockets are those of smoltcp, a library: an index of a SocketSet, which *)
(* add takes from the free ones, and a TCP state.  The clock is kept as    *)
(* the time left until the deadline of the running call.                   *)
(***************************************************************************)
EXTENDS Integers, FiniteSets, FiniteSetsExt, Functions

CONSTANTS
    Timeout,            \* NET_TIMEOUT_MILLIS; 15 s in send and recv, 5 s in net_status
    FirstPort, LastPort,    \* FIRST_EPHEMERAL_PORT, u16::MAX
    SocketBound,        \* bound: sockets of the set at one time
    HandleBound,        \* bound: connections made
    QueueBound          \* bound: data in a receive buffer

ASSUME NetAssumption ==
    /\ Timeout \in Nat /\ SocketBound \in Nat /\ HandleBound \in Nat /\ QueueBound \in Nat
    /\ FirstPort \in Nat /\ LastPort \in Nat /\ FirstPort <= LastPort

NoHandle == 0

VARIABLES
    configured,     \* address.is_some()
    servers,        \* dns_servers is not empty
    answer,         \* of the running DNS query
    sockets,        \* the TCP sockets, by index
    connections,    \* connections: handle to index
    next_handle,
    next_port,
    call,           \* the running call and how far it is
    subject,        \* its handle, or the index of the socket it opens
    left,           \* time until its deadline
    spent,          \* history: time since it began, until its deadline passed
    dropped,        \* history: sockets that connect() refused
    reply           \* of the last call

lease == <<configured, servers>>
ids == <<next_handle, next_port>>
clock == <<left, spent>>
running == <<call, subject, clock>>
vars == <<lease, answer, sockets, connections, ids, running, dropped, reply>>

Idle == call = "idle"

\* The states of a socket that the code tells apart: on its way, Established, closed by
\* the peer (CloseWait), Closed.
NewSocket(state) == [state |-> state, queued |-> 0, full |-> FALSE]
CanRecv(s) == s.queued > 0
MayRecv(s) == s.state = "established" \/ s.queued > 0
MaySend(s) == s.state \in {"established", "closewait"}
CanSend(s) == MaySend(s) /\ ~s.full

-----------------------------------------------------------------------------
(***************************************************************************)
(* What poll brings in.                                                    *)
(***************************************************************************)

\* DHCP: a lease with or without DNS servers.
Configured(withServers) ==
    /\ ~Idle
    /\ configured' = TRUE /\ servers' = withServers
    /\ UNCHANGED <<answer, sockets, connections, ids, running, dropped, reply>>

\* The lease is lost; dns_servers stays.
Deconfigured ==
    /\ ~Idle
    /\ configured' = FALSE
    /\ UNCHANGED <<servers, answer, sockets, connections, ids, running, dropped, reply>>

Answered(result) ==
    /\ call = "resolve" /\ answer = "pending"
    /\ answer' = result
    /\ UNCHANGED <<lease, sockets, connections, ids, running, dropped, reply>>

\* The next states of a socket when a segment arrives, is acknowledged or times out.
Segments(s) ==
    {[s EXCEPT !.state = "closed"], [s EXCEPT !.full = FALSE]}
    \cup (IF s.state = "syn" THEN {[s EXCEPT !.state = "established"]} ELSE {})
    \cup (IF s.state = "established" THEN {[s EXCEPT !.state = "closewait"]} ELSE {})
    \cup (IF s.state = "established" /\ s.queued < QueueBound
          THEN {[s EXCEPT !.queued = @ + 1]} ELSE {})

Arrives(i, s) ==
    /\ ~Idle
    /\ sockets' = [sockets EXCEPT ![i] = s]
    /\ UNCHANGED <<lease, answer, connections, ids, running, dropped, reply>>

\* The clock of with_net.
Tick ==
    /\ ~Idle /\ left > 0
    /\ left' = left - 1 /\ spent' = spent + 1
    /\ UNCHANGED <<lease, answer, sockets, connections, ids, call, subject, dropped, reply>>
-----------------------------------------------------------------------------
(***************************************************************************)
(* connect.                                                                *)
(***************************************************************************)

\* clock() + timeout is the deadline of the whole call.
Starts == Idle /\ left' = Timeout /\ spent' = 0

Ends(result) == call' = "idle" /\ subject' = NoHandle /\ reply' = result

Added(index, state) ==
    [i \in DOMAIN sockets \cup {index} |-> IF i = index THEN NewSocket(state) ELSE sockets[i]]
Remove(index) == Restrict(sockets, DOMAIN sockets \ {index})

AllocatePort == next_port' = IF next_port = LastPort THEN FirstPort ELSE next_port + 1

\* A socket is added and connect() accepts it, or refuses it and the socket stays in the
\* set: its address may be gone with the lease, or the remote one is not addressable.
OpenSocket ==
    LET index == Min(1 .. SocketBound \ DOMAIN sockets) IN
    /\ AllocatePort
    /\ \/ /\ configured
          /\ sockets' = Added(index, "syn")
          /\ call' = "syn" /\ subject' = index
          /\ UNCHANGED <<dropped, reply>>
       \/ /\ sockets' = Added(index, "closed")
          /\ dropped' = dropped \cup {index}
          /\ Ends("error")
    /\ UNCHANGED <<connections, next_handle>>

\* resolve, up to its loop: an address needs no query; for a name there may be no server,
\* or start_query refuses it.
Resolve ==
    \/ OpenSocket /\ UNCHANGED answer
    \/ /\ Ends("error")
       /\ UNCHANGED <<answer, sockets, connections, ids, dropped>>
    \/ /\ servers
       /\ call' = "resolve" /\ subject' = NoHandle /\ answer' = "pending"
       /\ UNCHANGED <<sockets, connections, ids, dropped, reply>>

BeginConnect ==
    /\ next_handle <= HandleBound /\ Cardinality(DOMAIN sockets) < SocketBound
    /\ Starts
    /\ \/ configured /\ Resolve
       \/ /\ ~configured
          /\ call' = "lease" /\ subject' = NoHandle
          /\ UNCHANGED <<answer, sockets, connections, ids, dropped, reply>>
    /\ UNCHANGED lease

LeaseTurn ==
    /\ call = "lease" /\ configured
    /\ Resolve
    /\ UNCHANGED <<lease, clock>>

\* Mutation: every phase has a deadline of its own.
ResolveTurn_NewDeadline ==
    /\ call = "resolve" /\ answer = "address"
    /\ OpenSocket /\ answer' = "none"
    /\ left' = Timeout
    /\ UNCHANGED <<lease, spent>>

ResolveTurn ==
    /\ call = "resolve"
    /\ \/ answer = "address" /\ OpenSocket
       \/ /\ answer = "failed"
          /\ Ends("error")
          /\ UNCHANGED <<sockets, connections, ids, dropped>>
    /\ answer' = "none"
    /\ UNCHANGED <<lease, clock>>

ConnectTurn ==
    /\ call = "syn"
    /\ \/ /\ sockets[subject].state = "established"
          /\ connections' = [h \in DOMAIN connections \cup {next_handle} |->
                                IF h = next_handle THEN subject ELSE connections[h]]
          /\ next_handle' = next_handle + 1
          /\ Ends("connected")
          /\ UNCHANGED sockets
       \/ /\ sockets[subject].state = "closed"
          /\ sockets' = Remove(subject)
          /\ Ends("error")
          /\ UNCHANGED <<connections, next_handle>>
    /\ UNCHANGED <<lease, answer, next_port, clock, dropped>>

-----------------------------------------------------------------------------
(***************************************************************************)
(* The other calls.                                                        *)
(***************************************************************************)

\* net_status waits a while for a lease; with one it reports at once.
BeginStatus ==
    /\ Starts
    /\ \/ configured /\ Ends("status")
       \/ ~configured /\ call' = "status" /\ subject' = NoHandle /\ UNCHANGED reply
    /\ UNCHANGED <<lease, answer, sockets, connections, ids, dropped>>

StatusTurn ==
    /\ call = "status" /\ configured
    /\ Ends("status")
    /\ UNCHANGED <<lease, answer, sockets, connections, ids, clock, dropped>>

\* send and recv of a handle in connections; of another one they fail at once.  A recv has
\* room for data, or an empty output ("recv_empty").
BeginTransfer(kind, handle) ==
    /\ Starts
    /\ call' = kind /\ subject' = handle
    /\ UNCHANGED <<lease, answer, sockets, connections, ids, dropped, reply>>

Own == sockets[connections[subject]]

SendTurn ==
    /\ call = "send"
    /\ \/ ~MaySend(Own) /\ Ends("error") /\ UNCHANGED sockets
       \/ /\ CanSend(Own)
          /\ \E full \in BOOLEAN : sockets' = [sockets EXCEPT ![connections[subject]].full = full]
          /\ Ends("sent")
    /\ UNCHANGED <<lease, answer, connections, ids, clock, dropped>>

\* Mutation: the end is looked for in the state alone, and first.
RecvTurn_EndFirst ==
    /\ call \in {"recv", "recv_empty"}
    /\ \/ Own.state # "established" /\ Ends("zero") /\ UNCHANGED sockets
       \/ /\ Own.state = "established" /\ CanRecv(Own)
          /\ sockets' = [sockets EXCEPT ![connections[subject]].queued = 0]
          /\ Ends("data")
    /\ UNCHANGED <<lease, answer, connections, ids, clock, dropped>>

\* As much of the queued data as fits into the output, which is nothing when the output is
\* empty.  "zero" is the count 0.
RecvTurn ==
    /\ call \in {"recv", "recv_empty"}
    /\ \/ /\ call = "recv" /\ CanRecv(Own)
          /\ \E rest \in 0 .. Own.queued - 1 :
                 sockets' = [sockets EXCEPT ![connections[subject]].queued = rest]
          /\ Ends("data")
       \/ call = "recv_empty" /\ CanRecv(Own) /\ Ends("zero") /\ UNCHANGED sockets
       \/ ~CanRecv(Own) /\ ~MayRecv(Own) /\ Ends("zero") /\ UNCHANGED sockets
    /\ UNCHANGED <<lease, answer, connections, ids, clock, dropped>>

\* Mutation: the socket is removed, the handle is not.
BeginClose_KeepsHandle(handle) ==
    /\ Starts
    /\ call' = "close" /\ subject' = connections[handle]
    /\ UNCHANGED <<lease, answer, sockets, connections, ids, dropped, reply>>

\* close polls once between the end of the handle and that of the socket.
BeginClose(handle) ==
    /\ Starts
    /\ call' = "close" /\ subject' = connections[handle]
    /\ connections' = Restrict(connections, DOMAIN connections \ {handle})
    /\ UNCHANGED <<lease, answer, sockets, ids, dropped, reply>>

CloseTurn ==
    /\ call = "close"
    /\ sockets' = Remove(subject)
    /\ Ends("closed")
    /\ UNCHANGED <<lease, answer, connections, ids, clock, dropped>>

\* A turn that reaches the end of its loop.
Waiting ==
    \/ call \in {"lease", "status"} /\ ~configured
    \/ call = "resolve" /\ answer = "pending"
    \/ call = "syn" /\ sockets[subject].state \notin {"established", "closed"}
    \/ call = "send" /\ MaySend(Own) /\ ~CanSend(Own)
    \/ call \in {"recv", "recv_empty"} /\ ~CanRecv(Own) /\ MayRecv(Own)

\* Mutation: the socket stays in the set.
GiveUp_KeepsSocket ==
    /\ Waiting
    /\ answer' = "none" /\ Ends("error")
    /\ UNCHANGED <<lease, sockets, connections, ids, clock, dropped>>

\* A socket that was being opened is removed; a query is left behind in its slot; net_status
\* reports that there is no lease.
GiveUp ==
    /\ Waiting
    /\ sockets' = IF call = "syn" THEN Remove(subject) ELSE sockets
    /\ answer' = "none" /\ Ends(IF call = "status" THEN "status" ELSE "error")
    /\ UNCHANGED <<lease, connections, ids, clock, dropped>>

\* Mutation: the loop of connect has no deadline.
TimesOut_NotConnecting == call # "syn" /\ left = 0 /\ GiveUp

TimesOut == left = 0 /\ GiveUp

\* Escape.
Cancels == GiveUp

-----------------------------------------------------------------------------

Init ==
    /\ configured = FALSE /\ servers = FALSE /\ answer = "none"
    /\ sockets = [i \in {} |-> NewSocket("closed")] /\ connections = [h \in {} |-> 0]
    /\ next_handle = 1 /\ next_port = FirstPort
    /\ call = "idle" /\ subject = NoHandle /\ left = 0 /\ spent = 0
    /\ dropped = {} /\ reply = "none"

Turn ==
    \/ LeaseTurn \/ ResolveTurn \/ ConnectTurn
    \/ StatusTurn \/ SendTurn \/ RecvTurn \/ CloseTurn
    \/ TimesOut

Network ==
    \/ \E withServers \in BOOLEAN : Configured(withServers)
    \/ Deconfigured
    \/ \E result \in {"address", "failed"} : Answered(result)
    \/ \E i \in DOMAIN sockets : \E s \in Segments(sockets[i]) : Arrives(i, s)

Next ==
    \/ BeginConnect \/ BeginStatus
    \/ \E kind \in {"send", "recv", "recv_empty"}, h \in DOMAIN connections : BeginTransfer(kind, h)
    \/ \E h \in DOMAIN connections : BeginClose(h)
    \/ Turn \/ Cancels \/ Network \/ Tick

Spec == Init /\ [][Next]_vars

\* The calling thread goes on and the counter counts; nobody presses Escape and nothing
\* arrives.
FairSpec == Spec /\ WF_vars(Turn) /\ WF_vars(Tick)

-----------------------------------------------------------------------------
(***************************************************************************)
(* Properties.                                                             *)
(***************************************************************************)

\* A handle stands for a socket of its own that is in the set, although indices are used
\* again: get_mut finds it, and a closed handle never reaches a later connection (connect,
\* close).
ConnectionsLive ==
    /\ Range(connections) \subseteq DOMAIN sockets \ dropped
    /\ IsInjective(connections)
    /\ call \in {"syn", "close"} => subject \notin Range(connections)
    /\ \A h \in DOMAIN connections : h < next_handle

\* Between calls a TCP socket belongs to a handle or is one that connect() refused: a
\* connection that is refused, cancelled or timed out leaves none, and the next one gets
\* an ephemeral port however many came before it (connect, close, allocate_port).
SocketsAccounted ==
    Idle => DOMAIN sockets = Range(connections) \cup dropped /\ next_port \in FirstPort .. LastPort

\* The phases of connect share one deadline: no call waits longer than its timeout.
OneDeadline == spent <= Timeout

\* A recv with room for data reports the end of the stream only when nothing is queued and
\* the connection is closed, by the peer or at all: data that came before the end is
\* returned first.  A recv into an empty output says nothing about the end, and whatever it
\* returns it takes nothing from the stream (recv).
EndAfterData ==
    [][Idle' =>
        /\ call = "recv" /\ reply' = "zero"
               => ~CanRecv(Own) /\ Own.state \in {"closewait", "closed"}
        /\ call = "recv_empty" => sockets' = sockets]_vars

\* Every call returns, whatever the network does or does not do: it does not block
\* indefinitely (the loops of connect, resolve, send, recv and net_status).
CallsReturn == ~Idle ~> Idle

=============================================================================
