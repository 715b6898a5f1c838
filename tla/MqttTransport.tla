---------------------------- MODULE MqttTransport ----------------------------
(***************************************************************************)
(* main/mqtt_transport.c: the TCP connection below wolfMQTT, from          *)
(* run_session's mqtt_transport_init to its mqtt_transport_force_close.    *)
(* The resolver, the kernel and the broker are external, and so is         *)
(* wolfMQTT, which calls net_connect once, net_read and net_write in any   *)
(* order until a call reports MQTT_CODE_ERROR_NETWORK or it gives up, and  *)
(* goes on after MQTT_CODE_ERROR_TIMEOUT.                                  *)
(*                                                                         *)
(* Descriptors are members of Sockets, and a process that has used them    *)
(* all gets no more.  Bytes are counted, not represented.                  *)
(***************************************************************************)
EXTENDS Naturals, FiniteSets

CONSTANTS Sockets, NoSocket,
          MaxAddresses,  \* bound: addresses the resolver returns
          MaxBytes,      \* bound: bytes each side sends in a session
          BufferLengths  \* values of buffer_len in net_read and net_write

ASSUME TransportAssumption == /\ NoSocket \notin Sockets
                              /\ MaxAddresses \in Nat /\ MaxBytes \in Nat
                              /\ BufferLengths \subseteq Nat \ {0}

VARIABLES tpc,       \* the call wolfMQTT is in
          addresses, \* addresses left in the loop of net_connect
          fd,        \* fd in net_connect
          held,      \* s_socket
          tcp,       \* external: the state of each descriptor
          arrived,   \* external: bytes of the broker that reached the kernel
          taken,     \* bytes recv has returned in this session
          delivered, \* bytes net_read has returned to wolfMQTT
          written,   \* bytes send has accepted
          reported,  \* bytes net_write has reported written
          buffer     \* used and buffer_len of the call in progress

incoming == <<arrived, taken, delivered>>
outgoing == <<written, reported>>
bytes == <<incoming, outgoing, buffer>>
vars == <<tpc, addresses, fd, held, tcp, bytes>>

NoBuffer == [used |-> 0, size |-> 0]
Opened == {s \in Sockets : tcp[s] # "free"}

Init == /\ tpc = "closed" /\ addresses = 0 /\ fd = NoSocket /\ held = NoSocket
        /\ tcp = [s \in Sockets |-> "free"]
        /\ arrived = 0 /\ taken = 0 /\ delivered = 0
        /\ written = 0 /\ reported = 0 /\ buffer = NoBuffer

-----------------------------------------------------------------------------
(* net_connect *)

\* mqtt_transport_init forgets s_socket; MqttClient_Init may fail after it, and
\* run_session then returns without closing anything.
TransportInit == /\ tpc = "closed"
                 /\ held' = NoSocket
                 /\ tpc' \in {"closed", "resolve"}
                 /\ arrived' = 0 /\ taken' = 0 /\ delivered' = 0
                 /\ written' = 0 /\ reported' = 0 /\ buffer' = NoBuffer
                 /\ UNCHANGED <<addresses, fd, tcp>>

Resolve == /\ tpc = "resolve"
           /\ \E n \in 0 .. MaxAddresses :
                addresses' = n /\ tpc' = IF n = 0 THEN "exit" ELSE "address"
           /\ UNCHANGED <<fd, held, tcp, bytes>>

\* The address is used up: the next one, or the end of the loop.
NextAddress == /\ addresses' = addresses - 1
               /\ tpc' = IF addresses = 1 THEN "exit" ELSE "address"
               /\ fd' = NoSocket

\* socket or the first fcntl fails.
NoDescriptor == /\ tpc = "address"
                /\ NextAddress
                /\ UNCHANGED <<held, tcp, bytes>>

\* connect succeeds at once, is refused, or is in progress.
StartConnect == /\ tpc = "address"
                /\ \E s \in Sockets \ Opened, outcome \in {"established", "failed", "pending"} :
                     /\ fd' = s /\ tcp' = [tcp EXCEPT ![s] = outcome]
                     /\ tpc' = CASE outcome = "established" -> "connected"
                                 [] outcome = "pending" -> "select"
                                 [] outcome = "failed" -> "failed"
                /\ UNCHANGED <<addresses, held, bytes>>

\* select reports the socket writable or its error, fails, or returns 0 at the
\* timeout, and 0 passes the test connect_result >= 0.
Select == /\ tpc = "select"
          /\ \/ tcp[fd] = "established" /\ tpc' = "connected"
             \/ tcp[fd] = "failed" /\ tpc' = "failed"
             \/ tpc' = "failed"
             \/ tcp[fd] = "pending" /\ tpc' = "connected"
          /\ UNCHANGED <<addresses, fd, held, tcp, bytes>>

\* A mutant of Abandon: the descriptor of a failed attempt stays open.
AbandonOpen == /\ tpc \in {"failed", "connected"}
               /\ NextAddress
               /\ UNCHANGED <<held, tcp, bytes>>

\* The attempt failed, or blocking mode could not be restored.
Abandon == /\ tpc \in {"failed", "connected"}
           /\ tcp' = [tcp EXCEPT ![fd] = "free"]
           /\ NextAddress
           /\ UNCHANGED <<held, bytes>>

Succeed == /\ tpc = "connected" /\ tpc' = "up"
           /\ held' = fd /\ fd' = NoSocket /\ addresses' = 0
           /\ UNCHANGED <<tcp, bytes>>

-----------------------------------------------------------------------------
(* net_read, net_write *)

Call(size) == /\ tpc = "up" /\ tpc' \in {"recv", "send"}
              /\ buffer' = [used |-> 0, size |-> size]
              /\ UNCHANGED <<addresses, fd, held, tcp, incoming, outgoing>>

\* ret > 0: recv returns some of the bytes that are there.
Recv == /\ tpc = "recv" /\ buffer.used < buffer.size
        /\ \E n \in 1 .. (arrived - taken) :
             /\ buffer.used + n <= buffer.size
             /\ taken' = taken + n
             /\ buffer' = [buffer EXCEPT !.used = @ + n]
        /\ UNCHANGED <<tpc, addresses, fd, held, tcp, arrived, delivered, outgoing>>

\* A mutant of ReadReturns: a timeout is reported although bytes were read.
ReadReturnsTimeout ==
    /\ tpc = "recv"
    /\ buffer.used = buffer.size \/ taken = arrived
    /\ delivered' = delivered + (IF buffer.used = buffer.size THEN buffer.used ELSE 0)
    /\ tpc' = "up" /\ buffer' = NoBuffer
    /\ UNCHANGED <<addresses, fd, held, tcp, arrived, taken, outgoing>>

\* The buffer is full, or recv timed out, or the broker has closed after some
\* bytes: what was read is returned, MQTT_CODE_ERROR_TIMEOUT if it is nothing.
ReadReturns ==
    /\ tpc = "recv"
    /\ \/ buffer.used = buffer.size
       \/ taken = arrived /\ ~(tcp[held] = "failed" /\ buffer.used = 0)
    /\ delivered' = delivered + buffer.used
    /\ tpc' = "up" /\ buffer' = NoBuffer
    /\ UNCHANGED <<addresses, fd, held, tcp, arrived, taken, outgoing>>

\* The kernel accepts some of the bytes.
Send == /\ tpc = "send"
        /\ \E n \in 1 .. (buffer.size - buffer.used) :
             /\ written + n <= MaxBytes
             /\ written' = written + n
             /\ buffer' = [buffer EXCEPT !.used = @ + n]
        /\ UNCHANGED <<tpc, addresses, fd, held, tcp, incoming, reported>>

\* All bytes are accepted, or no more of them before the timeout.
WriteReturns == /\ tpc = "send" /\ tpc' = "up"
                /\ reported' = reported + buffer.used
                /\ buffer' = NoBuffer
                /\ UNCHANGED <<addresses, fd, held, tcp, incoming, written>>

\* MQTT_CODE_ERROR_NETWORK: recv or send fails, even after some bytes, or the
\* broker has closed; or wolfMQTT gives up.  run_session leaves its loop.
SessionEnds == /\ tpc \in {"up", "recv", "send"} /\ tpc' = "exit"
               /\ UNCHANGED <<addresses, fd, held, tcp, bytes>>

-----------------------------------------------------------------------------
\* A mutant of ForceClose: nothing closes the socket at the end of run_session.
ForceCloseNothing == /\ tpc = "exit" /\ tpc' = "closed"
                     /\ UNCHANGED <<addresses, fd, held, tcp, bytes>>

\* net_disconnect: MqttClient_NetDisconnect, then mqtt_transport_force_close.
ForceClose == /\ tpc = "exit" /\ tpc' = "closed"
              /\ held' = NoSocket
              /\ tcp' = IF held = NoSocket THEN tcp ELSE [tcp EXCEPT ![held] = "free"]
              /\ UNCHANGED <<addresses, fd, bytes>>

\* External: a connection attempt ends, a connection breaks, bytes arrive.
Network == /\ \/ /\ \E s \in Opened :
                      \/ tcp[s] = "pending" /\ tcp' = [tcp EXCEPT ![s] = "established"]
                      \/ tcp[s] # "failed" /\ tcp' = [tcp EXCEPT ![s] = "failed"]
                 /\ UNCHANGED arrived
              \/ /\ held # NoSocket /\ tcp[held] = "established" /\ arrived < MaxBytes
                 /\ arrived' = arrived + 1
                 /\ UNCHANGED tcp
           /\ UNCHANGED <<tpc, addresses, fd, held, taken, delivered, outgoing, buffer>>

ConnectStep == TransportInit \/ Resolve \/ NoDescriptor \/ StartConnect \/ Select
                 \/ Abandon \/ Succeed
SessionStep == \/ \E size \in BufferLengths : Call(size)
               \/ Recv \/ ReadReturns \/ Send \/ WriteReturns
               \/ SessionEnds \/ ForceClose
Next == ConnectStep \/ SessionStep \/ Network

Spec == Init /\ [][Next]_vars

-----------------------------------------------------------------------------
(* Properties *)

\* The types of the variables.
TypeOK == /\ tpc \in {"closed", "resolve", "address", "select", "failed",
                      "connected", "up", "recv", "send", "exit"}
          /\ addresses \in 0 .. MaxAddresses
          /\ fd \in Sockets \cup {NoSocket} /\ held \in Sockets \cup {NoSocket}
          /\ tcp \in [Sockets -> {"free", "pending", "established", "failed"}]
          /\ arrived \in 0 .. MaxBytes /\ taken \in 0 .. arrived
          /\ written \in 0 .. MaxBytes /\ buffer.used \in 0 .. buffer.size

\* No descriptor is ever lost, over any number of sessions: an open one is that
\* of the attempt in progress or s_socket, and between sessions there is none,
\* although mqtt_transport_init overwrites s_socket without closing it.
NoLeak == /\ Opened = {fd, held} \ {NoSocket}
          /\ tpc = "closed" => Opened = {}

\* A timeout in the middle of a packet loses and repeats nothing: as long as the
\* session goes on, wolfMQTT has been given every byte taken from the kernel and
\* told of every byte the kernel accepted.
NoByteLost == tpc = "up" => delivered = taken /\ reported = written

\* "TCP connected" (the message at mqtt_transport.c:91): the socket net_connect
\* hands over has been connected.
ReportsConnected == held # NoSocket => tcp[held] # "pending"
=============================================================================
