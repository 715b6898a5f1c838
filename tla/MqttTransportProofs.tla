------------------------ MODULE MqttTransportProofs ------------------------
(***************************************************************************)
(* The TCP connection below wolfMQTT, for any descriptors, addresses,      *)
(* buffers and bytes: no descriptor is lost, and no byte.                  *)
(***************************************************************************)
EXTENDS MqttTransport, TLAPS

\* While an address is being tried there is one left.
AddressLeft == tpc \in {"address", "select", "failed", "connected"} => addresses >= 1

\* In which of its two places the code holds a descriptor: fd while net_connect
\* tries it, s_socket from then on.
Held == /\ tpc \in {"closed", "resolve", "address"} => fd = NoSocket /\ held = NoSocket
        /\ tpc \in {"select", "failed", "connected"} => fd \in Sockets /\ held = NoSocket
        /\ tpc \in {"up", "recv", "send"} => fd = NoSocket /\ held \in Sockets
        /\ tpc = "exit" => fd = NoSocket

\* The bytes of the call in progress are those the kernel has given, or taken, and
\* wolfMQTT has not been told of yet.
Accounted ==
    /\ buffer \in [used : Nat, size : Nat] /\ delivered \in Nat /\ reported \in Nat
    /\ tpc \in {"resolve", "address", "select", "failed", "connected", "up"}
         => delivered = taken /\ reported = written /\ buffer.used = 0
    /\ tpc = "recv" => delivered + buffer.used = taken /\ reported = written
    /\ tpc = "send" => delivered = taken /\ reported + buffer.used = written

Inv == TypeOK /\ AddressLeft /\ Held /\ NoLeak /\ Accounted

LEMMA InitInv == ASSUME Init PROVE Inv
<1>1. TypeOK /\ AddressLeft /\ Held
  BY TransportAssumption DEF Init, TypeOK, AddressLeft, Held, NoBuffer
<1>2. NoLeak
  BY DEF Init, NoLeak, Opened
<1>3. Accounted
  BY DEF Init, Accounted, NoBuffer
<1>4. QED
  BY <1>1, <1>2, <1>3 DEF Inv

-----------------------------------------------------------------------------
(* Steps that leave the descriptors alone, or the bytes *)

LEMMA SameSockets ==
    ASSUME NoLeak, UNCHANGED <<fd, held, tcp>>, tpc' # "closed"
    PROVE  NoLeak'
BY DEF NoLeak, Opened

LEMMA SameBytes ==
    ASSUME Accounted, UNCHANGED bytes,
           \/ tpc' \in {"closed", "exit"}
           \/ /\ tpc \in {"resolve", "address", "select", "failed", "connected", "up"}
              /\ tpc' \notin {"recv", "send"}
    PROVE  Accounted'
BY DEF Accounted, bytes, incoming, outgoing

LEMMA SameByteTypes ==
    ASSUME TypeOK, UNCHANGED bytes
    PROVE  /\ arrived' \in 0 .. MaxBytes /\ taken' \in 0 .. arrived'
           /\ written' \in 0 .. MaxBytes /\ buffer'.used \in 0 .. buffer'.size
BY DEF TypeOK, bytes, incoming, outgoing

\* A descriptor is closed: the others are as they were.
LEMMA Closed ==
    ASSUME tcp \in [Sockets -> {"free", "pending", "established", "failed"}],
           NEW s \in Sockets
    PROVE  /\ [tcp EXCEPT ![s] = "free"]
                \in [Sockets -> {"free", "pending", "established", "failed"}]
           /\ {r \in Sockets : [tcp EXCEPT ![s] = "free"][r] # "free"} = Opened \ {s}
BY DEF Opened

-----------------------------------------------------------------------------
(* net_connect *)

LEMMA ConnectKeeps == ASSUME Inv, ConnectStep PROVE Inv'
<1> USE TransportAssumption DEF Inv
<1>1. CASE TransportInit
  <2>1. Opened' = {} /\ fd = NoSocket
    BY <1>1 DEF TransportInit, NoLeak, Held, Opened
  <2>2. TypeOK' /\ AddressLeft' /\ Held'
    BY <1>1, <2>1 DEF TransportInit, TypeOK, AddressLeft, Held, NoBuffer
  <2>3. NoLeak'
    BY <1>1, <2>1 DEF TransportInit, NoLeak
  <2>4. Accounted'
    BY <1>1 DEF TransportInit, Accounted, NoBuffer
  <2>5. QED
    BY <2>2, <2>3, <2>4
<1>2. CASE Resolve
  <2>1. PICK n \in 0 .. MaxAddresses :
           addresses' = n /\ tpc' = IF n = 0 THEN "exit" ELSE "address"
    BY <1>2 DEF Resolve
  <2>2. TypeOK' /\ AddressLeft' /\ Held'
    BY <1>2, <2>1, SameByteTypes DEF Resolve, TypeOK, AddressLeft, Held
  <2>3. NoLeak'
    BY <1>2, <2>1, SameSockets DEF Resolve
  <2>4. Accounted'
    BY <1>2, <2>1, SameBytes DEF Resolve
  <2>5. QED
    BY <2>2, <2>3, <2>4
<1>3. CASE NoDescriptor
  <2>1. /\ addresses' \in 0 .. MaxAddresses
        /\ tpc' = "exit" \/ (tpc' = "address" /\ addresses' >= 1)
        /\ tpc = "address" /\ fd' = fd /\ fd' = NoSocket /\ UNCHANGED <<held, tcp, bytes>>
    BY <1>3 DEF NoDescriptor, NextAddress, TypeOK, AddressLeft, Held
  <2>2. TypeOK' /\ AddressLeft' /\ Held'
    BY <2>1, SameByteTypes DEF TypeOK, AddressLeft, Held
  <2>3. NoLeak'
    BY <2>1, SameSockets
  <2>4. Accounted'
    BY <2>1, SameBytes
  <2>5. QED
    BY <2>2, <2>3, <2>4
<1>4. CASE StartConnect
  <2>1. PICK s \in Sockets \ Opened, outcome \in {"established", "failed", "pending"} :
           /\ fd' = s /\ tcp' = [tcp EXCEPT ![s] = outcome]
           /\ tpc' \in {"connected", "select", "failed"}
    BY <1>4 DEF StartConnect
  <2>2. TypeOK' /\ AddressLeft' /\ Held'
    BY <1>4, <2>1, SameByteTypes DEF StartConnect, TypeOK, AddressLeft, Held
  <2>3. Opened' = Opened \cup {s}
    BY <2>1 DEF Opened, TypeOK
  <2>4. NoLeak'
    BY <1>4, <2>1, <2>3 DEF StartConnect, NoLeak, Held
  <2>5. Accounted'
    BY <1>4, <2>1, SameBytes DEF StartConnect
  <2>6. QED
    BY <2>2, <2>4, <2>5
<1>5. CASE Select
  <2>1. tpc = "select" /\ tpc' \in {"connected", "failed"}
        /\ UNCHANGED <<addresses, fd, held, tcp, bytes>>
    BY <1>5 DEF Select
  <2>2. TypeOK' /\ AddressLeft' /\ Held'
    BY <2>1, SameByteTypes DEF TypeOK, AddressLeft, Held
  <2>3. QED
    BY <2>1, <2>2, SameSockets, SameBytes
<1>6. CASE Abandon
  <2>1. /\ addresses' \in 0 .. MaxAddresses
        /\ tpc' = "exit" \/ (tpc' = "address" /\ addresses' >= 1)
        /\ tpc \in {"failed", "connected"} /\ fd' = NoSocket /\ UNCHANGED <<held, bytes>>
        /\ fd \in Sockets /\ held = NoSocket
    BY <1>6 DEF Abandon, NextAddress, TypeOK, AddressLeft, Held
  <2>2. /\ tcp' = [tcp EXCEPT ![fd] = "free"]
        /\ tcp' \in [Sockets -> {"free", "pending", "established", "failed"}]
        /\ Opened' = Opened \ {fd}
    BY <1>6, <2>1, Closed DEF Abandon, TypeOK, Opened
  <2>3. TypeOK' /\ AddressLeft' /\ Held'
    BY <2>1, <2>2, SameByteTypes DEF TypeOK, AddressLeft, Held
  <2>4. NoLeak'
    BY <2>1, <2>2 DEF NoLeak
  <2>5. Accounted'
    BY <2>1, SameBytes
  <2>6. QED
    BY <2>3, <2>4, <2>5
<1>7. CASE Succeed
  <2>1. /\ tpc = "connected" /\ tpc' = "up" /\ held' = fd /\ fd' = NoSocket
        /\ addresses' = 0 /\ UNCHANGED <<tcp, bytes>> /\ fd \in Sockets /\ held = NoSocket
    BY <1>7 DEF Succeed, Held
  <2>2. TypeOK' /\ AddressLeft' /\ Held'
    BY <2>1, SameByteTypes DEF TypeOK, AddressLeft, Held
  <2>3. NoLeak'
    BY <2>1 DEF NoLeak, Opened
  <2>4. Accounted'
    BY <2>1, SameBytes
  <2>5. QED
    BY <2>2, <2>3, <2>4
<1>8. QED
  BY <1>1, <1>2, <1>3, <1>4, <1>5, <1>6, <1>7 DEF ConnectStep

-----------------------------------------------------------------------------
(* The session *)

LEMMA SessionKeeps == ASSUME Inv, SessionStep PROVE Inv'
<1> USE TransportAssumption DEF Inv
<1>0. Accounted /\ TypeOK
  OBVIOUS
<1>1. CASE \E size \in BufferLengths : Call(size)
  <2>1. PICK size \in BufferLengths : Call(size)
    BY <1>1
  <2>2. size \in Nat /\ buffer' = [used |-> 0, size |-> size]
        /\ tpc = "up" /\ tpc' \in {"recv", "send"}
        /\ UNCHANGED <<addresses, fd, held, tcp, incoming, outgoing>>
    BY <2>1 DEF Call
  <2>3. TypeOK' /\ AddressLeft' /\ Held'
    BY <2>2 DEF TypeOK, AddressLeft, Held, incoming, outgoing
  <2>4. Accounted'
    BY <2>2 DEF Accounted, TypeOK, incoming, outgoing
  <2>5. QED
    BY <2>2, <2>3, <2>4, SameSockets
<1>2. CASE Recv
  <2>1. PICK n \in 1 .. (arrived - taken) :
           /\ buffer.used + n <= buffer.size
           /\ taken' = taken + n
           /\ buffer' = [buffer EXCEPT !.used = @ + n]
    BY <1>2 DEF Recv
  <2>2. tpc = "recv" /\ UNCHANGED <<tpc, addresses, fd, held, tcp, arrived, delivered,
                                    written, reported>>
    BY <1>2 DEF Recv, outgoing
  <2>3. buffer' \in [used : Nat, size : Nat] /\ buffer'.used = buffer.used + n
        /\ buffer'.size = buffer.size
    BY <2>1 DEF Accounted, TypeOK
  <2>4. TypeOK' /\ AddressLeft' /\ Held'
    BY <2>1, <2>2, <2>3 DEF TypeOK, AddressLeft, Held
  <2>5. Accounted'
    BY <2>1, <2>2, <2>3 DEF Accounted, TypeOK
  <2>6. QED
    BY <2>2, <2>4, <2>5, SameSockets
<1>3. CASE ReadReturns
  <2>1. /\ tpc = "recv" /\ tpc' = "up" /\ delivered' = delivered + buffer.used
        /\ buffer' = NoBuffer
        /\ UNCHANGED <<addresses, fd, held, tcp, arrived, taken, written, reported>>
    BY <1>3 DEF ReadReturns, outgoing
  <2>2. TypeOK' /\ AddressLeft' /\ Held'
    BY <2>1 DEF TypeOK, AddressLeft, Held, NoBuffer
  <2>3. Accounted'
    BY <2>1 DEF Accounted, NoBuffer, TypeOK
  <2>4. QED
    BY <2>1, <2>2, <2>3, SameSockets
<1>4. CASE Send
  <2>1. PICK n \in 1 .. (buffer.size - buffer.used) :
           /\ written + n <= MaxBytes
           /\ written' = written + n
           /\ buffer' = [buffer EXCEPT !.used = @ + n]
    BY <1>4 DEF Send
  <2>2. tpc = "send" /\ UNCHANGED <<tpc, addresses, fd, held, tcp, arrived, taken,
                                    delivered, reported>>
    BY <1>4 DEF Send, incoming
  <2>3. buffer' \in [used : Nat, size : Nat] /\ buffer'.used = buffer.used + n
        /\ buffer'.size = buffer.size
    BY <2>1 DEF Accounted, TypeOK
  <2>4. TypeOK' /\ AddressLeft' /\ Held'
    BY <1>0, <2>1, <2>2, <2>3 DEF TypeOK, AddressLeft, Held, Accounted
  <2>5. Accounted'
    BY <2>1, <2>2, <2>3 DEF Accounted, TypeOK
  <2>6. QED
    BY <2>2, <2>4, <2>5, SameSockets
<1>5. CASE WriteReturns
  <2>1. /\ tpc = "send" /\ tpc' = "up" /\ reported' = reported + buffer.used
        /\ buffer' = NoBuffer
        /\ UNCHANGED <<addresses, fd, held, tcp, arrived, taken, delivered, written>>
    BY <1>5 DEF WriteReturns, incoming
  <2>2. TypeOK' /\ AddressLeft' /\ Held'
    BY <2>1 DEF TypeOK, AddressLeft, Held, NoBuffer
  <2>3. Accounted'
    BY <2>1 DEF Accounted, NoBuffer, TypeOK
  <2>4. QED
    BY <2>1, <2>2, <2>3, SameSockets
<1>6. CASE SessionEnds
  <2>1. tpc \in {"up", "recv", "send"} /\ tpc' = "exit"
        /\ UNCHANGED <<addresses, fd, held, tcp, bytes>>
    BY <1>6 DEF SessionEnds
  <2>2. TypeOK' /\ AddressLeft' /\ Held'
    BY <2>1, SameByteTypes DEF TypeOK, AddressLeft, Held
  <2>3. QED
    BY <2>1, <2>2, SameSockets, SameBytes
<1>7. CASE ForceClose
  <2>1. /\ tpc = "exit" /\ tpc' = "closed" /\ held' = NoSocket /\ fd = NoSocket
        /\ tcp' = IF held = NoSocket THEN tcp ELSE [tcp EXCEPT ![held] = "free"]
        /\ UNCHANGED <<addresses, fd, bytes>>
    BY <1>7 DEF ForceClose, Held
  <2>2. /\ tcp' \in [Sockets -> {"free", "pending", "established", "failed"}]
        /\ Opened' = Opened \ {held}
    <3>1. CASE held = NoSocket
      BY <2>1, <3>1 DEF Opened, TypeOK
    <3>2. CASE held # NoSocket
      <4>1. held \in Sockets
        BY <3>2 DEF TypeOK
      <4>2. QED
        BY <2>1, <3>2, <4>1, Closed DEF Opened, TypeOK
    <3>3. QED
      BY <3>1, <3>2
  <2>3. TypeOK' /\ AddressLeft' /\ Held'
    BY <2>1, <2>2, SameByteTypes DEF TypeOK, AddressLeft, Held
  <2>4. NoLeak'
    BY <2>1, <2>2 DEF NoLeak
  <2>5. QED
    BY <2>1, <2>3, <2>4, SameBytes
<1>8. QED
  BY <1>1, <1>2, <1>3, <1>4, <1>5, <1>6, <1>7 DEF SessionStep

-----------------------------------------------------------------------------
LEMMA NetworkKeeps == ASSUME Inv, Network PROVE Inv'
<1> USE TransportAssumption DEF Inv
<1>1. UNCHANGED <<tpc, addresses, fd, held, taken, delivered, written, reported, buffer>>
  BY DEF Network, outgoing
<1>2. CASE UNCHANGED arrived /\ \E s \in Opened, t \in {"established", "failed"} :
                                  tcp' = [tcp EXCEPT ![s] = t]
  <2>1. /\ tcp' \in [Sockets -> {"free", "pending", "established", "failed"}]
        /\ Opened' = Opened
    BY <1>2 DEF Opened, TypeOK
  <2>2. TypeOK' /\ AddressLeft' /\ Held'
    BY <1>1, <1>2, <2>1 DEF TypeOK, AddressLeft, Held
  <2>3. QED
    BY <1>1, <1>2, <2>1, <2>2 DEF NoLeak, Accounted
<1>3. CASE arrived < MaxBytes /\ arrived' = arrived + 1 /\ UNCHANGED tcp
  <2>1. TypeOK' /\ AddressLeft' /\ Held'
    BY <1>1, <1>3 DEF TypeOK, AddressLeft, Held
  <2>2. QED
    BY <1>1, <1>3, <2>1 DEF NoLeak, Opened, Accounted
<1>4. QED
  BY <1>2, <1>3 DEF Network

LEMMA InvStep == ASSUME Inv, [Next]_vars PROVE Inv'
<1>1. CASE UNCHANGED vars
  BY <1>1 DEF vars, bytes, incoming, outgoing, Inv, TypeOK, AddressLeft, Held, NoLeak,
     Opened, Accounted
<1>2. QED
  BY <1>1, ConnectKeeps, SessionKeeps, NetworkKeeps DEF Next

\* The invariant holds through every session: net_connect, net_read, net_write and
\* the close paths.
THEOREM Invariant == Spec => []Inv
BY InitInv, InvStep, PTL DEF Spec

\* The types of the transport's variables: the loop of net_connect stops at the last
\* address, and no call uses more than its buffer.
THEOREM TypeCorrect == Spec => []TypeOK
<1>1. Inv => TypeOK
  BY DEF Inv
<1>2. QED
  BY <1>1, Invariant, PTL

\* Over any number of sessions and of addresses tried, every open descriptor is one
\* the code can still close, and between sessions there is none.
THEOREM DescriptorsKept == Spec => []NoLeak
<1>1. Inv => NoLeak
  BY DEF Inv
<1>2. QED
  BY <1>1, Invariant, PTL

\* net_read and net_write account for every byte, whatever the kernel gives or
\* accepts at a time and wherever a timeout falls.
THEOREM BytesKept == Spec => []NoByteLost
<1>1. Inv => NoByteLost
  BY DEF Inv, Accounted, NoByteLost
<1>2. QED
  BY <1>1, Invariant, PTL
=============================================================================
