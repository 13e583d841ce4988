------------------------------- MODULE UdpPair -------------------------------
(***************************************************************************)
(* udppair.c: two UDP sockets; what one receives goes out by the other, to *)
(* the address that socket heard from last.  The loop samples with select  *)
(* which sockets are readable and then serves socket 1 and socket 2.  An   *)
(* empty datagram tells the address of its sender and is not passed on.    *)
(***************************************************************************)
EXTENDS Integers, Sequences

CONSTANTS
  Addrs,      \* addresses of the peers
  Payloads,   \* contents of the datagrams that are not empty
  NoAddr,     \* the zeroed sockaddr_in of main
  MaxQueue    \* bound on the datagrams in a socket buffer

Sides == {1, 2}
Other(s) == 3 - s

Empty == "empty"       \* a datagram of length zero
Corrupt == "corrupt"   \* a datagram whose checksum is wrong

ASSUME PairAssumption ==
  /\ NoAddr \notin Addrs
  /\ Payloads \cap {Empty, Corrupt} = {}
  /\ MaxQueue \in Nat \ {0}

VARIABLES
  turn,    \* 0: select; 1, 2: the block of that socket; 3: main has returned
  rfds,    \* the sockets select found readable
  peer,    \* peer1, peer2
  inq,     \* the socket buffers
  out,     \* datagrams sent and not yet taken by the network
  waited,  \* history: datagrams taken from the other socket meanwhile
  damaged  \* history: a datagram turned out to be damaged since the start

pairVars == <<turn, rfds, peer, inq, out, waited, damaged>>

PairInit ==
  /\ turn = 0 /\ rfds = {}
  /\ peer = [s \in Sides |-> NoAddr]
  /\ inq = [s \in Sides |-> <<>>] /\ out = <<>>
  /\ waited = [s \in Sides |-> 0] /\ damaged = FALSE

\* Faulty variant: both blocks run whenever select returns.
SelectAny ==
  /\ turn = 0
  /\ \E s \in Sides : inq[s] # <<>>
  /\ rfds' = Sides /\ turn' = 1
  /\ UNCHANGED <<peer, inq, out, waited, damaged>>

\* select returns; EINTR and EAGAIN repeat it.
Select ==
  /\ turn = 0
  /\ rfds' = {s \in Sides : inq[s] # <<>>} /\ rfds' # {}
  /\ turn' = 1
  /\ UNCHANGED <<peer, inq, out, waited, damaged>>

\* Faulty variant: socket 2 is served only if socket 1 was not ("else if").
AfterOneOnly(s) == IF s = 1 /\ 1 \notin rfds THEN 2 ELSE 0

\* Where the loop goes after the block of socket s.
After(s) == IF s = 1 THEN 2 ELSE 0

Skip(s) ==
  /\ turn = s /\ s \notin rfds
  /\ turn' = After(s)
  /\ UNCHANGED <<rfds, peer, inq, out, waited, damaged>>

\* Faulty variant: only datagrams with contents tell the peer's address.
HeardContents(s, m) == IF m.data = Empty THEN peer ELSE [peer EXCEPT ![s] = m.from]

\* Faulty variant: one address is kept for the peers of both sockets.
HeardShared(s, m) == [t \in Sides |-> m.from]

\* recvfrom writes the sender's address over the peer of the socket.
Heard(s, m) == [peer EXCEPT ![s] = m.from]

\* recvfrom and sendto.  sendto fails when the other side has no peer yet.
Relay(s) ==
  /\ turn = s /\ s \in rfds /\ inq[s] # <<>> /\ Head(inq[s]).data # Corrupt
  /\ LET m == Head(inq[s]) IN
       /\ peer' = Heard(s, m)
       /\ out' = IF m.data = Empty \/ peer[Other(s)] = NoAddr THEN out
                 ELSE Append(out, [side |-> Other(s), to |-> peer[Other(s)],
                                   data |-> m.data])
  /\ inq' = [inq EXCEPT ![s] = Tail(@)]
  /\ waited' = [waited EXCEPT ![s] = 0,
                  ![Other(s)] = IF inq[Other(s)] # <<>> THEN @ + 1 ELSE 0]
  /\ turn' = After(s)
  /\ UNCHANGED <<rfds, damaged>>

\* The kernel counts a datagram as readable and finds in recvfrom that it is
\* damaged; recvfrom goes on with the next one.
DropCorrupt(s) ==
  /\ turn = s /\ s \in rfds /\ inq[s] # <<>> /\ Head(inq[s]).data = Corrupt
  /\ inq' = [inq EXCEPT ![s] = Tail(@)] /\ damaged' = TRUE
  /\ UNCHANGED <<turn, rfds, peer, out, waited>>

\* Without a next one it fails, the socket not blocking, and main returns 4.
NothingThere(s) ==
  /\ turn = s /\ s \in rfds /\ inq[s] = <<>>
  /\ turn' = 3
  /\ UNCHANGED <<rfds, peer, inq, out, waited, damaged>>

PairStep ==
  \/ Select
  \/ \E s \in Sides : Skip(s) \/ Relay(s) \/ DropCorrupt(s) \/ NothingThere(s)

------------------------------------------------------------------------------
(* Its network.                                                             *)

\* A datagram arrives, and there is room for it in the socket buffer.
Arrive(s, a, d) ==
  /\ Len(inq[s]) < MaxQueue
  /\ inq' = [inq EXCEPT ![s] = Append(@, [from |-> a, data |-> d])]
  /\ UNCHANGED <<turn, rfds, peer, out, waited, damaged>>

\* The network takes what was sent.
Depart ==
  /\ out # <<>> /\ out' = Tail(out)
  /\ UNCHANGED <<turn, rfds, peer, inq, waited, damaged>>

------------------------------------------------------------------------------
\* Neither socket starves the other (the two FD_ISSET blocks of one select,
\* udppair.c:75 and 91): a datagram waits for at most one of socket 2 or two
\* of socket 1, whose block may come twice before it is seen.
Overtaking == waited[1] <= 1 /\ waited[2] <= 2

\* The sampled rfds are never stale by the loop's own doing: recvfrom fails
\* and main returns (udppair.c:80, 96) only after a damaged datagram.
StopsOnlyDamaged == turn = 3 => damaged
==============================================================================
