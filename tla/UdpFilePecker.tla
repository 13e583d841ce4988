---------------------------- MODULE UdpFilePecker ----------------------------
(***************************************************************************)
(* udpfilepecker.c: wait Period seconds for a command "fd value", write    *)
(* the value to that file descriptor; when nothing came, send an empty     *)
(* datagram (a peck) so that the NAT on the way keeps the mapping.         *)
(***************************************************************************)
EXTENDS Integers, Sequences

CONSTANTS
  Period,    \* peck_period
  Commands,  \* contents of the datagrams that are not empty
  FdOf,      \* the fd a command names, -1 when it is not two numbers
  NoCommand  \* nothing has been written yet

ASSUME PeckerAssumption ==
  /\ Period \in Nat \ {0}     \* a SO_RCVTIMEO of 0 would never end
  /\ FdOf \in [Commands -> Int]
  /\ NoCommand \notin Commands

VARIABLES
  sock,      \* the socket buffer
  silent,    \* seconds since recv was called
  written    \* the last command whose value was written

peckerVars == <<sock, silent, written>>

PeckerInit == sock = <<>> /\ silent = 0 /\ written = NoCommand

\* Faulty variant: stderr may be written to, stdout not.
AllowedShifted(c) == FdOf[c] \in 2..1000

\* stdout and what the user opened, but not stdin and stderr.
Allowed(c) == FdOf[c] = 1 \/ FdOf[c] \in 3..1000

\* serve1: recv returns a datagram.
ReceiveCommand ==
  /\ sock # <<>> /\ sock' = Tail(sock)
  /\ written' = IF Allowed(Head(sock)) THEN Head(sock) ELSE written
  /\ silent' = 0

\* Faulty variant: the period is counted in whole seconds and must be exceeded.
PeriodOverLate == silent > Period

\* SO_RCVTIMEO of the socket is over.
PeriodOver == silent >= Period

\* serve1: SO_RCVTIMEO expires and sendto is called, whose result nobody looks
\* at.  What becomes of the peck is for the caller to add.
Peck ==
  /\ sock = <<>> /\ PeriodOver
  /\ silent' = 0
  /\ UNCHANGED <<sock, written>>

\* serve1: the pecker is stopped and continued.  recv, having a timeout, fails
\* with EINTR and is called anew: the period begins again without a peck.
PeckerResumed ==
  /\ sock = <<>>
  /\ silent' = 0
  /\ UNCHANGED <<sock, written>>

\* recv waits for the rest of the period.
PeckerWaits == sock = <<>> /\ ~PeriodOver
PeckerTick == silent' = silent + 1 /\ UNCHANGED <<sock, written>>
==============================================================================
