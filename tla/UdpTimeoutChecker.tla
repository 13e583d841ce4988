-------------------------- MODULE UdpTimeoutChecker --------------------------
(***************************************************************************)
(* udptimeoutchecker.c: the probing client, the forking server, and        *)
(* between them a NAT and a network.                                       *)
(*                                                                         *)
(* A try sends "0 0 seconds 0", waits for "B" and then for "A", each with  *)
(* the receive timeout seconds + 2.  The server forks a child for every    *)
(* request; the child sends B at once, sleeps and sends A.  Replies carry  *)
(* no number, and what a try does not read stays in the client's socket    *)
(* for the next one.                                                       *)
(*                                                                         *)
(* Time advances in ticks.  Nothing that can be done now waits for the     *)
(* next tick, except that a datagram may be up to Jitter ticks old: that   *)
(* covers the network, the server's usleep and its scheduling.             *)
(***************************************************************************)
EXTENDS TimeoutSearch, Bags, Sequences

CONSTANTS
  Slack,    \* seconds the receive timeout exceeds the timeout probed (2)
  MaxLost,  \* bound on requests and replies that come to nothing
  MaxDup,   \* bound on datagrams the network duplicates
  MaxFaults \* bound on both together

ASSUME CheckerAssumption == {Slack, MaxLost, MaxDup, MaxFaults} \subseteq Nat

VARIABLES
  trying,   \* "no": try is about to be called; "B", "A": the reply awaited
  timer,    \* ticks until SO_RCVTIMEO ends the recv
  queue,    \* the client's socket buffer
  up,       \* bag of requests on their way
  down,     \* bag of replies on their way
  children, \* bag of the server's child processes
  idle,     \* ticks since the NAT last saw the mapping used, while it lives
  lost, dups

\* Every request, reply and child carries "old": it belongs to an earlier try.
\* Only properties read it.
clientVars == <<trying, timer, queue>>
netVars == <<up, down, children>>
faultVars == <<lost, dups>>
vars == <<searchVars, clientVars, netVars, idle, faultVars>>

Init ==
  /\ SearchInit
  /\ trying = "no" /\ timer = 0 /\ queue = <<>>
  /\ up = EmptyBag /\ down = EmptyBag /\ children = EmptyBag
  /\ idle = 0 /\ lost = 0 /\ dups = 0

One(e) == SetToBag({e})
Some(B) == BagToSet(B)

MayLose == lost < MaxLost /\ lost + dups < MaxFaults

------------------------------------------------------------------------------
(* The client: try.                                                         *)

\* Faulty variant: no slack for the round trip.
RecvTimeoutExact == Candidate * Sec

\* SO_RCVTIMEO of both receives of a try.
RecvTimeout == (Candidate + Slack) * Sec

Old(m) == [m EXCEPT !.old = TRUE]

\* send: an outgoing datagram opens or renews the NAT mapping.
SendRequest ==
  /\ Searching /\ trying = "no"
  /\ trying' = "B" /\ timer' = RecvTimeout
  /\ up' = BagOfAll(Old, up)
             (+) One([secs |-> Candidate, age |-> 0, old |-> FALSE])
  /\ down' = BagOfAll(Old, down) /\ children' = BagOfAll(Old, children)
  /\ queue' = [i \in DOMAIN queue |-> Old(queue[i])]
  /\ idle' = 0
  /\ UNCHANGED <<searchVars, faultVars>>

EndTry == trying' = "no" /\ timer' = 0

\* send fails, so the try does.
SendFails ==
  /\ Searching /\ trying = "no" /\ MayLose
  /\ TryFails /\ lost' = lost + 1
  /\ UNCHANGED <<clientVars, netVars, idle, dups>>

\* recv returns the oldest reply in the socket, whichever try it answers.
ReceiveB ==
  /\ trying = "B" /\ queue # <<>> /\ Head(queue).kind = "B"
  /\ trying' = "A" /\ timer' = RecvTimeout
  /\ queue' = Tail(queue)
  /\ UNCHANGED <<searchVars, netVars, idle, faultVars>>

ReceiveA ==
  /\ trying = "A" /\ queue # <<>> /\ Head(queue).kind = "A"
  /\ TryOk /\ EndTry
  /\ queue' = Tail(queue)
  /\ UNCHANGED <<netVars, idle, faultVars>>

\* "Strange B", "Strange A": the other reply was expected.
ReceiveStrange ==
  /\ trying # "no" /\ queue # <<>> /\ Head(queue).kind # trying
  /\ TryFails /\ EndTry
  /\ queue' = Tail(queue)
  /\ UNCHANGED <<netVars, idle, faultVars>>

\* Faulty variant: only the wait for A has a timeout.
ReceiveTimeoutOnlyA ==
  /\ trying = "A" /\ queue = <<>> /\ timer = 0
  /\ TryFails /\ EndTry
  /\ UNCHANGED <<queue, netVars, idle, faultVars>>

\* "Fail B...", "FAIL": SO_RCVTIMEO expires.
ReceiveTimeout ==
  /\ trying # "no" /\ queue = <<>> /\ timer = 0
  /\ TryFails /\ EndTry
  /\ UNCHANGED <<queue, netVars, idle, faultVars>>

\* The server's port is closed: the request bounces and recv fails.
ReceiveError ==
  /\ trying # "no" /\ queue = <<>> /\ MayLose
  /\ \E m \in Some(up) : ~m.old /\ up' = up (-) One(m)
  /\ TryFails /\ EndTry /\ lost' = lost + 1
  /\ UNCHANGED <<queue, down, children, idle, dups>>

ClientReport == Report /\ UNCHANGED <<clientVars, netVars, idle, faultVars>>

------------------------------------------------------------------------------
(* The server: serve1.                                                      *)

\* Faulty variant: the child does not sleep before A.
ServeWithoutSleep ==
  \E m \in Some(up) :
    /\ up' = up (-) One(m)
    /\ children' = children (+) One([left |-> 0, sentB |-> FALSE, old |-> m.old])
    /\ UNCHANGED <<searchVars, clientVars, down, idle, faultVars>>

\* recvfrom, sscanf and fork: both sleeps are relative to now, the first is 0.
Serve ==
  \E m \in Some(up) :
    /\ up' = up (-) One(m)
    /\ children' = children (+)
         One([left |-> m.secs * Sec, sentB |-> FALSE, old |-> m.old])
    /\ UNCHANGED <<searchVars, clientVars, down, idle, faultVars>>

\* fork returns -1, which serve1 takes for the parent's return.
ForkFails ==
  /\ MayLose
  /\ \E m \in Some(up) : up' = up (-) One(m)
  /\ lost' = lost + 1
  /\ UNCHANGED <<searchVars, clientVars, down, children, idle, dups>>

ChildSendsB ==
  \E c \in Some(children) :
    /\ ~c.sentB
    /\ children' = (children (-) One(c)) (+) One([c EXCEPT !.sentB = TRUE])
    /\ down' = down (+) One([kind |-> "B", age |-> 0, old |-> c.old])
    /\ UNCHANGED <<searchVars, clientVars, up, idle, faultVars>>

ChildSendsA ==
  \E c \in Some(children) :
    /\ c.sentB /\ c.left = 0
    /\ children' = children (-) One(c)
    /\ down' = down (+) One([kind |-> "A", age |-> 0, old |-> c.old])
    /\ UNCHANGED <<searchVars, clientVars, up, idle, faultVars>>

------------------------------------------------------------------------------
(* The network, the NAT and time.                                           *)

\* A reply passes the NAT while the mapping lives; some NATs also count
\* incoming datagrams as use.
Deliver ==
  \E m \in Some(down) :
    /\ down' = down (-) One(m)
    /\ IF idle <= natTimeout
       THEN /\ queue' = Append(queue, [kind |-> m.kind, old |-> m.old])
            /\ idle' \in {0, idle}
       ELSE UNCHANGED <<queue, idle>>
    /\ UNCHANGED <<searchVars, trying, timer, up, children, faultVars>>

Lose ==
  /\ MayLose
  /\ \/ \E m \in Some(up) : up' = up (-) One(m) /\ UNCHANGED down
     \/ \E m \in Some(down) : down' = down (-) One(m) /\ UNCHANGED up
  /\ lost' = lost + 1
  /\ UNCHANGED <<searchVars, clientVars, children, idle, dups>>

Duplicate ==
  /\ dups < MaxDup /\ lost + dups < MaxFaults
  /\ \/ \E m \in Some(up) : up' = up (+) One(m) /\ UNCHANGED down
     \/ \E m \in Some(down) : down' = down (+) One(m) /\ UNCHANGED up
  /\ dups' = dups + 1
  /\ UNCHANGED <<searchVars, clientVars, children, idle, lost>>

Older(m) == [m EXCEPT !.age = @ + 1]
Slept(c) == [c EXCEPT !.left = @ - 1]

\* Bound: once a datagram has been duplicated all arrive at once.
OldestNow == IF dups = 0 THEN Jitter ELSE 0

\* A tick passes while the client is blocked in recv and nothing is due.
Tick ==
  /\ trying # "no" /\ queue = <<>> /\ timer > 0
  /\ \A m \in Some(up) \cup Some(down) : m.age < OldestNow
  /\ \A c \in Some(children) : c.sentB /\ c.left > 0
  /\ timer' = timer - 1
  /\ up' = BagOfAll(Older, up) /\ down' = BagOfAll(Older, down)
  /\ children' = BagOfAll(Slept, children)
  /\ idle' = IF idle <= natTimeout THEN idle + 1 ELSE idle
  /\ UNCHANGED <<searchVars, trying, queue, faultVars>>

Client ==
  \/ SendRequest \/ ReceiveB \/ ReceiveA \/ ReceiveStrange \/ ReceiveTimeout
  \/ ClientReport
Server == Serve \/ ChildSendsB \/ ChildSendsA
Faults == SendFails \/ ReceiveError \/ ForkFails \/ Lose \/ Duplicate

Next == Client \/ Server \/ Deliver \/ Tick \/ Faults

Spec == Init /\ [][Next]_vars

\* Blocked processes wake up when what they wait for happens, datagrams that
\* are not lost arrive and time passes.
FairSpec == Spec /\ WF_vars(Client \/ Server \/ Deliver \/ Tick)

------------------------------------------------------------------------------
\* A try begins with a clean slate: no reply, request or sleeping child of an
\* earlier try is left that it could take for its own.  Nothing in the
\* datagrams tells them apart; only the receive timeouts (seconds + 2,
\* udptimeoutchecker.c:65) ensure it, as long as the network duplicates none.
CleanStart ==
  trying = "no" /\ dups = 0 =>
    queue = <<>> /\ up = EmptyBag /\ down = EmptyBag /\ children = EmptyBag

\* Every reply a try reads, "B", "A" or a strange one (udptimeoutchecker.c:79-98),
\* answers its own request, and they come in the order sent: "Strange" is only an
\* "A" whose "B" was lost, never one that overtook it or was of another try.
OwnReplies ==
  [][dups = 0 => /\ ReceiveB \/ ReceiveA \/ ReceiveStrange => ~Head(queue).old
                 /\ ReceiveStrange => trying = "B" /\ lost > 0]_vars

\* What the three experiments promise, whatever a try is made of: an answered
\* timeout could be answered, and one lost datagram spoils one try, as long as
\* no datagram is duplicated.
ImplementsSearch == SearchInit /\ [][dups' = 0 => SearchNext]_searchVars

\* Every try brings the end of the search nearer, whatever it answers, however
\* answers and failures alternate (the loops at udptimeoutchecker.c:104 and 129
\* go on while the bracket is wide), and whatever is lost or duplicated: after
\* at most Left tries there is a number.
TryOver == trying # trying' /\ trying' = "no"
EveryTryCounts == [][TryOver \/ searchVars # searchVars' => Nearer]_vars

\* The client always comes to a result, whatever is lost or duplicated.
ProbeEnds == <>(phase = "done")
==============================================================================
