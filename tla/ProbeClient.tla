---------------------------- MODULE ProbeClient ------------------------------
(***************************************************************************)
(* The two processes of `udp_ts_seq_reply probe`: main forks the sending   *)
(* child (ProbePacing), installs the handlers and prints what comes back   *)
(* (measure, here only when it prints).  SIGINT comes from the terminal    *)
(* and reaches both, SIGTERM is sent to the parent, SIGPIPE comes from a   *)
(* flush when nobody reads any more.                                       *)
(***************************************************************************)
EXTENDS ProbePacing

CONSTANT MaxNet  \* bound on the replies on their way

ASSUME NetAssumption == MaxNet \in Nat

VARIABLES
  parent,   \* "main", "install", "measure" or "gone"
  handlers, \* signals with a handler
  outage_reported,
  term,     \* a deadly signal is pending for the child
  net,      \* replies on their way
  reader,   \* somebody reads the output
  unhandled \* history: a signal killed the parent without its handler

parentVars == <<parent, handlers, outage_reported, unhandled>>
worldVars == <<term, net, reader>>
vars == <<pacingVars, parentVars, worldVars>>

Signals == {"INT", "TERM", "PIPE"}
Alive == child \notin {"none", "gone"}

Init ==
  /\ PacingInit
  /\ parent = "main" /\ handlers = {} /\ outage_reported = FALSE
  /\ term = FALSE /\ net = 0 /\ reader = TRUE /\ unhandled = FALSE

------------------------------------------------------------------------------
(* The child.                                                               *)

\* A packet is sent, and echoed unless the network or the server loses it.
ChildSends ==
  /\ Send
  /\ net' \in {net} \cup {n \in {net + 1} : n <= MaxNet}
  /\ UNCHANGED <<parentVars, term, reader>>

ChildRuns ==
  /\ Begin \/ Sleep \/ Emulate \/ Nanosleep \/ Wake
  /\ UNCHANGED <<parentVars, worldVars>>

\* A pending signal kills the child; so may something else.
ChildDies ==
  /\ Alive /\ child' = "gone"
  /\ UNCHANGED <<now, settings, start, ts_next, sleepVars, seq_, parentVars, worldVars>>

TimePasses == Tick /\ UNCHANGED <<parentVars, worldVars>>

------------------------------------------------------------------------------
(* The parent.                                                              *)

\* main: fork; it may fail, and main returns.
Fork ==
  /\ parent = "main" /\ child = "none"
  /\ \/ parent' = "install" /\ child' = "start"
     \/ parent' = "gone" /\ UNCHANGED child
  /\ UNCHANGED <<now, settings, start, ts_next, sleepVars, seq_, handlers,
                 outage_reported, unhandled, worldVars>>

\* main: sigaction for SIGINT, SIGTERM and SIGPIPE, then measure.
InstallHandler ==
  /\ parent = "install"
  /\ handlers' = handlers \cup
       {CASE handlers = {} -> "INT" [] handlers = {"INT"} -> "TERM" [] OTHER -> "PIPE"}
  /\ parent' = IF handlers = {"INT", "TERM"} THEN "measure" ELSE "install"
  /\ UNCHANGED <<pacingVars, outage_reported, unhandled, worldVars>>

\* Faulty variant: the handler does not know the child.
HandleAlone(s) == parent' = "gone" /\ unhandled' = (s \notin handlers) /\ term' = term

\* The parent ends at a signal; signal_handler sends the child SIGTERM.
Handle(s) ==
  /\ parent' = "gone" /\ unhandled' = (s \notin handlers)
  /\ term' = (term \/ (s \in handlers /\ Alive))

\* SIGTERM, to the parent only.
Terminate ==
  /\ parent # "gone" /\ Handle("TERM")
  /\ UNCHANGED <<pacingVars, handlers, outage_reported, net, reader>>

\* Ctrl-C: the whole process group gets SIGINT, and the child has no handler.
Interrupt ==
  /\ parent # "gone" /\ parent' = "gone" /\ unhandled' = ("INT" \notin handlers)
  /\ term' = Alive
  /\ UNCHANGED <<pacingVars, handlers, outage_reported, net, reader>>

\* Faulty variant: a failed flush is no reason to end.
FlushOn == UNCHANGED <<parent, unhandled, term>>

\* fflush: SIGPIPE if nobody reads.
Flush == IF reader THEN UNCHANGED <<parent, unhandled, term>> ELSE Handle("PIPE")

\* measure: a reply is printed and flushed.
Receive ==
  /\ parent = "measure" /\ net > 0 /\ net' = net - 1
  /\ outage_reported' = FALSE /\ Flush
  /\ UNCHANGED <<pacingVars, handlers, reader>>

\* Faulty variant: SO_RCVTIMEO is not set.
TimeoutNever == FALSE

\* measure: recvfrom times out, also while replies are on their way; the first
\* time there is something to flush.
Timeout ==
  /\ parent = "measure" /\ outage_reported' = TRUE
  /\ IF outage_reported THEN UNCHANGED <<parent, unhandled, term>> ELSE Flush
  /\ UNCHANGED <<pacingVars, handlers, net, reader>>

\* Nobody reads the output any more.
ReaderLeaves ==
  /\ reader /\ reader' = FALSE
  /\ UNCHANGED <<pacingVars, parentVars, term, net>>

Next ==
  \/ ChildSends \/ ChildRuns \/ ChildDies \/ TimePasses
  \/ Fork \/ InstallHandler \/ Terminate \/ Interrupt \/ Receive \/ Timeout
  \/ ReaderLeaves

Spec == Init /\ [][Next]_vars

\* A pending signal is delivered, the parent runs, and recvfrom returns.
FairSpec ==
  /\ Spec /\ WF_vars(term /\ ChildDies)
  /\ WF_vars(Fork) /\ WF_vars(InstallHandler) /\ WF_vars(Receive \/ Timeout)

------------------------------------------------------------------------------
\* Lines 386-391, 505-517: a parent that ended by one of its handlers takes
\* the child with it; only a signal before sigaction, or a fork that failed,
\* leaves it behind.
ChildFollows == parent = "gone" /\ ~unhandled ~> ~Alive

\* The parent never waits for the child, but its death shows as an outage
\* (lines 235-239) once the last replies have come.
SilenceReported ==
  child = "gone" ~> outage_reported \/ parent = "gone"

\* Lines 244, 380, 516: when nobody reads, the next thing printed ends both
\* processes; only an outage already reported is silent.
EndsUnread ==
  ~reader /\ ~outage_reported ~> parent = "gone" /\ (unhandled \/ ~Alive)

\* The times the parent computes with the clock are right (TimesRightFor).
TimesRight ==
  \A n \in 0..MaxNow : TimesRightFor(Clock(now), Clock(n))
==============================================================================
