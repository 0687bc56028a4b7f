-------------------------------- MODULE Tracing --------------------------------
(* Spans, from the hook that opens one per request to the collector.  A request *)
(* opens a server span and, through withSpan, a span inside it; finished spans  *)
(* wait in a bounded queue for a flush that a timer or the shutdown starts.     *)
(* Clients go away, the collector fails, the queue overflows and the replica is *)
(* stopped.  What a span says of its request, and its encoding, are left out.   *)
EXTENDS Naturals, Sequences, FiniteSets

CONSTANTS
  TracedRequests,
  MaxQueue,   \* maxQueueSize
  MaxBatch    \* maxBatchSize

ASSUME TracingAssumption == MaxQueue \in Nat /\ MaxBatch \in Nat

VARIABLES
  sampled,    \* the decision taken for each request's trace, "none" before
  span,       \* every span: "none", "open" or "ended"
  replied,    \* the requests whose reply was sent
  gone,       \* the requests whose client went away
  queue,      \* #queue
  exporting,  \* what the flush is exporting
  flushing,   \* #flushing
  dropped,    \* #dropped
  reported,   \* history: how many dropped spans were reported
  copies,     \* history: how often each span was exported, lost or dropped
  lost,       \* history: the spans that found the queue full
  phase,      \* of the replica: "up", "stopping" or "exited"
  met         \* history: the shutdown met a flush in flight

traceVars == <<sampled, span, replied, gone, queue, exporting, flushing, dropped, reported, copies,
               lost, phase, met>>

Spans == TracedRequests \X {"server", "inner"}
requestVars == <<sampled, replied, gone>>
flushVars == <<exporting, flushing, reported>>

TracingInit ==
  /\ sampled = [r \in TracedRequests |-> "none"]
  /\ span = [s \in Spans |-> "none"]
  /\ replied = {}
  /\ gone = {}
  /\ queue = << >>
  /\ exporting = << >>
  /\ flushing = FALSE
  /\ dropped = 0
  /\ reported = 0
  /\ copies = [s \in Spans |-> 0]
  /\ lost = {}
  /\ phase = "up"
  /\ met = FALSE

-------------------------------------------------------------------------------
(* The hooks and withSpan                                                       *)

(* A root decides for itself, a child as the traceparent it came with says.     *)
Decisions(parent) ==
  IF parent = "none" THEN {"yes", "no"} ELSE {parent}

OnRequest(r, parent) ==
  /\ phase = "up"
  /\ sampled[r] = "none"
  /\ \E verdict \in Decisions(parent) : sampled' = [sampled EXCEPT ![r] = verdict]
  /\ span' = [span EXCEPT ![<<r, "server">>] = "open"]
  /\ UNCHANGED <<replied, gone, queue, dropped, copies, lost, phase, met>>
  /\ UNCHANGED flushVars

(* The sponsorship's span, inside the request's; its trace's decision stands.   *)
WithSpan(r) ==
  /\ span[<<r, "server">>] # "none"
  /\ span[<<r, "inner">>] = "none"
  /\ r \notin replied
  /\ span' = [span EXCEPT ![<<r, "inner">>] = "open"]
  /\ UNCHANGED <<queue, dropped, copies, lost, phase, met>>
  /\ UNCHANGED requestVars
  /\ UNCHANGED flushVars

Enqueue(s) ==
  IF Len(queue) >= MaxQueue
  THEN /\ dropped' = dropped + 1
       /\ copies' = [copies EXCEPT ![s] = @ + 1]
       /\ lost' = lost \cup {s}
       /\ UNCHANGED queue
  ELSE /\ queue' = Append(queue, s)
       /\ UNCHANGED <<dropped, copies, lost>>

End(s) ==
  /\ span' = [span EXCEPT ![s] = "ended"]
  /\ IF span[s] = "open" /\ sampled[s[1]] = "yes"
     THEN Enqueue(s)
     ELSE UNCHANGED <<queue, dropped, copies, lost>>

WithSpanEnds(r) ==
  /\ span[<<r, "inner">>] = "open"
  /\ End(<<r, "inner">>)
  /\ UNCHANGED <<phase, met>>
  /\ UNCHANGED requestVars
  /\ UNCHANGED flushVars

(* The handler has finished; its reply ends the span, also when the client has  *)
(* gone and an abort has ended it.                                              *)
OnResponse(r) ==
  /\ span[<<r, "server">>] # "none"
  /\ span[<<r, "inner">>] # "open"
  /\ r \notin replied
  /\ replied' = replied \cup {r}
  /\ End(<<r, "server">>)
  /\ UNCHANGED <<sampled, gone, phase, met>>
  /\ UNCHANGED flushVars

OnRequestAbort(r) ==
  /\ span[<<r, "server">>] # "none"
  /\ r \notin replied \cup gone
  /\ gone' = gone \cup {r}
  /\ End(<<r, "server">>)
  /\ UNCHANGED <<sampled, replied, phase, met>>
  /\ UNCHANGED flushVars

-------------------------------------------------------------------------------
(* OtlpTracer.flush                                                             *)

(* The next batch, or the end of the flush and the report of what was dropped.  *)
NextBatch ==
  IF queue = << >>
  THEN /\ flushing' = FALSE
       /\ exporting' = << >>
       /\ reported' = reported + dropped
       /\ dropped' = 0
       /\ UNCHANGED queue
  ELSE LET size == IF Len(queue) < MaxBatch THEN Len(queue) ELSE MaxBatch
       IN  /\ flushing' = TRUE
           /\ exporting' = SubSeq(queue, 1, size)
           /\ queue' = SubSeq(queue, size + 1, Len(queue))
           /\ UNCHANGED <<reported, dropped>>

(* The timer; a flush in flight makes it do nothing.                            *)
Flush ==
  /\ phase = "up"
  /\ ~flushing
  /\ NextBatch
  /\ UNCHANGED <<span, copies, lost, phase, met>>
  /\ UNCHANGED requestVars

Among(spans, s) == \E i \in DOMAIN spans : spans[i] = s

(* An export ends, delivered or not: nothing is retried.                        *)
Exported ==
  /\ flushing
  /\ phase # "exited"
  /\ copies' = [s \in Spans |-> IF Among(exporting, s) THEN copies[s] + 1 ELSE copies[s]]
  /\ NextBatch
  /\ UNCHANGED <<span, lost, phase, met>>
  /\ UNCHANGED requestVars

(* The server has closed, so every request it had has its reply or its client   *)
(* is gone; stop() flushes, unless a flush is in flight.                        *)
Stop ==
  /\ phase = "up"
  /\ \A r \in TracedRequests : sampled[r] # "none" => r \in replied \cup gone
  /\ phase' = "stopping"
  /\ met' = flushing
  /\ IF flushing THEN UNCHANGED <<queue, exporting, flushing, dropped, reported>> ELSE NextBatch
  /\ UNCHANGED <<span, copies, lost>>
  /\ UNCHANGED requestVars

(* stop() has returned: the flush it began is over, and one it met need not be. *)
Exit ==
  /\ phase = "stopping"
  /\ ~flushing \/ met
  /\ phase' = "exited"
  /\ UNCHANGED <<span, queue, dropped, copies, lost, met>>
  /\ UNCHANGED requestVars
  /\ UNCHANGED flushVars

TracingNext ==
  \/ \E r \in TracedRequests :
       \/ \E parent \in {"none", "yes", "no"} : OnRequest(r, parent)
       \/ phase # "exited" /\ (WithSpan(r) \/ WithSpanEnds(r) \/ OnResponse(r) \/ OnRequestAbort(r))
  \/ Flush
  \/ Exported
  \/ Stop
  \/ Exit

TracingSpec == TracingInit /\ [][TracingNext]_traceVars

-------------------------------------------------------------------------------
Occurrences(s) ==
  Cardinality({i \in DOMAIN queue : queue[i] = s}) + Cardinality({i \in DOMAIN exporting : exporting[i] = s})

(* A sampled span reaches the collector at most once and is never silently      *)
(* gone: once ended it is queued, being exported, exported or counted as        *)
(* dropped, exactly one of these and once, through aborts, failed exports and   *)
(* overlapping flushes; memory stays bounded; and a stop that meets no flush    *)
(* leaves behind only spans of requests whose client had gone while the handler *)
(* still ran (otlpTracer.ts).                                                   *)
SpansAccountedFor ==
  /\ Len(queue) <= MaxQueue /\ Len(exporting) <= MaxBatch
  /\ \A s \in Spans :
       copies[s] + Occurrences(s) = IF span[s] = "ended" /\ sampled[s[1]] = "yes" THEN 1 ELSE 0
  /\ dropped + reported = Cardinality(lost)
  /\ phase = "exited" /\ ~met => \A s \in Spans : Occurrences(s) > 0 => s[1] \in gone

(* What otlpTracer.ts says of stop(): the last spans are drained before the     *)
(* process exits.                                                               *)
DrainedOnExit ==
  phase = "exited" => \A s \in Spans : Occurrences(s) > 0 => s[1] \in gone
===============================================================================
