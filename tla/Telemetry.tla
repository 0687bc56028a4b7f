------------------------------- MODULE Telemetry -------------------------------
(* The numbers an operator sees: the counters, gauges and histogram of a         *)
(* backend, which a restart clears; a scrape of them and a health probe, fetched *)
(* apart and parsed; the page that polls both, keeps its samples and differences *)
(* them into rates; and the one line it puts on top.  One backend and one tab.   *)
EXTENDS Integers, Sequences, FiniteSetsExt, Sums

CONSTANTS
  Chains,
  Bounds,       \* the histogram's bucket bounds, ascending
  Latencies,    \* the latencies that are observed
  MaxEvents,    \* how many sponsorships, or latencies, are recorded
  MaxStarts,    \* how often the backend restarts
  MaxSamples    \* MAX_SAMPLES

ASSUME TelemetryAssumption ==
  /\ IsFiniteSet(Chains)
  /\ Bounds \in Seq(Nat)
  /\ IsFiniteSet(Latencies) /\ Latencies \subseteq Nat
  /\ MaxSamples \in Nat \ {0}

VARIABLES
  series,       \* which series move in a behaviour: nothing relates them to each other
  counters,     \* paymaster_sponsorships_total by chain and outcome
  gauges,       \* of a chain: its funding flags
  buckets,      \* paymaster_policy_evaluation_seconds: by bound, the last for +Inf
  polls,        \* the polls under way: which fetches are over, what they brought
  inFlight,     \* inFlight.current
  shown,        \* what the page shows: at most one telemetry
  samples,      \* the page's history
  happened,     \* history: sponsorships recorded since the beginning, by outcome
  observed,     \* history: latencies observed since the start
  checks,       \* history: what the last funding check of a chain found
  restarts      \* history: how often the backend has started again

telemetryVars == <<series, counters, gauges, buckets, polls, inFlight, shown, samples, happened, observed,
                   checks, restarts>>
backendVars == <<series, counters, gauges, buckets, happened, observed, checks, restarts>>
operatorPageVars == <<polls, inFlight, shown, samples>>

Outcomes == {"issued", "error"}
Findings == {"ok", "low", "unreadable"}
Total(f) == SumOver(f, DOMAIN f)
Unset == [deposit |-> "unset", readError |-> FALSE]
NoSamples == [c \in Chains |-> [o \in Outcomes |-> 0]]

TelemetryInit ==
  /\ series \in {"sponsorships", "latencies", "funding"}
  /\ counters = NoSamples
  /\ gauges = [c \in Chains |-> Unset]
  /\ buckets = [i \in 1..Len(Bounds) + 1 |-> 0]
  /\ polls = {}
  /\ inFlight = FALSE
  /\ shown = {}
  /\ samples = << >>
  /\ happened = [o \in Outcomes |-> 0]
  /\ observed = [l \in Latencies |-> 0]
  /\ checks = [c \in Chains |-> "never"]
  /\ restarts = 0

-------------------------------------------------------------------------------
(* The backend                                                                  *)

InBucket(i, latency) == i > Len(Bounds) \/ latency <= Bounds[i]

RecordSponsorship(c, o) ==
  /\ series = "sponsorships"
  /\ Total(happened) < MaxEvents
  /\ counters' = [counters EXCEPT ![c][o] = @ + 1]
  /\ happened' = [happened EXCEPT ![o] = @ + 1]
  /\ UNCHANGED <<series, gauges, buckets, observed, checks, restarts>>
  /\ UNCHANGED operatorPageVars

Observe(latency) ==
  /\ series = "latencies"
  /\ Total(observed) < MaxEvents
  /\ buckets' = [i \in DOMAIN buckets |-> IF InBucket(i, latency) THEN buckets[i] + 1 ELSE buckets[i]]
  /\ observed' = [observed EXCEPT ![latency] = @ + 1]
  /\ UNCHANGED <<series, counters, gauges, happened, checks, restarts>>
  /\ UNCHANGED operatorPageVars

(* (Slip: a check that failed leaves the gauges of the one before.)             *)
KeepsGauge(gauge, found) ==
  IF found = "unreadable" THEN gauge ELSE [gauge EXCEPT !.deposit = found, !.readError = FALSE]

(* A check that failed says so and leaves the flags of the last one that did not. *)
Reflected(gauge, found) ==
  IF found = "unreadable"
  THEN [gauge EXCEPT !.readError = TRUE]
  ELSE [gauge EXCEPT !.deposit = found, !.readError = FALSE]

(* A tick of the funding monitor reads every chain and records all at once.     *)
RecordFunding ==
  /\ series = "funding"
  /\ \E found \in [Chains -> Findings] :
       /\ gauges' = [c \in Chains |-> Reflected(gauges[c], found[c])]
       /\ checks' = found
  /\ UNCHANGED <<series, counters, buckets, happened, observed, restarts>>
  /\ UNCHANGED operatorPageVars

(* Every series starts again, at nothing.                                       *)
Restart ==
  /\ restarts < MaxStarts
  /\ restarts' = restarts + 1
  /\ counters' = NoSamples
  /\ gauges' = [c \in Chains |-> Unset]
  /\ buckets' = [i \in DOMAIN buckets |-> 0]
  /\ observed' = [l \in Latencies |-> 0]
  /\ checks' = [c \in Chains |-> "never"]
  /\ UNCHANGED <<series, happened>>
  /\ UNCHANGED operatorPageVars

-------------------------------------------------------------------------------
(* The poll: two fetches, then the page                                         *)

Asked == [over |-> {}, scraped |-> {}, healthy |-> "none"]

Poll ==
  /\ ~inFlight
  /\ inFlight' = TRUE
  /\ polls' = polls \cup {Asked}
  /\ UNCHANGED <<shown, samples>>
  /\ UNCHANGED backendVars

Brings(p, q) ==
  /\ polls' = (polls \ {p}) \cup {q}
  /\ UNCHANGED <<inFlight, shown, samples>>
  /\ UNCHANGED backendVars

SumOf(o) == Total([c \in Chains |-> counters[c][o]])

(* buildTelemetry of what was rendered and parsed; the rest is history.         *)
Scrape ==
  [totals |-> [o \in Outcomes |-> SumOf(o)], gauges |-> gauges,
   happened |-> happened, checks |-> checks, restarts |-> restarts]

Scraped(p) ==
  /\ "metrics" \notin p.over
  /\ \E scraped \in {{}, {Scrape}} :
       Brings(p, [over |-> p.over \cup {"metrics"}, scraped |-> scraped, healthy |-> p.healthy])

(* Which chains are healthy; 503 when none is, and an answer that is not 2xx is *)
(* dropped as one that does not arrive is.                                      *)
Probed(p) ==
  /\ "health" \notin p.over
  /\ \E healthy \in {"all", "some", "none"} :
       Brings(p, [over |-> p.over \cup {"health"}, scraped |-> p.scraped, healthy |-> healthy])

(* The server's clock may not have moved since the last sample.                 *)
Times == IF samples = << >> THEN {0} ELSE {samples[Len(samples)].at, samples[Len(samples)].at + 1}

Renumbered(seq) == [i \in DOMAIN seq |-> [seq[i] EXCEPT !.at = @ - seq[1].at]]

LastOf(seq) == Renumbered(SubSeq(seq, Max({1, Len(seq) - MaxSamples + 1}), Len(seq)))

(* The last good telemetry stays on the page when the scrape failed.  The        *)
(* history is kept for what is drawn of it, the rates.                          *)
Polled(p) ==
  /\ p.over = {"metrics", "health"}
  /\ inFlight' = FALSE
  /\ polls' = polls \ {p}
  /\ IF p.scraped = {}
     THEN UNCHANGED <<shown, samples>>
     ELSE \E scrape \in p.scraped, at \in Times :
            /\ shown' = {[healthy |-> p.healthy, gauges |-> scrape.gauges,
                          totals |-> scrape.totals, checks |-> scrape.checks]}
            /\ samples' = IF series = "sponsorships"
                          THEN LastOf(Append(samples, [at |-> at, totals |-> scrape.totals,
                                                       happened |-> scrape.happened,
                                                       restarts |-> scrape.restarts]))
                          ELSE samples
  /\ UNCHANGED backendVars

TelemetryNext ==
  \/ \E c \in Chains, o \in Outcomes : RecordSponsorship(c, o)
  \/ \E latency \in Latencies : Observe(latency)
  \/ RecordFunding
  \/ Restart
  \/ Poll
  \/ \E p \in polls : Scraped(p) \/ Probed(p) \/ Polled(p)

TelemetrySpec == TelemetryInit /\ [][TelemetryNext]_telemetryVars

-------------------------------------------------------------------------------
(* What the page makes of it                                                    *)

(* A decrease is a restart, and leaves a gap.                                   *)
Finite(now, before) == now >= before

(* computeRates: the samples a point ends at, and what the point counts.        *)
Points(o) ==
  {i \in 2..Len(samples) : samples[i].at > samples[i - 1].at
                           /\ Finite(samples[i].totals[o], samples[i - 1].totals[o])}
Delta(o, i) == samples[i].totals[o] - samples[i - 1].totals[o]

(* overallStatus                                                                *)
Severity(page) ==
  IF page.healthy = "none" THEN "unknown"
  ELSE IF page.healthy = "some" \/ \E c \in Chains : page.gauges[c].deposit = "low" THEN "critical"
  ELSE IF \E c \in Chains : page.gauges[c].readError THEN "serious"
  ELSE IF 20 * page.totals["error"] > Total(page.totals) THEN "critical"
  ELSE "good"

(* histogramQuantile, q = n/m: the bucket it interpolates in, between two bounds; *)
(* beyond the last bound it answers that bound.                                 *)
QuantileBucket(n, m) ==
  Min({i \in DOMAIN buckets : buckets[i] * m >= n * buckets[Len(Bounds) + 1]})

(* How many of the observed latencies are no longer than l, and the latency of   *)
(* that rank.                                                                   *)
UpTo(l) == SumOver(observed, {k \in Latencies : k <= l})
RankOf(n, m) == Min({l \in Latencies : UpTo(l) * m >= n * Total(observed)})

-------------------------------------------------------------------------------
(* No rate the page draws is negative, and the sponsorships its points count    *)
(* together are never more than there were between its first sample and its     *)
(* last; where the backend did not restart they are all there (computeRates     *)
(* under restarts, failed scrapes and slow answers, use-telemetry.tsx).         *)
RatesNeverOverstate ==
  \A o \in Outcomes :
    /\ \A i \in Points(o) :
         /\ Delta(o, i) >= 0
         /\ samples[i].restarts = samples[i - 1].restarts =>
              Delta(o, i) = samples[i].happened[o] - samples[i - 1].happened[o]
    /\ samples # << >> =>
         Total([i \in Points(o) |-> Delta(o, i)]) <= samples[Len(samples)].happened[o] - samples[1].happened[o]

(* "All systems nominal" is never above a chain whose last funding check, as of  *)
(* the scrape, found its deposit low or could not read it (recordFunding,       *)
(* overallStatus).                                                              *)
NominalMeansFunded ==
  \A page \in shown :
    Severity(page) = "good" => \A c \in Chains : page.checks[c] \in {"never", "ok"}

(* The median and the 99th percentile are looked for in the bucket the observed  *)
(* latency of that rank is in (Histogram.observe, histogramQuantile).           *)
QuantileInItsBucket ==
  Total(observed) > 0 =>
    \A n \in {50, 99} :
      LET i == QuantileBucket(n, 100)
      IN  /\ i > 1 => RankOf(n, 100) > Bounds[i - 1]
          /\ i <= Len(Bounds) => RankOf(n, 100) <= Bounds[i]

(* What the route says of the probe's 503, that its body is the answer: a        *)
(* backend that was scraped is not shown as unreachable.                        *)
AnswerIsShown ==
  \A page \in shown : Severity(page) # "unknown"

(* What the page says of sponsorships, of funding and of latency is so.          *)
PageTellsTheTruth == RatesNeverOverstate /\ NominalMeansFunded /\ QuantileInItsBucket
===============================================================================
