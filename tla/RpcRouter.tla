----------------------------- MODULE RpcRouter -----------------------------
(***************************************************************************)
(* The JSON-RPC router between a bundler and two upstreams                 *)
(* (deploy/rpc-router/router.mjs): debug_ and trace_ calls go to the       *)
(* scarce tracing provider behind a token bucket, everything else to the   *)
(* default one; a batch is split by lane, sent as two batches at once and  *)
(* put together again by id.                                               *)
(*                                                                         *)
(* The bucket is counted in parts of a token, because the interval that    *)
(* refills it brings less than one.  Left out: the connection pool, the    *)
(* statistics, and what a call means.                                      *)
(***************************************************************************)
EXTENDS Naturals, Sequences, FiniteSets

CONSTANTS
    Requests,  \* HTTP requests of the bundler
    BodyOf,    \* BodyOf[r]: what the request carries, a sequence of calls [id, lane]
    Part,      \* parts of a token
    Capacity,  \* TRACE_RPS tokens, in parts
    PerTick,   \* parts the interval brings
    Attempts,  \* 5
    MaxTicks   \* bound: intervals counted by the window

\* A client of JSON-RPC numbers the calls of a batch apart: an id never stands for
\* calls of both lanes.
ASSUME RouterAssumption ==
    /\ Part \in Nat \ {0} /\ Capacity \in Nat /\ PerTick \in Nat
    /\ \A r \in Requests :
          /\ Len(BodyOf[r]) \in Nat /\ DOMAIN BodyOf[r] = 1..Len(BodyOf[r])
          /\ \A i, j \in DOMAIN BodyOf[r] :
                BodyOf[r][i].id = BodyOf[r][j].id => BodyOf[r][i].lane = BodyOf[r][j].lane

VARIABLES
    lane,     \* lane[r][l]: what forward() is at for lane l
    attempts, \* attempts[r][l]: the tries of the lane's batch
    back,     \* back[r][l]: the calls the upstream answered
    answer,   \* answer[r]: what the bundler got: nothing yet, an error or the replies
    tokens,   \* parts
    waiters,  \* pairs <<r, l>> in the order they came
    window    \* [ticks, granted] since some moment: for checking only

routerVars == <<lane, attempts, back, answer, tokens, waiters, window>>

Lanes == {"trace", "default"}
NotCounting == [ticks |-> 0, granted |-> 0, on |-> FALSE, over |-> FALSE]
ClosedWindow == [NotCounting EXCEPT !.over = TRUE]
NotYet == [kind |-> "none", replies |-> <<>>]
Failed == [kind |-> "error", replies |-> <<>>]

(***************************************************************************)
(* Batches                                                                 *)
(***************************************************************************)

CallsOf(b, l) == {i \in DOMAIN b : b[i].lane = l}
IdsOf(b, l) == {b[i].id : i \in CallsOf(b, l)}

NoResponse(c) == [id |-> c.id, to |-> {}]
Reply(c) == [id |-> c.id, to |-> {c.lane}]

\* (Slip: the replies in the order the lanes brought them.)
MergeByLane(b, got) ==
    [i \in DOMAIN b |->
        LET batch(l) == SelectSeq(b, LAMBDA c : c.lane = l)
            c == (batch("trace") \o batch("default"))[i]
        IN IF c.id \in got[c.lane] THEN Reply(c) ELSE NoResponse(c)]

\* handle(): merged maps an id to the last reply that bears it, those of the
\* default lane after those of the tracing lane, and every call of the body
\* looks its id up.
Merge(b, got) ==
    [i \in DOMAIN b |->
        CASE b[i].id \in got["default"] -> [id |-> b[i].id, to |-> {"default"}]
          [] b[i].id \notin got["default"] /\ b[i].id \in got["trace"] -> [id |-> b[i].id, to |-> {"trace"}]
          [] OTHER -> NoResponse(b[i])]

(***************************************************************************)
(* The token bucket                                                        *)
(***************************************************************************)

MinOf(a, b) == IF a < b THEN a ELSE b
Counted(n) == IF window.on THEN [window EXCEPT !.granted = @ + n] ELSE window
NextTick(w) == IF ~w.on THEN w ELSE IF w.ticks = MaxTicks THEN ClosedWindow ELSE [w EXCEPT !.ticks = @ + 1]

\* The waiters that `have` parts serve; `have` less what they took is left.
ServeFrom(have) ==
    LET n == MinOf(Len(waiters), have \div Part)
    IN /\ tokens' = have - n * Part
       /\ waiters' = SubSeq(waiters, n + 1, Len(waiters))
       /\ lane' = [r \in Requests |-> [l \in Lanes |->
                      IF \E i \in 1..n : waiters[i] = <<r, l>> THEN "calling" ELSE lane[r][l]]]
       /\ window' = NextTick(Counted(n))
       /\ UNCHANGED <<attempts, back, answer>>

\* The interval of 50 ms.
Refill == ServeFrom(MinOf(Capacity, tokens + PerTick))

\* Any moment may be the first of the stretch that is looked at.
StartCounting ==
    /\ ~window.on /\ ~window.over
    /\ window' = [NotCounting EXCEPT !.on = TRUE]
    /\ UNCHANGED <<lane, attempts, back, answer, tokens, waiters>>

(***************************************************************************)
(* Requests                                                                *)
(***************************************************************************)

RouterInit ==
    /\ lane = [r \in Requests |-> [l \in Lanes |-> "idle"]]
    /\ attempts = [r \in Requests |-> [l \in Lanes |-> 0]]
    /\ back = [r \in Requests |-> [l \in Lanes |-> {}]]
    /\ answer = [r \in Requests |-> NotYet]
    /\ tokens = Capacity
    /\ waiters = <<>>
    /\ window = NotCounting

\* handle() and the first line of forward(): both lanes start at once.  A
\* lane with no call of its own is done; the tracing lane takes a token if
\* one is left, and queues if not.
ReceiveBatch(r) ==
    LET has(l) == CallsOf(BodyOf[r], l) # {}
        now == has("trace") /\ tokens >= Part
    IN /\ lane[r] = [l \in Lanes |-> "idle"]
       /\ lane' = [lane EXCEPT ![r] = [l \in Lanes |->
                      CASE ~has(l) -> "done"
                        [] has(l) /\ l = "trace" /\ ~now -> "waiting"
                        [] OTHER -> "calling"]]
       /\ tokens' = IF now THEN tokens - Part ELSE tokens
       /\ waiters' = IF has("trace") /\ ~now THEN Append(waiters, <<r, "trace">>) ELSE waiters
       /\ window' = IF now THEN Counted(1) ELSE window
       /\ UNCHANGED <<attempts, back, answer>>

\* The upstream answers the lane's batch, some of its calls perhaps not.
LaneAnswered(r, l) ==
    /\ lane[r][l] = "calling"
    /\ \E ids \in SUBSET IdsOf(BodyOf[r], l) : back' = [back EXCEPT ![r][l] = ids]
    /\ lane' = [lane EXCEPT ![r][l] = "done"]
    /\ UNCHANGED <<attempts, answer, tokens, waiters, window>>

\* 429, 503, an error of the socket, a timeout or a body that is not JSON:
\* the attempt is counted, and after the last the lane throws.
Refused(r, l) ==
    /\ lane[r][l] = "calling"
    /\ attempts' = [attempts EXCEPT ![r][l] = @ + 1]
    /\ lane' = [lane EXCEPT ![r][l] = IF attempts[r][l] + 1 = Attempts THEN "failed" ELSE "resting"]
    /\ UNCHANGED <<back, answer, tokens, waiters, window>>

\* The response has begun and is closed, or timed out, before its end: postJson
\* listens to the end of the response and to errors of the request, neither of
\* which comes, and the lane waits for good.
CutOff(r, l) ==
    /\ lane[r][l] = "calling"
    /\ lane' = [lane EXCEPT ![r][l] = "hung"]
    /\ UNCHANGED <<attempts, back, answer, tokens, waiters, window>>

\* The backoff is over: the next attempt takes no token.
TryAgain(r, l) ==
    /\ lane[r][l] = "resting"
    /\ lane' = [lane EXCEPT ![r][l] = "calling"]
    /\ UNCHANGED <<attempts, back, answer, tokens, waiters, window>>

\* Promise.all: the replies of both lanes, or the first failure of either
\* while the other may still be running.
Respond(r) ==
    /\ answer[r] = NotYet
    /\ \/ /\ \A l \in Lanes : lane[r][l] = "done"
          /\ answer' = [answer EXCEPT ![r] = [kind |-> "replies", replies |-> Merge(BodyOf[r], back[r])]]
       \/ /\ \E l \in Lanes : lane[r][l] = "failed"
          /\ answer' = [answer EXCEPT ![r] = Failed]
    /\ UNCHANGED <<lane, attempts, back, tokens, waiters, window>>

RouterStep(r) ==
    \/ ReceiveBatch(r) \/ Respond(r)
    \/ \E l \in Lanes : LaneAnswered(r, l) \/ Refused(r, l) \/ CutOff(r, l) \/ TryAgain(r, l)

RouterNext == Refill \/ StartCounting \/ \E r \in Requests : RouterStep(r)

\* The event loop runs what is ready, timers fire, and a socket that says nothing
\* is destroyed by its timeout, which ends the call unless its response had begun
\* (CutOff).
RouterFairness ==
    /\ WF_routerVars(Refill)
    /\ \A r \in Requests :
          /\ WF_routerVars(Respond(r))
          /\ \A l \in Lanes : WF_routerVars(LaneAnswered(r, l) \/ Refused(r, l)) /\ WF_routerVars(TryAgain(r, l))

RouterSpec == RouterInit /\ [][RouterNext]_routerVars /\ RouterFairness

(***************************************************************************)
(* Properties                                                              *)
(***************************************************************************)

\* Nobody overtakes the queue: while a call waits no token is left that a
\* newcomer could take, so waiters are served in the order they came.
NoOvertaking == waiters # <<>> => tokens < Part

\* The bucket does what it is there for, as far as it is asked: over any
\* stretch of time the lanes let through are a full bucket and what the
\* stretch refilled, however long the router idled before it.
WindowBounded == window.granted * Part <= Capacity + window.ticks * PerTick

\* Every call of an answered request has, in its own place, the reply its own
\* lane brought for it or the error that says there was none.
EachCallItsReply ==
    \A r \in Requests : answer[r].kind = "replies" =>
        /\ Len(answer[r].replies) = Len(BodyOf[r])
        /\ \A i \in DOMAIN BodyOf[r] : answer[r].replies[i] \in {Reply(BodyOf[r][i]), NoResponse(BodyOf[r][i])}

\* Every request that arrives is answered, with replies or with an error, unless
\* one of its lanes waits for a response that was cut off.
EveryRequestAnswered ==
    \A r \in Requests :
        lane[r]["trace"] # "idle" ~> answer[r] # NotYet \/ \E l \in Lanes : lane[r][l] = "hung"

\* A fair and bounded trace lane, and every reply in its place.
RoutesFairly == NoOvertaking /\ WindowBounded /\ EachCallItsReply
=============================================================================
