--------------------------- MODULE SponsoredSend ---------------------------
(***************************************************************************)
(* The SDK's one call: SponsoredBundlerClient.sendUserOperation over        *)
(* PaymasterClient, BundlerClient and transport.ts.  It sponsors a draft,   *)
(* estimates with that sponsorship present, sponsors the estimated          *)
(* operation, has the wallet sign, submits and polls for the receipt.  All  *)
(* but the signature are HTTP calls that may be lost, time out, fail, or    *)
(* stall after their headers; the wallet may refuse, or never answer.  A    *)
(* caller whose send threw may send the same request again.                 *)
(*                                                                         *)
(* An operation is its gas limits and its nonce; a sponsorship is the       *)
(* limits it was signed over (Attestation has the rest).                    *)
(***************************************************************************)
EXTENDS Naturals, FiniteSets

CONSTANTS
    Estimates,  \* limits the bundler may estimate
    MaxPolls,   \* waitTimeoutMs over pollIntervalMs: polls before the deadline
    MaxSends    \* bound: sends of the same request

\* An estimate is a positive number, and so never like an answer not yet there.
ASSUME SendAssumption == Estimates \subseteq Nat \ {0}

VARIABLES
    stage,      \* the call or signature awaited, or how the send ended
    wire,       \* where that call is: "out", "headers", "stalled", or "none"
    reply,      \* what its response says
    op,         \* the operation being prepared
    polls,      \* polls of the receipt so far
    sends,      \* sends so far
    attested,   \* limits the paymaster signed a sponsorship over
    pool,       \* operations the bundler accepted
    landed      \* operations mined

sendVars == <<stage, wire, reply, op, polls, sends, attested, pool, landed>>

HttpCalls == {"prelim", "estimate", "final", "submit", "poll"}
SendEnded == {"idle", "returned", "threw"}
Absent == 0
Placeholder == 1  \* the draft's 1_000_000 gas

Draft == [limits |-> Placeholder, sponsorship |-> Absent, signature |-> Absent]

\* getUserOperationHash: it covers the limits and the paymaster's fields.
Hash(o) == <<o.limits, o.sponsorship>>

SendInit ==
    /\ stage = "idle" /\ wire = "none" /\ reply = Absent
    /\ op = Draft /\ polls = 0 /\ sends = 0
    /\ attested = {} /\ pool = {} /\ landed = {}

\* post(): the request leaves and its timer starts.
Post(s) == stage' = s /\ wire' = "out" /\ reply' = Absent

Throw == stage' = "threw" /\ wire' = "none" /\ reply' = Absent

\* prepareUserOperation: the draft, and its preliminary sponsorship.
SendUserOperation ==
    /\ stage \in {"idle", "threw"}
    /\ sends < MaxSends
    /\ sends' = sends + 1
    /\ op' = Draft /\ polls' = 0
    /\ Post("prelim")
    /\ UNCHANGED <<attested, pool, landed>>

(***************************************************************************)
(* The other end of a call.  It may act on a request whose answer is lost.  *)
(***************************************************************************)

\* The account's own check, and the paymaster's.
Validates(o) == o.signature = Hash(o) /\ o.sponsorship = o.limits /\ o.limits \in attested

\* POST /paymaster/sponsor: a sponsorship over the limits it is sent.
ServeSponsor ==
    /\ stage \in {"prelim", "final"} /\ wire = "out" /\ reply = Absent
    /\ attested' = attested \cup {op.limits}
    /\ reply' = op.limits
    /\ UNCHANGED <<stage, wire, op, polls, sends, pool, landed>>

\* eth_estimateUserOperationGas: without a sponsorship that validates, the
\* account is the payer and the simulation reverts.
ServeEstimate ==
    /\ stage = "estimate" /\ wire = "out" /\ reply = Absent
    /\ op.sponsorship = op.limits
    /\ \E limits \in Estimates : reply' = limits
    /\ UNCHANGED <<stage, wire, op, polls, sends, attested, pool, landed>>

ServeSubmit ==
    /\ stage = "submit" /\ wire = "out" /\ reply = Absent
    /\ Validates(op) /\ landed = {}
    /\ pool' = pool \cup {op}
    /\ reply' = 1
    /\ UNCHANGED <<stage, wire, op, polls, sends, attested, landed>>

\* eth_getUserOperationReceipt: of this operation's hash, or null.
ServePoll ==
    /\ stage = "poll" /\ wire = "out" /\ reply = Absent
    /\ reply' = IF \E o \in landed : Hash(o) = Hash(op) THEN 1 ELSE 2
    /\ UNCHANGED <<stage, wire, op, polls, sends, attested, pool, landed>>

\* The bundler mines one operation of an account's nonce.
Mine ==
    /\ landed = {}
    /\ \E o \in pool : landed' = {o}
    /\ UNCHANGED <<stage, wire, reply, op, polls, sends, attested, pool>>

(***************************************************************************)
(* The client's end.                                                       *)
(***************************************************************************)

\* fetch resolves with the headers, and the timer is cleared.
Headers ==
    /\ wire = "out" /\ reply # Absent
    /\ wire' = "headers"
    /\ UNCHANGED <<stage, reply, op, polls, sends, attested, pool, landed>>

\* The rest of the response never comes.
Stall ==
    /\ wire = "headers"
    /\ wire' = "stalled"
    /\ UNCHANGED <<stage, reply, op, polls, sends, attested, pool, landed>>

\* Lost, refused, malformed, an error in the body, or the abort of the timer:
\* all of them throw out of the send, a poll of the receipt included.
Fail ==
    /\ wire \in {"out", "headers"}
    /\ Throw
    /\ UNCHANGED <<op, polls, sends, attested, pool, landed>>

Timeout ==
    /\ wire = "out"
    /\ Throw
    /\ UNCHANGED <<op, polls, sends, attested, pool, landed>>

\* estimated: the draft with the limits of the estimate, unsponsored again.
Estimated(limits) == [Draft EXCEPT !.limits = limits]

Arrived(s) == stage = s /\ wire = "headers"

\* response.text(), and the next step of prepareUserOperation.
Prelim ==
    /\ Arrived("prelim")
    /\ op' = [op EXCEPT !.sponsorship = reply]
    /\ Post("estimate")
    /\ UNCHANGED <<polls, sends, attested, pool, landed>>

Estimate ==
    /\ Arrived("estimate")
    /\ op' = Estimated(reply)
    /\ Post("final")
    /\ UNCHANGED <<polls, sends, attested, pool, landed>>

\* (Slip: the wallet signs the operation before it is sponsored.)
SignedEarly(o) == [o EXCEPT !.signature = <<o.limits, Absent>>]

\* applySponsorshipTo, then the hash, then the wallet's signature over it.
Signed(o) == [o EXCEPT !.signature = Hash(o)]

\* The caller's signUserOperationHash is called and awaited.
Final ==
    /\ Arrived("final")
    /\ op' = [op EXCEPT !.sponsorship = reply]
    /\ stage' = "signing" /\ wire' = "none" /\ reply' = Absent
    /\ UNCHANGED <<polls, sends, attested, pool, landed>>

\* Whoever holds the wallet signs, or refuses, which throws out of the send; no
\* timer makes them do either.
WalletAnswers ==
    /\ stage = "signing"
    /\ \/ op' = Signed(op) /\ Post("submit")
       \/ Throw /\ UNCHANGED op
    /\ UNCHANGED <<polls, sends, attested, pool, landed>>

Submitted ==
    /\ Arrived("submit")
    /\ Post("poll")
    /\ UNCHANGED <<op, polls, sends, attested, pool, landed>>

\* waitForUserOperationReceipt: the receipt, another poll, or the deadline.
Polled ==
    /\ Arrived("poll")
    /\ \/ reply = 1 /\ stage' = "returned" /\ wire' = "none" /\ reply' = Absent /\ UNCHANGED polls
       \/ reply = 2 /\ polls + 1 < MaxPolls /\ polls' = polls + 1 /\ Post("poll")
       \/ reply = 2 /\ polls + 1 >= MaxPolls /\ Throw /\ UNCHANGED polls
    /\ UNCHANGED <<op, sends, attested, pool, landed>>

Continue == Prelim \/ Estimate \/ Final \/ Submitted \/ Polled

SendNext ==
    \/ SendUserOperation \/ ServeSponsor \/ ServeEstimate \/ ServeSubmit \/ ServePoll \/ Mine
    \/ Headers \/ Stall \/ Fail \/ Timeout \/ Continue \/ WalletAnswers

\* The timer fires, and the client's code runs on; nothing is assumed of the
\* other end or of the wallet, nor that a response is ever complete.
SendFairness == WF_sendVars(Timeout) /\ WF_sendVars(Continue)

SendSpec == SendInit /\ [][SendNext]_sendVars /\ SendFairness

(***************************************************************************)
(* Properties                                                              *)
(***************************************************************************)

\* The order of the pipeline: what is submitted, on the first send or a
\* repeated one, was signed over exactly its fields, and its sponsorship was
\* given for the limits it carries, which are the estimated ones.
SubmittedIsSound ==
    stage \in {"submit", "poll"} => Validates(op) /\ op.limits \in Estimates

\* What the send may wait for without end: the rest of a response, and the wallet.
SendStuck == wire = "stalled" \/ stage = "signing"

\* A hung bundler does not hang the caller: every send returns or throws, unless
\* a response stalls after its headers or the wallet has not answered, which no
\* timer covers.  Once the wallet has signed, only a stall can stop the send.
EndsUnlessStalled ==
    /\ stage \in HttpCalls ~> stage \in SendEnded \/ SendStuck
    /\ stage \in {"submit", "poll"} ~> stage \in SendEnded \/ wire = "stalled"

\* What transport.ts says of its timeout: a stalled response is no exception.
NeverHangs == stage \in HttpCalls ~> stage \in SendEnded \/ stage = "signing"
=============================================================================
