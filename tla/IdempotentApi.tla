----------------------------- MODULE IdempotentApi -----------------------------
(***************************************************************************)
(* The operation policy that application_api_contracts.py gives every      *)
(* mutation of /v1: an idempotency key by principal and operation, and an  *)
(* expected version of the resource in the body.                           *)
(*                                                                         *)
(* A client reads the version, sends a body under a key until it is        *)
(* answered; requests and answers are lost, late and repeated, and a       *)
(* client may send another body under a key it has used.  Operations with  *)
(* a protocol identity (sign-in, certificate and device ceremonies) carry  *)
(* a one-time transaction instead of key and version; creations carry no   *)
(* version.                                                                *)
(***************************************************************************)
EXTENDS Naturals, Sequences, FiniteSets

CONSTANTS
  Clients,       \* principals
  Contents,      \* what a body can ask for
  Modes,         \* the kinds of operation checked, some of the three below
  MaxKeys,       \* bound: client -> keys (or transactions) it uses
  MaxNetwork     \* bound: requests on their way

ASSUME ApiAssumption == MaxKeys \in [Clients -> Nat] /\ MaxNetwork \in Nat

VARIABLES
  mode,       \* the operation's kind
  version,    \* the resource's version
  ledger,     \* the requests applied, in order, and so the keys that are known
  calls,      \* client -> its last key, the body it waits for, what it was last told
  network     \* requests on their way

apiVars == <<mode, version, ledger, calls, network>>

\* _operation and _operation_request_schema: a versioned mutation, a creation (a mutation
\* without expected_version), an operation with a one-time transaction.
OperationModes == {"versioned", "creation", "protocol"}
ASSUME ModesAssumption == Modes \subseteq OperationModes

NoBody == [content |-> "none", version |-> 0]

ApiInit ==
  /\ mode \in Modes
  /\ version = 1
  /\ ledger = <<>>
  /\ calls = [c \in Clients |-> [key |-> 0, body |-> NoBody, told |-> "nothing", about |-> NoBody]]
  /\ network = {}

\* What a client asks for now: a versioned body states the version that was read.
Bodies == {[content |-> x, version |-> IF mode = "versioned" THEN version ELSE 0] : x \in Contents}

Request(c, key, body) == [client |-> c, key |-> key, body |-> body]
Awaited(c) == Request(c, calls[c].key, calls[c].body)

\* A client sends a new request under a new key.
Call(c) ==
  /\ calls[c].body = NoBody /\ calls[c].key < MaxKeys[c] /\ Cardinality(network) < MaxNetwork
  /\ \E body \in Bodies :
       /\ calls' = [calls EXCEPT ![c] =
            [key |-> @.key + 1, body |-> body, told |-> "nothing", about |-> NoBody]]
       /\ network' = network \cup {Request(c, calls[c].key + 1, body)}
  /\ UNCHANGED <<mode, version, ledger>>

\* It was not answered, and sends the same again.
Resend(c) ==
  /\ calls[c].body # NoBody /\ Awaited(c) \notin network
  /\ network' = network \cup {Awaited(c)}
  /\ UNCHANGED <<mode, version, ledger, calls>>

\* It sends another body under the key, while the first may still arrive.
Rewrite(c) ==
  /\ calls[c].body # NoBody /\ Cardinality(network) < MaxNetwork
  /\ \E body \in Bodies \ {calls[c].body} :
       /\ calls' = [calls EXCEPT ![c].body = body]
       /\ network' = network \cup {Request(c, calls[c].key, body)}
  /\ UNCHANGED <<mode, version, ledger>>

GiveUp(c) ==
  /\ calls[c].body # NoBody
  /\ calls' = [calls EXCEPT ![c].body = NoBody]
  /\ UNCHANGED <<mode, version, ledger, network>>

Drop(q) ==
  /\ network' = network \ {q}
  /\ UNCHANGED <<mode, version, ledger, calls>>

Known(q) == {i \in DOMAIN ledger : ledger[i].client = q.client /\ ledger[i].key = q.key}
Same(q) == \E i \in Known(q) : ledger[i].body = q.body
Stale(q) == mode = "versioned" /\ q.body.version # version

\* Mutant: the version is compared before the key.
OutcomeVersionFirst(q) ==
  IF Stale(q) THEN "stale_version"
  ELSE IF Known(q) = {} THEN "applied"
  ELSE IF mode # "protocol" /\ Same(q) THEN "replayed"
  ELSE "idempotency_key_reused"

\* What the policy makes of a request: a known key first, then the expected version.
\* A one-time transaction is used up, whatever is sent under it again.
Outcome(q) ==
  IF Known(q) # {}
    THEN IF mode # "protocol" /\ Same(q) THEN "replayed" ELSE "idempotency_key_reused"
    ELSE IF Stale(q) THEN "stale_version" ELSE "applied"

\* A request arrives, once or again, and its answer arrives or is lost.
Serve(q, again, answered) ==
  /\ q \in network
  /\ IF Outcome(q) = "applied"
       THEN version' = version + 1 /\ ledger' = Append(ledger, q)
       ELSE UNCHANGED <<version, ledger>>
  /\ network' = IF again THEN network ELSE network \ {q}
  /\ calls' = IF answered /\ Awaited(q.client) = q
               THEN [calls EXCEPT ![q.client] =
                      [@ EXCEPT !.body = NoBody, !.told = Outcome(q), !.about = q.body]]
               ELSE calls
  /\ UNCHANGED mode

ApiNext ==
  \/ \E c \in Clients : Call(c) \/ Resend(c) \/ Rewrite(c) \/ GiveUp(c)
  \/ \E q \in network : Drop(q) \/ \E again, answered \in BOOLEAN : Serve(q, again, answered)

ApiSpec == ApiInit /\ [][ApiNext]_apiVars

-----------------------------------------------------------------------------

Times(q) == {i \in DOMAIN ledger : ledger[i] = q}

\* What a client is told of a request is true of it for good: applied exactly once, also
\* when it was resent, or never, also when it is still on its way (the idempotency and
\* concurrency policies of _operation).  Of a one-time transaction that is used up it
\* learns no more than that it was used, by itself or by another body.
AnswersAreTrue ==
  \A c \in Clients :
    LET call == calls[c]
        q == Request(c, call.key, call.about) IN
    /\ call.told \in {"applied", "replayed"} => Cardinality(Times(q)) = 1
    /\ call.told = "stale_version" => Times(q) = {}
    /\ call.told = "idempotency_key_reused" =>
         Cardinality(Known(q)) = 1 /\ (mode # "protocol" => Times(q) = {})

\* No key has two effects, and a versioned request takes effect on the very version that
\* its client had read, whatever was applied since.
EffectsAreSingle ==
  \A i \in DOMAIN ledger :
    /\ Known(ledger[i]) = {i}
    /\ mode = "versioned" => ledger[i].body.version = i

\* Each request takes effect at most once and its client can believe what it was told,
\* whatever was lost, repeated or raced on the way.
ExactlyOnce == AnswersAreTrue /\ EffectsAreSingle
=============================================================================
