-------------------------- MODULE ContractsProofs --------------------------
(***************************************************************************)
(* Theorems about the contracts: the policy of repeated requests, the      *)
(* workflow machines, the generator that writes the public contract, the   *)
(* fixtures it samples from a schema and the frames of a cell in JSON.     *)
(***************************************************************************)
EXTENDS IdempotentApi, WorkflowSubject, ContractGenerator, SchemaCorpus, ProtoJson,
        SequenceTheorems, FiniteSetTheorems, WellFoundedInduction, TLAPS

-----------------------------------------------------------------------------

(***************************************************************************)
(* The idempotent operations, for any number of clients, keys and resends. *)
(* The ledger is what was applied, in order: the invariant says that no    *)
(* key is in it twice, that a versioned request is the one for its place,  *)
(* and that what a client was told is about an entry of it.                *)
(***************************************************************************)

BodyRecords == [content : Contents \cup {"none"}, version : Nat]
Requests == [client : Clients, key : Nat, body : BodyRecords]
Tellings == {"nothing", "applied", "replayed", "stale_version", "idempotency_key_reused"}
CallRecords == [key : Nat, body : BodyRecords, told : Tellings, about : BodyRecords]

\* The ledger is as long as the resource has changed, and nobody states a later version.
ApiTyped ==
  /\ mode \in OperationModes
  /\ ledger \in Seq(Requests) /\ Len(ledger) \in Nat /\ version = Len(ledger) + 1
  /\ network \in SUBSET Requests
  /\ calls \in [Clients -> CallRecords]
  /\ mode = "versioned" =>
       /\ \A q \in network : q.body.version <= version
       /\ \A c \in Clients : calls[c].body.version <= version

\* What the ledger l says: no key twice, versions in order.
LedgerSingle(l, m) ==
  /\ \A i, j \in 1..Len(l) : l[i].client = l[j].client /\ l[i].key = l[j].key => i = j
  /\ m = "versioned" => \A i \in 1..Len(l) : l[i].body.version = i

\* What was told of a call of client c stays true of the ledger l.
ToldTruly(c, call, l, m) ==
  LET q == Request(c, call.key, call.about) IN
    /\ call.told \in {"applied", "replayed"} => \E i \in 1..Len(l) : l[i] = q
    /\ call.told = "stale_version" => m = "versioned" /\ call.about.version <= Len(l)
                                      /\ \A i \in 1..Len(l) : l[i] # q
    /\ call.told = "idempotency_key_reused" =>
         /\ \E i \in 1..Len(l) : l[i].client = c /\ l[i].key = call.key
         /\ m # "protocol" => \A i \in 1..Len(l) : l[i] # q

\* The inductive invariant.
ApiInv ==
  /\ ApiTyped
  /\ LedgerSingle(ledger, mode)
  /\ \A c \in Clients : ToldTruly(c, calls[c], ledger, mode)

-----------------------------------------------------------------------------

LEMMA ApiInvImplies == ApiInv => ExactlyOnce
<1> SUFFICES ASSUME ApiInv PROVE ExactlyOnce
  OBVIOUS
<1>1. DOMAIN ledger = 1..Len(ledger) /\ ledger \in Seq(Requests)
  BY LenProperties DEF ApiInv, ApiTyped
<1>2. ASSUME NEW i \in DOMAIN ledger
      PROVE  Known(ledger[i]) = {i} /\ (mode = "versioned" => ledger[i].body.version = i)
  BY <1>1, <1>2 DEF ApiInv, LedgerSingle, Known
<1>3. ASSUME NEW q, NEW i \in DOMAIN ledger, ledger[i] = q
      PROVE  Times(q) = {i} /\ Known(q) = {i}
  BY <1>1, <1>2, <1>3 DEF ApiInv, LedgerSingle, Known, Times
<1>4. \A x : Cardinality({x}) = 1
  BY FS_Singleton
<1>5. ASSUME NEW c \in Clients
      PROVE  LET call == calls[c]
                 q == Request(c, call.key, call.about) IN
             /\ call.told \in {"applied", "replayed"} => Cardinality(Times(q)) = 1
             /\ call.told = "stale_version" => Times(q) = {}
             /\ call.told = "idempotency_key_reused" =>
                  Cardinality(Known(q)) = 1 /\ (mode # "protocol" => Times(q) = {})
  <2> DEFINE call == calls[c]
             q == Request(c, call.key, call.about)
  <2>1. ToldTruly(c, call, ledger, mode)
    BY DEF ApiInv
  <2>2. q.client = c /\ q.key = call.key
    BY DEF Request
  <2>3. ASSUME call.told \in {"applied", "replayed"} PROVE Cardinality(Times(q)) = 1
    BY <1>1, <1>3, <1>4, <2>1, <2>3 DEF ToldTruly
  <2>4. ASSUME call.told = "stale_version" PROVE Times(q) = {}
    BY <1>1, <2>1, <2>4 DEF ToldTruly, Times
  <2>5. ASSUME call.told = "idempotency_key_reused" PROVE Cardinality(Known(q)) = 1
    <3>1. PICK i \in DOMAIN ledger : ledger[i].client = c /\ ledger[i].key = call.key
      BY <1>1, <2>1, <2>5 DEF ToldTruly
    <3>2. Known(q) = Known(ledger[i])
      BY <2>2, <3>1 DEF Known
    <3> QED BY <1>2, <1>4, <3>2
  <2>6. ASSUME call.told = "idempotency_key_reused", mode # "protocol" PROVE Times(q) = {}
    BY <1>1, <2>1, <2>6 DEF ToldTruly, Times
  <2> QED BY <2>3, <2>4, <2>5, <2>6
<1> QED BY <1>2, <1>5 DEF ExactlyOnce, AnswersAreTrue, EffectsAreSingle

\* A request that is applied under a key the ledger does not know, on the version it states,
\* leaves the ledger single and all that was told true.
LEMMA LedgerGrows ==
  ASSUME NEW l \in Seq(Requests), NEW q \in Requests, NEW m, LedgerSingle(l, m),
         \A i \in 1..Len(l) : ~ (l[i].client = q.client /\ l[i].key = q.key),
         m = "versioned" => q.body.version = Len(l) + 1
  PROVE  /\ LedgerSingle(Append(l, q), m)
         /\ \A c : \A call \in CallRecords : ToldTruly(c, call, l, m) => ToldTruly(c, call, Append(l, q), m)
         /\ \E i \in 1..Len(Append(l, q)) : Append(l, q)[i] = q
<1> DEFINE n == Append(l, q)
<1>1. /\ Len(n) = Len(l) + 1 /\ n[Len(l) + 1] = q /\ \A i \in 1..Len(l) : n[i] = l[i]
      /\ Len(l) \in Nat
  BY AppendProperties, LenProperties
<1> HIDE DEF n
<1>2. LedgerSingle(n, m)
  BY <1>1 DEF LedgerSingle
<1>3. ASSUME NEW c, NEW call \in CallRecords, ToldTruly(c, call, l, m) PROVE ToldTruly(c, call, n, m)
  <2> DEFINE r == Request(c, call.key, call.about)
  <2>1. r.client = c /\ r.key = call.key /\ r.body = call.about
    BY DEF Request
  <2> HIDE DEF r
  <2>2. ASSUME call.told \in {"applied", "replayed"} PROVE \E i \in 1..Len(n) : n[i] = r
    BY <1>1, <1>3, <2>2 DEF ToldTruly, r
  <2>3. ASSUME call.told = "stale_version"
        PROVE  m = "versioned" /\ call.about.version <= Len(n) /\ \A i \in 1..Len(n) : n[i] # r
    <3>1. m = "versioned" /\ call.about.version <= Len(l) /\ \A i \in 1..Len(l) : l[i] # r
      BY <1>3, <2>3 DEF ToldTruly, r
    <3>2. q # r
      BY <1>1, <2>1, <3>1
    <3>3. call.about.version <= Len(n)
      BY <1>1, <3>1 DEF CallRecords, BodyRecords
    <3> QED BY <1>1, <3>1, <3>2, <3>3
  <2>4. ASSUME call.told = "idempotency_key_reused"
        PROVE  /\ \E i \in 1..Len(n) : n[i].client = c /\ n[i].key = call.key
               /\ m # "protocol" => \A i \in 1..Len(n) : n[i] # r
    <3>1. /\ \E i \in 1..Len(l) : l[i].client = c /\ l[i].key = call.key
          /\ m # "protocol" => \A i \in 1..Len(l) : l[i] # r
      BY <1>3, <2>4 DEF ToldTruly, r
    <3>2. q # r
      BY <2>1, <3>1
    <3> QED BY <1>1, <3>1, <3>2
  <2> QED BY <2>2, <2>3, <2>4 DEF ToldTruly, r
<1>4. \E i \in 1..Len(n) : n[i] = q
  BY <1>1
<1> QED BY <1>2, <1>3, <1>4 DEF n

-----------------------------------------------------------------------------

\* What the steps of a client share: the ledger stays, its call and the requests on their way
\* state no version that was not there, and what it was told is nothing or what it was.
LEMMA ClientKeeps ==
  ASSUME ApiInv, NEW c \in Clients, NEW call \in CallRecords, UNCHANGED <<mode, version, ledger>>,
         calls' = [calls EXCEPT ![c] = call], network' \in SUBSET Requests,
         mode = "versioned" =>
           call.body.version <= version /\ \A q \in network' : q.body.version <= version,
         ToldTruly(c, call, ledger, mode)
  PROVE  ApiInv'
<1>1. calls' \in [Clients -> CallRecords]
      /\ \A d \in Clients : calls'[d] = IF d = c THEN call ELSE calls[d]
  BY DEF ApiInv, ApiTyped
<1>2. ApiTyped'
  BY <1>1 DEF ApiInv, ApiTyped
<1>3. \A d \in Clients : ToldTruly(d, calls'[d], ledger, mode)
  BY <1>1 DEF ApiInv
<1>4. ledger' = ledger /\ mode' = mode
  OBVIOUS
<1>5. \A d \in Clients : ToldTruly(d, calls'[d], ledger', mode')
  BY <1>3, <1>4
<1>6. LedgerSingle(ledger', mode')
  BY <1>4 DEF ApiInv
<1> QED BY <1>2, <1>5, <1>6 DEF ApiInv, ToldTruly, LedgerSingle, Request

LEMMA BodiesTyped ==
  ASSUME ApiInv
  PROVE  /\ version \in Nat /\ NoBody \in BodyRecords /\ NoBody.version = 0
         /\ \A body \in Bodies : body \in BodyRecords /\ (mode = "versioned" => body.version <= version)
BY DEF ApiInv, ApiTyped, Bodies, BodyRecords, NoBody

LEMMA RequestTyped ==
  ASSUME NEW c \in Clients, NEW key \in Nat, NEW body \in BodyRecords
  PROVE  Request(c, key, body) \in Requests /\ Request(c, key, body).body = body
BY DEF Request, Requests

LEMMA RequestIsItsFields ==
  ASSUME NEW q \in Requests, NEW r \in Requests,
         q.client = r.client, q.key = r.key, q.body = r.body
  PROVE  q = r
<1>1. /\ q = [client |-> q.client, key |-> q.key, body |-> q.body]
      /\ r = [client |-> r.client, key |-> r.key, body |-> r.body]
  BY DEF Requests
<1> QED BY <1>1

LEMMA CallKeeps == ASSUME ApiInv, NEW c \in Clients, Call(c) PROVE ApiInv'
<1>1. PICK body \in Bodies :
        /\ calls' = [calls EXCEPT ![c] =
             [key |-> @.key + 1, body |-> body, told |-> "nothing", about |-> NoBody]]
        /\ network' = network \cup {Request(c, calls[c].key + 1, body)}
  BY DEF Call
<1>2. body \in BodyRecords /\ calls[c] \in CallRecords /\ calls[c].key + 1 \in Nat
  BY BodiesTyped DEF ApiInv, ApiTyped, CallRecords
<1>3. PICK call \in CallRecords :
        call = [key |-> calls[c].key + 1, body |-> body, told |-> "nothing", about |-> NoBody]
  BY <1>2, BodiesTyped DEF CallRecords, Tellings
<1>4. ToldTruly(c, call, ledger, mode)
  BY <1>3 DEF ToldTruly
<1>5. network' \in SUBSET Requests
      /\ (mode = "versioned" => \A q \in network' : q.body.version <= version)
  <2>1. PICK q \in Requests : q = Request(c, calls[c].key + 1, body) /\ q.body = body
    BY <1>2, RequestTyped
  <2> QED BY <1>1, <2>1, BodiesTyped DEF ApiInv, ApiTyped
<1>6. UNCHANGED <<mode, version, ledger>>
  BY DEF Call
<1>7. mode = "versioned" => call.body.version <= version
  BY <1>3, BodiesTyped
<1>8. calls' = [calls EXCEPT ![c] = call]
  BY <1>1, <1>3
<1> QED BY <1>4, <1>5, <1>6, <1>7, <1>8, ClientKeeps

LEMMA ResendKeeps == ASSUME ApiInv, NEW c \in Clients, Resend(c) PROVE ApiInv'
<1>1. PICK call \in CallRecords : call = calls[c]
  BY DEF ApiInv, ApiTyped
<1>2. calls' = [calls EXCEPT ![c] = call]
  BY <1>1 DEF Resend, ApiInv, ApiTyped
<1>3. Awaited(c) \in Requests /\ Awaited(c).body = call.body
  BY <1>1, RequestTyped DEF Awaited, CallRecords
<1>4. network' = network \cup {Awaited(c)} /\ UNCHANGED <<mode, version, ledger>>
  BY DEF Resend
<1>5. /\ mode = "versioned" => call.body.version <= version
      /\ mode = "versioned" => \A q \in network' : q.body.version <= version
      /\ network' \in SUBSET Requests
  BY <1>1, <1>3, <1>4 DEF ApiInv, ApiTyped
<1>6. ToldTruly(c, call, ledger, mode)
  BY <1>1 DEF ApiInv
<1> QED BY <1>2, <1>4, <1>5, <1>6, ClientKeeps

LEMMA RewriteKeeps == ASSUME ApiInv, NEW c \in Clients, Rewrite(c) PROVE ApiInv'
<1>1. PICK body \in Bodies :
        /\ calls' = [calls EXCEPT ![c].body = body]
        /\ network' = network \cup {Request(c, calls[c].key, body)}
  BY DEF Rewrite
<1>2. body \in BodyRecords /\ calls[c] \in CallRecords /\ calls[c].key \in Nat
  BY BodiesTyped DEF ApiInv, ApiTyped, CallRecords
<1>3. PICK call \in CallRecords : call = [calls[c] EXCEPT !.body = body]
  BY <1>2 DEF CallRecords
<1>4. /\ call.body = body /\ call.key = calls[c].key /\ call.told = calls[c].told
      /\ call.about = calls[c].about
  BY <1>2, <1>3 DEF CallRecords
<1>5. ToldTruly(c, call, ledger, mode)
  BY <1>4 DEF ToldTruly, ApiInv
<1>6. network' \in SUBSET Requests
      /\ (mode = "versioned" => \A q \in network' : q.body.version <= version)
  <2>1. PICK q \in Requests : q = Request(c, calls[c].key, body) /\ q.body = body
    BY <1>2, RequestTyped
  <2> QED BY <1>1, <2>1, BodiesTyped DEF ApiInv, ApiTyped
<1>7. UNCHANGED <<mode, version, ledger>>
  BY DEF Rewrite
<1>8. mode = "versioned" => call.body.version <= version
  BY <1>4, BodiesTyped
<1>9. calls' = [calls EXCEPT ![c] = call]
  BY <1>1, <1>3
<1> QED BY <1>5, <1>6, <1>7, <1>8, <1>9, ClientKeeps

LEMMA GiveUpKeeps == ASSUME ApiInv, NEW c \in Clients, GiveUp(c) PROVE ApiInv'
<1>1. PICK call \in CallRecords : call = [calls[c] EXCEPT !.body = NoBody]
  BY BodiesTyped DEF ApiInv, ApiTyped, CallRecords
<1>2. /\ call.body = NoBody /\ call.key = calls[c].key /\ call.told = calls[c].told
      /\ call.about = calls[c].about
  BY <1>1 DEF ApiInv, ApiTyped, CallRecords
<1>3. ToldTruly(c, call, ledger, mode)
  BY <1>2 DEF ToldTruly, ApiInv
<1>4. calls' = [calls EXCEPT ![c] = call] /\ UNCHANGED <<mode, version, ledger, network>>
  BY <1>1 DEF GiveUp
<1>5. /\ mode = "versioned" => call.body.version <= version
      /\ mode = "versioned" => \A q \in network' : q.body.version <= version
      /\ network' \in SUBSET Requests
  BY <1>2, <1>4, BodiesTyped DEF ApiInv, ApiTyped
<1> QED BY <1>3, <1>4, <1>5, ClientKeeps

LEMMA DropKeeps == ASSUME ApiInv, NEW q \in network, Drop(q) PROVE ApiInv'
<1>1. UNCHANGED <<mode, version, ledger, calls>> /\ network' \subseteq network
  BY DEF Drop
<1>2. ApiTyped'
  BY <1>1 DEF ApiInv, ApiTyped
<1> QED BY <1>1, <1>2 DEF ApiInv, LedgerSingle, ToldTruly, Request

\* What is answered is true of the ledger at once.
LEMMA OutcomeIsTrue ==
  ASSUME ApiInv, NEW q \in network, NEW l \in Seq(Requests),
         IF Outcome(q) = "applied" THEN l = Append(ledger, q) ELSE l = ledger
  PROVE  /\ LedgerSingle(l, mode)
         /\ \A c \in Clients : ToldTruly(c, calls[c], l, mode)
         /\ \A call \in CallRecords :
              call.key = q.key /\ call.told = Outcome(q) /\ call.about = q.body =>
                ToldTruly(q.client, call, l, mode)
<1>1. /\ q \in Requests /\ ledger \in Seq(Requests) /\ Len(ledger) \in Nat
      /\ DOMAIN ledger = 1..Len(ledger) /\ version = Len(ledger) + 1 /\ q.body.version \in Nat
      /\ mode = "versioned" => q.body.version <= version
  BY LenProperties DEF ApiInv, ApiTyped, Requests, BodyRecords
<1>2. \A call \in CallRecords : call.key = q.key /\ call.about = q.body =>
        Request(q.client, call.key, call.about) = q
  BY <1>1 DEF Request, Requests
<1>3. /\ Known(q) = {} => \A i \in 1..Len(ledger) :
           ~ (ledger[i].client = q.client /\ ledger[i].key = q.key)
      /\ Known(q) # {} => \E i \in 1..Len(ledger) :
           ledger[i].client = q.client /\ ledger[i].key = q.key
  BY <1>1 DEF Known
<1>4. CASE Outcome(q) = "applied"
  <2>1. Known(q) = {} /\ (mode = "versioned" => q.body.version = Len(ledger) + 1)
    BY <1>1, <1>4 DEF Outcome, Stale
  <2>2. l = Append(ledger, q)
    BY <1>4
  <2>3. PICK before, m : before = ledger /\ m = mode /\ before \in Seq(Requests)
    BY <1>1
  <2>4. /\ LedgerSingle(Append(before, q), m)
        /\ \A c : \A call \in CallRecords :
              ToldTruly(c, call, before, m) => ToldTruly(c, call, Append(before, q), m)
        /\ \E i \in 1..Len(Append(before, q)) : Append(before, q)[i] = q
    <3>1. \A i \in 1..Len(before) : ~ (before[i].client = q.client /\ before[i].key = q.key)
      BY <1>3, <2>1, <2>3
    <3>2. LedgerSingle(before, m)
      BY <2>3 DEF ApiInv
    <3>3. m = "versioned" => q.body.version = Len(before) + 1
      BY <2>1, <2>3
    <3> QED BY <1>1, <2>3, <3>1, <3>2, <3>3, LedgerGrows
  <2>5. \A c \in Clients : calls[c] \in CallRecords /\ ToldTruly(c, calls[c], before, m)
    BY <2>3 DEF ApiInv, ApiTyped
  <2>6. l = Append(before, q) /\ m = mode
    BY <2>2, <2>3
  <2>7. \A c \in Clients : ToldTruly(c, calls[c], l, mode)
    BY <2>4, <2>5, <2>6
  <2>8. LedgerSingle(l, mode) /\ \E i \in 1..Len(l) : l[i] = q
    BY <2>4, <2>6
  <2>9. ASSUME NEW call \in CallRecords,
               call.key = q.key, call.told = Outcome(q), call.about = q.body
        PROVE  ToldTruly(q.client, call, l, mode)
    BY <1>2, <1>4, <2>8, <2>9 DEF ToldTruly
  <2> QED BY <2>7, <2>8, <2>9
<1>5. CASE Outcome(q) # "applied"
  <2>1. l = ledger
    BY <1>5
  <2>2. ASSUME NEW call \in CallRecords,
               call.key = q.key, call.told = Outcome(q), call.about = q.body
        PROVE  ToldTruly(q.client, call, l, mode)
    <3>1. Request(q.client, call.key, call.about) = q
      BY <1>2, <2>2
    <3>2. CASE Outcome(q) = "replayed"
      <4>1. Same(q)
        BY <3>2 DEF Outcome
      <4>2. PICK i \in 1..Len(ledger) :
              ledger[i].client = q.client /\ ledger[i].key = q.key /\ ledger[i].body = q.body
        BY <1>1, <4>1 DEF Same, Known
      <4>3. ledger[i] = q
        <5>1. ledger[i] \in Requests
          BY <1>1, ElementOfSeq
        <5> QED BY <1>1, <4>2, <5>1, RequestIsItsFields
      <4> QED BY <2>1, <2>2, <3>1, <3>2, <4>3 DEF ToldTruly
    <3>3. CASE Outcome(q) = "idempotency_key_reused"
      <4>1. Known(q) # {} /\ (mode # "protocol" => ~ Same(q))
        BY <3>3 DEF Outcome
      <4>2. mode # "protocol" => \A i \in 1..Len(ledger) : ledger[i] # q
        BY <1>1, <4>1 DEF Same, Known
      <4> QED BY <1>3, <2>1, <2>2, <3>1, <3>3, <4>1, <4>2 DEF ToldTruly
    <3>4. CASE Outcome(q) = "stale_version"
      <4>1. Known(q) = {} /\ mode = "versioned" /\ q.body.version # version
        BY <3>4 DEF Outcome, Stale
      <4>2. q.body.version <= Len(ledger)
        BY <1>1, <4>1
      <4>3. \A i \in 1..Len(ledger) : ledger[i] # q
        BY <1>3, <4>1
      <4> QED BY <2>1, <2>2, <3>1, <3>4, <4>1, <4>2, <4>3 DEF ToldTruly
    <3> QED BY <1>5, <3>2, <3>3, <3>4 DEF Outcome
  <2> QED BY <2>1, <2>2 DEF ApiInv
<1> QED BY <1>4, <1>5

LEMMA ServeKeeps ==
  ASSUME ApiInv, NEW q \in network, NEW again \in BOOLEAN, NEW answered \in BOOLEAN,
         Serve(q, again, answered)
  PROVE  ApiInv'
<1>1. q \in Requests /\ q.client \in Clients /\ q.key \in Nat /\ q.body \in BodyRecords
  BY DEF ApiInv, ApiTyped, Requests
<1>2. PICK outcome \in Tellings : outcome = Outcome(q)
  BY DEF Outcome, Tellings
<1>3. /\ mode' = mode /\ network' \subseteq network
      /\ IF Outcome(q) = "applied"
           THEN version' = version + 1 /\ ledger' = Append(ledger, q)
           ELSE version' = version /\ ledger' = ledger
  BY DEF Serve
<1>4. /\ ledger \in Seq(Requests) /\ Len(ledger) \in Nat /\ version = Len(ledger) + 1
  BY DEF ApiInv, ApiTyped
<1>5. /\ ledger' \in Seq(Requests) /\ Len(ledger') \in Nat /\ version' = Len(ledger') + 1
      /\ version' >= version
  BY <1>1, <1>3, <1>4, AppendProperties
<1>6. PICK l \in Seq(Requests) : l = ledger'
  BY <1>5
<1>7. /\ LedgerSingle(l, mode)
      /\ \A c \in Clients : ToldTruly(c, calls[c], l, mode)
      /\ \A call \in CallRecords :
              call.key = q.key /\ call.told = Outcome(q) /\ call.about = q.body =>
                ToldTruly(q.client, call, l, mode)
  <2>1. IF Outcome(q) = "applied" THEN l = Append(ledger, q) ELSE l = ledger
    BY <1>3, <1>6
  <2> QED BY <2>1, OutcomeIsTrue
<1>8. /\ calls' \in [Clients -> CallRecords]
      /\ \A c \in Clients : ToldTruly(c, calls'[c], l, mode)
      /\ mode = "versioned" => \A c \in Clients : calls'[c].body.version <= version
  <2>1. CASE calls' = calls
    BY <1>7, <2>1 DEF ApiInv, ApiTyped
  <2>2. CASE /\ Awaited(q.client) = q
             /\ calls' = [calls EXCEPT ![q.client] =
                    [@ EXCEPT !.body = NoBody, !.told = Outcome(q), !.about = q.body]]
    <3>1. calls[q.client] \in CallRecords /\ calls[q.client].key = q.key
      BY <1>1, <2>2 DEF ApiInv, ApiTyped, Awaited, Request
    <3>2. PICK call \in CallRecords :
            call = [calls[q.client] EXCEPT !.body = NoBody, !.told = outcome, !.about = q.body]
      BY <1>1, <3>1, BodiesTyped DEF CallRecords
    <3>3. call.key = q.key /\ call.told = outcome /\ call.about = q.body /\ call.body = NoBody
      BY <3>1, <3>2 DEF CallRecords
    <3>4. ToldTruly(q.client, call, l, mode)
      BY <1>2, <1>7, <3>3
    <3>5. calls' = [calls EXCEPT ![q.client] = call]
      BY <1>2, <2>2, <3>2
    <3>6. \A c \in Clients : calls'[c] = IF c = q.client THEN call ELSE calls[c]
      BY <3>5 DEF ApiInv, ApiTyped
    <3>7. calls' \in [Clients -> CallRecords]
      BY <3>5 DEF ApiInv, ApiTyped
    <3>8. \A c \in Clients : ToldTruly(c, calls'[c], l, mode)
      BY <1>7, <3>4, <3>6
    <3>9. mode = "versioned" => \A c \in Clients : calls'[c].body.version <= version
      BY <3>3, <3>6, BodiesTyped DEF ApiInv, ApiTyped
    <3> QED BY <3>7, <3>8, <3>9
  <2> QED BY <2>1, <2>2 DEF Serve
<1>9. ApiTyped'
  <2>1. mode' = "versioned" => \A p \in network' : p.body.version <= version'
    BY <1>3, <1>4, <1>5 DEF ApiInv, ApiTyped, Requests, BodyRecords
  <2>2. mode' = "versioned" => \A c \in Clients : calls'[c].body.version <= version'
    BY <1>3, <1>4, <1>5, <1>8 DEF CallRecords, BodyRecords
  <2>3. mode' \in OperationModes /\ network' \in SUBSET Requests
    BY <1>3 DEF ApiInv, ApiTyped
  <2> QED BY <1>5, <1>8, <2>1, <2>2, <2>3 DEF ApiTyped
<1>10. LedgerSingle(ledger', mode') /\ \A c \in Clients : ToldTruly(c, calls'[c], ledger', mode')
  BY <1>3, <1>6, <1>7, <1>8
<1> QED BY <1>9, <1>10 DEF ApiInv, LedgerSingle, ToldTruly, Request

-----------------------------------------------------------------------------

LEMMA ApiInvInitially == ApiInit => ApiInv
<1> SUFFICES ASSUME ApiInit PROVE ApiInv
  OBVIOUS
<1>1. ledger = <<>> /\ Len(ledger) = 0 /\ ledger \in Seq(Requests)
  BY EmptySeq DEF ApiInit
<1>2. ApiTyped
  BY <1>1, ModesAssumption DEF ApiInit, ApiTyped, CallRecords, BodyRecords, NoBody, Tellings
<1>3. LedgerSingle(ledger, mode)
  BY <1>1 DEF LedgerSingle
<1>4. \A c \in Clients : ToldTruly(c, calls[c], ledger, mode)
  BY DEF ApiInit, ToldTruly
<1> QED BY <1>2, <1>3, <1>4 DEF ApiInv

LEMMA ApiInvStep == ApiInv /\ [ApiNext]_apiVars => ApiInv'
<1> SUFFICES ASSUME ApiInv, [ApiNext]_apiVars PROVE ApiInv'
  OBVIOUS
<1>1. ASSUME NEW c \in Clients, Call(c) \/ Resend(c) \/ Rewrite(c) \/ GiveUp(c) PROVE ApiInv'
  BY <1>1, CallKeeps, ResendKeeps, RewriteKeeps, GiveUpKeeps
<1>2. ASSUME NEW q \in network, Drop(q) PROVE ApiInv'
  BY <1>2, DropKeeps
<1>3. ASSUME NEW q \in network, NEW again \in BOOLEAN, NEW answered \in BOOLEAN,
             Serve(q, again, answered)
      PROVE  ApiInv'
  BY <1>3, ServeKeeps
<1>4. CASE UNCHANGED apiVars
  BY <1>4 DEF apiVars, ApiInv, ApiTyped, LedgerSingle, ToldTruly, Request
<1> QED BY <1>1, <1>2, <1>3, <1>4 DEF ApiNext

(***************************************************************************)
(* Under the operation policy of /v1 a request takes effect at most once,  *)
(* on the version its client read, and what a client is told of it stays   *)
(* true, for any number of clients, keys and resends and whatever is lost, *)
(* repeated or late.                                                       *)
(***************************************************************************)
THEOREM RequestsCountOnce == ApiSpec => []ExactlyOnce
BY ApiInvImplies, ApiInvInitially, ApiInvStep, PTL DEF ApiSpec

-----------------------------------------------------------------------------

(***************************************************************************)
(* The workflow machines, for any number of transitions. The graphs are    *)
(* data, so the proof goes machine by machine: a set of states closed      *)
(* under the edges that avoid the step in question, which holds the first  *)
(* state and not the last.                                                 *)
(***************************************************************************)

\* The states of each dimension.
States(m, d) ==
  CASE m = "migration" /\ d = "primary_phase" ->
         {"connect", "discovery", "foundation", "provision", "snapshot", "census", "design",
          "rehearsal", "bulk_load", "sync", "verify", "cutover", "watch", "decommission", "complete"}
    [] m = "migration" /\ d = "execution_status" ->
         {"pending", "running", "waiting_human", "blocked", "failed_recoverable", "failed_terminal",
          "succeeded", "aborting", "aborted", "rolling_back", "rolled_back"}
    [] m = "decision" ->
         {"draft", "computing", "awaiting_human", "discussing", "delegated", "resolved", "superseded"}
    [] m = "consent" ->
         {"closed", "ready", "challenge_issued", "pending_typed_consent", "consented", "executing",
          "executed", "invalidated", "declined", "expired"}
    [] m = "artifact" ->
         {"declared", "writing", "sealed", "verified", "retained", "deletion_pending", "deleted", "corrupt"}
    [] m = "cell" ->
         {"planned", "provisioning", "bootstrapping", "ready", "active", "degraded", "restarting",
          "failed", "revoking", "destroying", "destroyed"}
    [] m = "operation" ->
         {"requested", "authorized", "leased", "running", "succeeded", "denied", "canceled",
          "failed_retryable", "failed_terminal", "lease_expired"}
    [] m = "attempt" -> {"declared", "queued", "running", "waiting"} \cup AttemptEnds
    [] m = "reversibility" -> {"proposed", "open", "warning", "closed", "superseded"}
    [] OTHER -> {}

\* What a subject has been through in a state, whatever path it took.
Behind(m, s) ==
  CASE m = "migration" ->
         IF s \in {"rolling_back", "rolled_back"} THEN {"running", "rolling_back"}
         ELSE IF s \in {"aborting", "aborted"} THEN {"aborting"}
         ELSE IF s = "running" THEN {"running"} ELSE {}
    [] m = "decision" ->
         IF s \in {"resolved", "superseded"} THEN {"computing", "awaiting_human", "resolved"}
         ELSE IF s \in {"awaiting_human", "discussing", "delegated"} THEN {"computing", "awaiting_human"}
         ELSE IF s = "computing" THEN {"computing"} ELSE {}
    [] m = "consent" ->
         IF s \in {"consented", "executing", "executed"}
           THEN {"ready", "challenge_issued", "pending_typed_consent", "consented"}
         ELSE IF s = "pending_typed_consent" THEN {"ready", "challenge_issued", "pending_typed_consent"}
         ELSE IF s = "challenge_issued" THEN {"ready", "challenge_issued"}
         ELSE IF s = "ready" THEN {"ready"} ELSE {}
    [] m = "artifact" ->
         IF s \in {"deletion_pending", "deleted"}
           THEN {"sealed", "verified", "retained", "deletion_pending"}
         ELSE IF s = "retained" THEN {"sealed", "verified", "retained"}
         ELSE IF s = "verified" THEN {"sealed", "verified"}
         ELSE IF s = "sealed" THEN {"sealed"} ELSE {}
    [] m = "cell" ->
         IF s \in {"revoking", "destroying", "destroyed"} THEN {"bootstrapping", "ready", "revoking"}
         ELSE IF s \in {"ready", "active", "degraded", "restarting"} THEN {"bootstrapping", "ready"}
         ELSE IF s = "bootstrapping" THEN {"bootstrapping"} ELSE {}
    [] m = "operation" ->
         IF s \in {"running", "succeeded"} THEN {"authorized", "leased", "running"}
         ELSE IF s = "leased" THEN {"authorized", "leased"}
         ELSE IF s = "authorized" THEN {"authorized"} ELSE {}
    [] m = "attempt" ->
         IF s \in {"running", "waiting"} \cup AttemptEnds THEN {"queued", "running"}
         ELSE IF s = "queued" THEN {"queued"} ELSE {}
    [] m = "reversibility" ->
         IF s \in {"warning", "closed"} THEN {"open", "warning"}
         ELSE IF s = "open" THEN {"open"} ELSE {}
    [] OTHER -> {}

\* The states that no edge leaves and that some other end must not have been preceded by.
DeadEnds(m) ==
  CASE m = "consent" -> {"declined", "expired", "invalidated"}
    [] m = "artifact" -> {"corrupt"}
    [] m = "operation" -> {"denied", "canceled", "lease_expired", "failed_terminal"}
    [] m = "cell" -> {"failed"}
    [] m = "migration" -> {"failed_terminal"}
    [] OTHER -> {}

\* What an edge table must be like for a subject to know where it has been.
EdgesSafe(m, d) ==
  \A edge \in Edges(m, d) :
    /\ edge[2] \in States(m, d)
    /\ Behind(m, edge[2]) \subseteq Behind(m, edge[1]) \cup {edge[2]}
    /\ edge[1] \notin DeadEnds(m)

-----------------------------------------------------------------------------

LEMMA MigrationPhasesSafe == EdgesSafe("migration", "primary_phase")
BY DEF EdgesSafe, Edges, MigrationPhaseEdges, Chain, States, Behind, DeadEnds
LEMMA MigrationExecutionsSafe == EdgesSafe("migration", "execution_status")
BY DEF EdgesSafe, Edges, MigrationExecutionEdges, States, Behind, DeadEnds
LEMMA DecisionsSafe == \A d : EdgesSafe("decision", d)
BY DEF EdgesSafe, Edges, DecisionEdges, States, Behind, DeadEnds
LEMMA ConsentsSafe == \A d : EdgesSafe("consent", d)
BY DEF EdgesSafe, Edges, ConsentEdges, Chain, States, Behind, DeadEnds
LEMMA ArtifactsSafe == \A d : EdgesSafe("artifact", d)
BY DEF EdgesSafe, Edges, ArtifactEdges, Chain, States, Behind, DeadEnds
LEMMA CellsSafe == \A d : EdgesSafe("cell", d)
BY DEF EdgesSafe, Edges, CellEdges, Chain, States, Behind, DeadEnds
LEMMA OperationsSafe == \A d : EdgesSafe("operation", d)
BY DEF EdgesSafe, Edges, OperationEdges, Chain, States, Behind, DeadEnds
LEMMA AttemptsSafe == \A d : EdgesSafe("attempt", d)
BY DEF EdgesSafe, Edges, AttemptEdges, AttemptEnds, Chain, States, Behind, DeadEnds
LEMMA ReversibilitiesSafe == \A d : EdgesSafe("reversibility", d)
BY DEF EdgesSafe, Edges, ReversibilityEdges, Chain, States, Behind, DeadEnds

LEMMA AllEdgesSafe == \A m \in Machines : \A d \in Dimensions(m) : EdgesSafe(m, d)
BY MigrationPhasesSafe, MigrationExecutionsSafe, DecisionsSafe, ConsentsSafe, ArtifactsSafe,
   CellsSafe, OperationsSafe, AttemptsSafe, ReversibilitiesSafe DEF Machines, Dimensions

\* What a state must have been preceded by is behind it, on every path.
LEMMA ThroughIsBehind ==
  ASSUME machine \in Machines, NEW d \in Dimensions(machine), NEW s \in States(machine, d)
  PROVE  Through(s) \subseteq Behind(machine, s)
BY DEF Machines, Dimensions, States, Through, Behind, AttemptEnds

\* What a state must not have been preceded by is a dead end of the same dimension.
LEMMA BarredIsDeadEnd ==
  ASSUME machine \in Machines, NEW d \in Dimensions(machine), NEW s \in States(machine, d),
         NEW x \in Barred(s)
  PROVE  /\ x \in DeadEnds(machine) /\ x # s
         /\ \A e \in Dimensions(machine) : x \in States(machine, e) => e = d
BY DEF Machines, Dimensions, States, Barred, DeadEnds, AttemptEnds

LEMMA StartsSafe ==
  \A m \in Machines : \A d \in Dimensions(m) :
    Start(m)[d] \in States(m, d) /\ Behind(m, Start(m)[d]) = {}
BY DEF Machines, Dimensions, Start, States, Behind, AttemptEnds

-----------------------------------------------------------------------------

SubjectTyped ==
  /\ machine \in Machines
  /\ DOMAIN state = Dimensions(machine)
  /\ \A d \in Dimensions(machine) : state[d] \in States(machine, d)
  /\ recordVersion \in Nat

\* An envelope on its way is of an edge; if the subject has not changed since it was
\* composed, its facts still hold.
EnvelopeTrue(e) ==
  /\ e.dimension \in Dimensions(machine)
  /\ <<e.from, e.to>> \in Edges(machine, e.dimension)
  /\ e.version \in Nat /\ e.version <= recordVersion
  /\ e.version = recordVersion => \E human \in BOOLEAN : Admits(machine, e.to, facts, human)

\* The states behind the current ones were entered, and no dead end was left.
PathRemembered ==
  /\ \A d \in Dimensions(machine) : Behind(machine, state[d]) \subseteq entered
  /\ \A x \in DeadEnds(machine) \cap entered : \E d \in Dimensions(machine) : state[d] = x

\* The inductive invariant.
SubjectInv ==
  /\ SubjectTyped
  /\ \A e \in pending : EnvelopeTrue(e)
  /\ PathRemembered

LEMMA SubjectInvImplies == SubjectInv => NothingSkipped
<1> SUFFICES ASSUME SubjectInv, NEW d \in Dimensions(machine)
             PROVE  Through(state[d]) \subseteq entered /\ Barred(state[d]) \cap entered = {}
  BY DEF NothingSkipped
<1>1. machine \in Machines /\ state[d] \in States(machine, d)
  BY DEF SubjectInv, SubjectTyped
<1>2. PICK s \in States(machine, d) : s = state[d]
  BY <1>1
<1>3. Through(s) \subseteq entered
  BY <1>1, <1>2, ThroughIsBehind DEF SubjectInv, PathRemembered
<1>4. ASSUME NEW x \in Barred(s), x \in entered PROVE FALSE
  <2>1. /\ x \in DeadEnds(machine) /\ x # s
        /\ \A e \in Dimensions(machine) : x \in States(machine, e) => e = d
    BY <1>1, BarredIsDeadEnd
  <2>2. PICK e \in Dimensions(machine) : state[e] = x
    BY <1>4, <2>1 DEF SubjectInv, PathRemembered
  <2>3. state[e] \in States(machine, e)
    BY DEF SubjectInv, SubjectTyped
  <2> QED BY <1>2, <2>1, <2>2, <2>3
<1> QED BY <1>2, <1>3, <1>4

LEMMA ComposeKeeps ==
  ASSUME SubjectInv, NEW d \in Dimensions(machine), NEW to, NEW human \in BOOLEAN,
         Compose(d, to, human)
  PROVE  SubjectInv'
<1>1. UNCHANGED <<machine, state, facts, recordVersion, entered>>
  BY DEF Compose
<1>2. SubjectTyped' /\ PathRemembered'
  BY <1>1 DEF SubjectInv, SubjectTyped, PathRemembered
<1>3. PICK e : e = [dimension |-> d, from |-> state[d], to |-> to, version |-> recordVersion]
  OBVIOUS
<1>4. e.dimension = d /\ e.from = state[d] /\ e.to = to /\ e.version = recordVersion
  BY <1>3
<1>5. EnvelopeTrue(e)
  BY <1>4 DEF Compose, EnvelopeTrue, SubjectInv, SubjectTyped
<1>6. pending' = pending \cup {e}
  BY <1>3 DEF Compose
<1>7. \A f \in pending' : EnvelopeTrue(f)
  BY <1>5, <1>6 DEF SubjectInv
<1>8. (\A f \in pending : EnvelopeTrue(f))'
  BY <1>1, <1>7 DEF EnvelopeTrue
<1> QED BY <1>2, <1>8 DEF SubjectInv

\* A change of the subject makes every envelope that is on its way stale.
LEMMA ChangeKeepsEnvelopes ==
  ASSUME SubjectInv, UNCHANGED machine, pending' \subseteq pending, recordVersion' = recordVersion + 1
  PROVE  (\A e \in pending : EnvelopeTrue(e))'
<1>1. recordVersion \in Nat
  BY DEF SubjectInv, SubjectTyped
<1>2. ASSUME NEW e \in pending'
      PROVE  /\ e.dimension \in Dimensions(machine) /\ <<e.from, e.to>> \in Edges(machine, e.dimension)
             /\ e.version \in Nat
  BY <1>1 DEF SubjectInv, EnvelopeTrue
<1>3. ASSUME NEW e \in pending'
      PROVE  e.version <= recordVersion' /\ e.version # recordVersion'
  <2>1. e.version \in Nat /\ e.version <= recordVersion
    BY DEF SubjectInv, EnvelopeTrue
  <2> QED BY <1>1, <2>1
<1> QED BY <1>2, <1>3 DEF EnvelopeTrue

\* An envelope takes effect on the subject it was composed from, along its edge.
LEMMA DeliverKeeps ==
  ASSUME SubjectInv, NEW e \in pending, NEW again \in BOOLEAN, Deliver(e, again)
  PROVE  SubjectInv'
<1>1. machine' = machine /\ pending' \subseteq pending
  BY DEF Deliver
<1>2. CASE ~ (Current(e) /\ recordVersion < MaxVersion[machine])
  <2>1. UNCHANGED <<state, facts, recordVersion, entered>>
    BY <1>2 DEF Deliver
  <2>2. (\A f \in pending : EnvelopeTrue(f))'
    BY <1>1, <2>1 DEF SubjectInv, EnvelopeTrue
  <2> QED BY <1>1, <2>1, <2>2 DEF SubjectInv, SubjectTyped, PathRemembered
<1>3. CASE Current(e) /\ recordVersion < MaxVersion[machine]
  <2> DEFINE d == e.dimension
             to == e.to
  <2>1. /\ state' = [state EXCEPT ![d] = to] /\ recordVersion' = recordVersion + 1
        /\ entered' = entered \cup {to} /\ e.from = state[d]
    BY <1>3 DEF Deliver, Current
  <2>2. d \in Dimensions(machine) /\ <<state[d], to>> \in Edges(machine, d) /\ machine \in Machines
    BY <2>1 DEF SubjectInv, SubjectTyped, EnvelopeTrue
  <2>3. /\ to \in States(machine, d)
        /\ Behind(machine, to) \subseteq Behind(machine, state[d]) \cup {to}
        /\ state[d] \notin DeadEnds(machine)
    <3>1. PICK edge : edge = <<state[d], to>> /\ edge \in Edges(machine, d)
      BY <2>2
    <3>2. edge[1] = state[d] /\ edge[2] = to
      BY <3>1
    <3> HIDE DEF d, to
    <3> QED BY <2>2, <3>1, <3>2, AllEdgesSafe DEF EdgesSafe
  <2> HIDE DEF d, to
  <2>4. \A c \in Dimensions(machine) : state'[c] = IF c = d THEN to ELSE state[c]
    BY <2>1 DEF SubjectInv, SubjectTyped
  <2>5. SubjectTyped'
    <3>1. DOMAIN state' = Dimensions(machine) /\ recordVersion' \in Nat
      BY <2>1 DEF SubjectInv, SubjectTyped
    <3>2. \A c \in Dimensions(machine) : state'[c] \in States(machine, c)
      BY <2>3, <2>4 DEF SubjectInv, SubjectTyped
    <3> QED BY <1>1, <2>2, <3>1, <3>2 DEF SubjectTyped
  <2>6. (\A f \in pending : EnvelopeTrue(f))'
    BY <1>1, <2>1, ChangeKeepsEnvelopes
  <2>7. \A c \in Dimensions(machine) : Behind(machine, state'[c]) \subseteq entered'
    BY <2>1, <2>2, <2>3, <2>4 DEF SubjectInv, PathRemembered
  <2>8. ASSUME NEW x \in DeadEnds(machine) \cap entered'
        PROVE  \E c \in Dimensions(machine) : state'[c] = x
    <3>1. CASE x = to
      BY <2>2, <2>4, <3>1
    <3>2. CASE x \in entered
      <4>1. PICK c \in Dimensions(machine) : state[c] = x
        BY <2>8, <3>2 DEF SubjectInv, PathRemembered
      <4>2. c # d
        BY <2>3, <2>8, <4>1
      <4> QED BY <2>4, <4>1, <4>2
    <3> QED BY <2>1, <2>8, <3>1, <3>2
  <2>9. PathRemembered'
    BY <1>1, <2>7, <2>8 DEF PathRemembered
  <2> QED BY <2>5, <2>6, <2>9 DEF SubjectInv
<1> QED BY <1>2, <1>3

LEMMA LoseKeeps == ASSUME SubjectInv, NEW e \in pending, Lose(e) PROVE SubjectInv'
<1>1. UNCHANGED <<machine, state, facts, recordVersion, entered>> /\ pending' \subseteq pending
  BY DEF Lose
<1>2. (\A f \in pending : EnvelopeTrue(f))'
  BY <1>1 DEF SubjectInv, EnvelopeTrue
<1> QED BY <1>1, <1>2 DEF SubjectInv, SubjectTyped, PathRemembered

LEMMA NoteKeeps == ASSUME SubjectInv, NEW after, Note(after) PROVE SubjectInv'
<1>1. /\ UNCHANGED <<machine, state, entered, pending>> /\ recordVersion' = recordVersion + 1
  BY DEF Note
<1>2. (\A f \in pending : EnvelopeTrue(f))'
  BY <1>1, ChangeKeepsEnvelopes
<1> QED BY <1>1, <1>2 DEF SubjectInv, SubjectTyped, PathRemembered

-----------------------------------------------------------------------------

LEMMA SubjectInvInitially == SubjectInit => SubjectInv
<1> SUFFICES ASSUME SubjectInit PROVE SubjectInv
  OBVIOUS
<1>1. machine \in Machines /\ state = Start(machine) /\ recordVersion = 0 /\ pending = {}
      /\ entered = {Start(machine)[d] : d \in Dimensions(machine)}
  BY SubjectAssumption DEF SubjectInit
<1>2. DOMAIN state = Dimensions(machine)
  BY <1>1, Zenon DEF Start
<1>3. \A d \in Dimensions(machine) : state[d] \in States(machine, d) /\ Behind(machine, state[d]) = {}
  BY <1>1, StartsSafe
<1>4. PathRemembered
  BY <1>1, <1>3 DEF PathRemembered
<1> QED BY <1>1, <1>2, <1>3, <1>4 DEF SubjectInv, SubjectTyped

LEMMA SubjectInvStep == SubjectInv /\ [SubjectNext]_subjectVars => SubjectInv'
<1> SUFFICES ASSUME SubjectInv, [SubjectNext]_subjectVars PROVE SubjectInv'
  OBVIOUS
<1>1. ASSUME NEW d \in Dimensions(machine), NEW edge \in Edges(machine, d), NEW human \in BOOLEAN,
             Compose(d, edge[2], human)
      PROVE  SubjectInv'
  BY <1>1, ComposeKeeps
<1>2. ASSUME NEW e \in pending, Lose(e) PROVE SubjectInv'
  BY <1>2, LoseKeeps
<1>3. ASSUME NEW e \in pending, NEW again \in BOOLEAN, Deliver(e, again) PROVE SubjectInv'
  BY <1>3, DeliverKeeps
<1>4. ASSUME NEW noted \in SUBSET Noted(machine), Note((facts \ Noted(machine)) \cup noted)
      PROVE  SubjectInv'
  BY <1>4, NoteKeeps
<1>5. CASE UNCHANGED subjectVars
  BY <1>5 DEF subjectVars, SubjectInv, SubjectTyped, EnvelopeTrue, PathRemembered
<1> QED BY <1>1, <1>2, <1>3, <1>4, <1>5 DEF SubjectNext

\* Only an envelope that is current changes the state, and its facts still hold.
LEMMA StepOnFacts ==
  ASSUME SubjectInv, [SubjectNext]_subjectVars, NEW d \in Dimensions(machine), state'[d] # state[d]
  PROVE  \E human \in BOOLEAN : Admits(machine, state'[d], facts, human)
<1>1. PICK e \in pending, again \in BOOLEAN : Deliver(e, again)
  BY DEF SubjectNext, subjectVars, Compose, Lose, Note
<1>2. Current(e) /\ state' = [state EXCEPT ![e.dimension] = e.to]
  BY <1>1 DEF Deliver
<1>3. d = e.dimension /\ state'[d] = e.to
  BY <1>2 DEF SubjectInv, SubjectTyped
<1>4. e.version = recordVersion
  BY <1>2 DEF Current
<1> QED BY <1>3, <1>4 DEF SubjectInv, EnvelopeTrue

(***************************************************************************)
(* No path of any machine of core_contracts.py leads around a step that    *)
(* gives a state its meaning, however many transitions, other changes and  *)
(* envelopes, late, lost or repeated, a subject has been through.          *)
(***************************************************************************)
THEOREM NoStepSkipped == SubjectSpec => []NothingSkipped
BY SubjectInvImplies, SubjectInvInitially, SubjectInvStep, PTL DEF SubjectSpec

(***************************************************************************)
(* A transition takes effect on facts that hold when it does, not only     *)
(* when its envelope was composed.                                         *)
(***************************************************************************)
THEOREM TransitionsOnFacts == SubjectSpec => FactsHold
<1>1. SubjectInv /\ [SubjectNext]_subjectVars =>
        [\A d \in Dimensions(machine) : state'[d] # state[d] =>
           \E human \in BOOLEAN : Admits(machine, state'[d], facts, human)]_subjectVars
  BY StepOnFacts
<1> QED BY <1>1, SubjectInvInitially, SubjectInvStep, PTL DEF SubjectSpec, FactsHold

-----------------------------------------------------------------------------

(***************************************************************************)
(* The contract generator, for any runs, edits and kills. A run that was   *)
(* not disturbed knows the files it has passed: in a writing run they are  *)
(* as planned, in a checking run it has remembered whether one is not. The *)
(* last file turns that knowledge into the verdict.                        *)
(***************************************************************************)

Reports == [base : Surface, current : Surface, changes : SUBSET (Paths \cup Parts)]
Plans == [baseline : Surface, openapi : Surface, report : Reports]
RunStates ==
  [at : {"idle", "imported", "succeeded", "failed"} \cup FileSet, check : BOOLEAN, refresh : BOOLEAN,
   imported : Surface \cup {Missing}, plan : Plans \cup {Missing}, stale : BOOLEAN, disturbed : BOOLEAN]

AtWork(m) == m.at \in {"imported"} \cup FileSet

\* A run's record fits where the run is.
RunTyped(m) ==
  /\ m \in RunStates
  /\ m.at = "imported" => m.imported \in Surface /\ ~ m.stale
  /\ m.at \in FileSet => m.plan \in Plans
  /\ AtWork(m) => ~ (m.check /\ m.refresh)

GeneratorTyped ==
  /\ sources \in Surface
  /\ files \in [FileSet -> Surface \cup Reports \cup {Missing}]
  /\ files["baseline"] \in Surface \cup {Missing}
  /\ run \in [Runs -> RunStates] /\ \A r \in Runs : RunTyped(run[r])
  /\ published \subseteq Surface
  /\ overlapped \in BOOLEAN

\* The files a run has dealt with before it comes to f.
Before(f) ==
  CASE f = "baseline" -> {} [] f = "report" -> {"baseline"} [] OTHER -> {"baseline", "report"}

\* Consistent, of any files and sources.
ConsistentOf(held, emitted) ==
  /\ Missing \notin {held[f] : f \in FileSet}
  /\ held["openapi"] = emitted
  /\ held["report"] =
       [base |-> held["baseline"], current |-> emitted, changes |-> Changes(held["baseline"], emitted)]
  /\ Breaking(held["baseline"], emitted) = {}

\* A run nobody disturbed: its plan is what the sources say, and it knows of every file before.
CurrentOf(m, held, emitted) ==
  /\ m.at = "imported" => m.imported = emitted
  /\ m.at \in FileSet =>
       /\ m.plan.openapi = emitted /\ Breaking(m.plan.baseline, emitted) = {}
       /\ m.plan.report = [base |-> m.plan.baseline, current |-> emitted,
                           changes |-> Changes(m.plan.baseline, emitted)]
       /\ m.check => held["baseline"] \in {Missing, m.plan.baseline}
       /\ m.check => (m.stale <=> \E g \in Before(m.at) : held[g] # m.plan[g])
       /\ ~ m.check => \A g \in Before(m.at) : held[g] = m.plan[g]

\* What is known of one run.
RunHolds(m, held, emitted) ==
  /\ AtWork(m) /\ ~ m.disturbed => CurrentOf(m, held, emitted)
  /\ m.at = "succeeded" => ConsistentOf(held, emitted)
  /\ m.at = "failed" => ~ ConsistentOf(held, emitted)

RunsInv == \A r \in Runs : RunHolds(run[r], files, sources)

\* What a later baseline keeps of an earlier one.
KeptSchema(old, new) ==
  /\ old.root = new.root /\ old.version = new.version
  /\ \A q \in Properties : old.properties[q] \in {Absent, new.properties[q]}
KeepsSchema(p, old, new) ==
  old # NoSchema => \/ KeptSchema(old, new)
                    \/ p = ReplacedPath /\ old.version = OldVersion /\ new.version = NewVersion
KeepsPart(k, old, new) == old # Absent => new = old \/ (k \in ApprovedParts /\ new # Absent)
Keeps(old, new) ==
  /\ \A k \in Parts : KeepsPart(k, old.parts[k], new.parts[k])
  /\ \A p \in Paths : KeepsSchema(p, old.schemas[p], new.schemas[p])

Writer(m) == AtWork(m) /\ ~ m.check

\* One writer at a time, whose new baseline is compatible with the one that is there.
BaselineInv ==
  /\ files["baseline"] = Missing => published = {}
  /\ ~ overlapped =>
       /\ \A s \in published : Keeps(s, files["baseline"])
       /\ \A r, s \in Runs : Writer(run[r]) /\ Writer(run[s]) => r = s
       /\ \A r \in Runs : run[r].at = "baseline" /\ Writer(run[r]) =>
            files["baseline"] = Missing \/ Breaking(files["baseline"], run[r].plan.baseline) = {}

GeneratorInv == GeneratorTyped /\ RunsInv /\ BaselineInv

-----------------------------------------------------------------------------
(* Surfaces and what the comparison says of two of them.                     *)

LEMMA SurfaceFields ==
  ASSUME NEW s \in Surface
  PROVE  /\ \A p \in Paths : s.schemas[p] \in Schema \cup {NoSchema}
         /\ \A k \in Parts : s.parts[k] \in Values \cup {Absent}
         /\ DOMAIN s.parts = Parts
BY DEF Surface

LEMMA SchemaFields ==
  ASSUME NEW s \in Schema \cup {NoSchema}
  PROVE  /\ DOMAIN s.properties = Properties
         /\ s # NoSchema => s.root # Absent /\ s.version \in {OldVersion, NewVersion}
         /\ s = NoSchema => s.root = Absent /\ s.version = Absent
BY GeneratorAssumption DEF Schema, NoSchema, Absent

LEMMA AlteredNothing ==
  ASSUME NEW old, NEW new, Altered(old, new) = {}
  PROVE  \A k \in DOMAIN old : old[k] \in {Absent, new[k]}
BY DEF Altered

LEMMA KeepsItself == ASSUME NEW s PROVE Keeps(s, s)
BY DEF Keeps, KeepsPart, KeepsSchema, KeptSchema

LEMMA BreaksNotItself == ASSUME NEW s PROVE Breaking(s, s) = {}
<1>1. \A k : Altered(k, k) = {}
  BY DEF Altered
<1> QED BY <1>1 DEF Breaking, BreaksSchema, BreaksPart

\* A surface compatible with a baseline that keeps an earlier one keeps that, too.
LEMMA KeepsChain ==
  ASSUME NEW old \in Surface, NEW mid \in Surface, NEW new \in Surface,
         Keeps(old, mid), Breaking(mid, new) = {}
  PROVE  Keeps(old, new)
<1>1. /\ \A p \in Paths : ~ BreaksSchema(p, mid.schemas[p], new.schemas[p])
      /\ \A k \in Parts : ~ BreaksPart(k, mid.parts, new.parts)
  BY DEF Breaking
<1>2. ASSUME NEW k \in Parts PROVE KeepsPart(k, old.parts[k], new.parts[k])
  <2>1. KeepsPart(k, old.parts[k], mid.parts[k]) /\ k \in DOMAIN mid.parts
    BY SurfaceFields DEF Keeps
  <2>2. k \in Altered(mid.parts, new.parts) => new.parts[k] # Absent /\ k \in ApprovedParts
    BY <1>1 DEF BreaksPart
  <2>3. mid.parts[k] # Absent => new.parts[k] = mid.parts[k] \/ k \in Altered(mid.parts, new.parts)
    BY <2>1 DEF Altered
  <2> QED BY <2>1, <2>2, <2>3 DEF KeepsPart
<1>3. ASSUME NEW p \in Paths PROVE KeepsSchema(p, old.schemas[p], new.schemas[p])
  <2> DEFINE a == old.schemas[p]
             m == mid.schemas[p]
             b == new.schemas[p]
  <2>1. /\ a \in Schema \cup {NoSchema} /\ m \in Schema \cup {NoSchema} /\ b \in Schema \cup {NoSchema}
        /\ KeepsSchema(p, a, m) /\ ~ BreaksSchema(p, m, b)
    BY <1>1, SurfaceFields DEF Keeps
  <2> HIDE DEF a, m, b
  <2> SUFFICES ASSUME a # NoSchema
               PROVE  KeptSchema(a, b) \/ (p = ReplacedPath /\ a.version = OldVersion /\ b.version = NewVersion)
    BY DEF KeepsSchema, a, b
  <2>2. a.root # Absent
    BY <2>1, SchemaFields
  <2>3. m.root # Absent
    <3>1. CASE KeptSchema(a, m)
      BY <2>2, <3>1 DEF KeptSchema
    <3>2. CASE p = ReplacedPath /\ a.version = OldVersion /\ m.version = NewVersion
      BY <2>1, <3>2, SchemaFields DEF NewVersion, Absent
    <3> QED BY <2>1, <3>1, <3>2 DEF KeepsSchema
  <2>4. /\ b.root # Absent
        /\ m.root # b.root => p = ReplacedPath /\ m.version = OldVersion /\ b.version = NewVersion
        /\ m.root = b.root => m.version = b.version /\ Altered(m.properties, b.properties) = {}
    BY <2>1, <2>3 DEF BreaksSchema, Replacement
  <2>5. CASE KeptSchema(a, m)
    <3>1. CASE m.root # b.root
      BY <2>4, <2>5, <3>1 DEF KeptSchema
    <3>2. CASE m.root = b.root
      <4>1. \A q \in Properties : m.properties[q] \in {Absent, b.properties[q]}
        BY <2>1, <2>4, <3>2, AlteredNothing, SchemaFields
      <4> QED BY <2>4, <2>5, <3>2, <4>1 DEF KeptSchema
    <3> QED BY <3>1, <3>2
  <2>6. CASE p = ReplacedPath /\ a.version = OldVersion /\ m.version = NewVersion
    BY <2>4, <2>6 DEF OldVersion, NewVersion
  <2> QED BY <2>1, <2>5, <2>6 DEF KeepsSchema
<1> QED BY <1>2, <1>3 DEF Keeps

LEMMA FileTuple ==
  /\ FileSet = {"baseline", "report", "openapi"} /\ Files[1] = "baseline" /\ Files[Len(Files)] = "openapi"
  /\ FileAfter("baseline") = "report" /\ FileAfter("report") = "openapi"
<1>1. /\ DOMAIN Files = {1, 2, 3} /\ Len(Files) = 3
      /\ Files[1] = "baseline" /\ Files[2] = "report" /\ Files[3] = "openapi"
  BY DEF Files
<1>2. (CHOOSE i \in DOMAIN Files : Files[i] = "baseline") = 1
  BY <1>1
<1>3. (CHOOSE i \in DOMAIN Files : Files[i] = "report") = 2
  BY <1>1
<1> QED BY <1>1, <1>2, <1>3 DEF FileSet, FileAfter

LEMMA MissingApart == Missing \notin Surface /\ Missing \notin Reports
BY DEF Missing, Surface, Reports

\* Files that are as a plan of the present sources says.
LEMMA PlanConsistent ==
  ASSUME NEW plan \in Plans, NEW held, NEW emitted,
         plan.openapi = emitted, Breaking(plan.baseline, emitted) = {},
         plan.report = [base |-> plan.baseline, current |-> emitted,
                        changes |-> Changes(plan.baseline, emitted)]
  PROVE  /\ (\A g \in FileSet : held[g] = plan[g]) => ConsistentOf(held, emitted)
         /\ held["baseline"] \in {Missing, plan.baseline} /\ ConsistentOf(held, emitted)
              => \A g \in FileSet : held[g] = plan[g]
<1>1. /\ plan["baseline"] \in Surface /\ plan["openapi"] \in Surface /\ plan["report"] \in Reports
  BY DEF Plans
<1>2. ASSUME \A g \in FileSet : held[g] = plan[g] PROVE ConsistentOf(held, emitted)
  <2>1. held["baseline"] = plan["baseline"] /\ held["openapi"] = plan["openapi"]
        /\ held["report"] = plan["report"]
    BY <1>2, FileTuple
  <2>2. Missing \notin {held[f] : f \in FileSet}
    BY <1>1, <2>1, FileTuple, MissingApart
  <2> QED BY <2>1, <2>2 DEF ConsistentOf
<1>3. ASSUME held["baseline"] \in {Missing, plan.baseline}, ConsistentOf(held, emitted)
      PROVE  \A g \in FileSet : held[g] = plan[g]
  <2>1. held["baseline"] # Missing
    BY <1>3, FileTuple DEF ConsistentOf
  <2>2. held["baseline"] = plan["baseline"] /\ held["openapi"] = plan["openapi"]
        /\ held["report"] = plan["report"]
    BY <1>3, <2>1 DEF ConsistentOf
  <2> QED BY <2>2, FileTuple
<1> QED BY <1>2, <1>3

-----------------------------------------------------------------------------
(* What a step does to the runs.                                             *)

LEMMA DisturbedRun ==
  ASSUME GeneratorTyped, NEW r \in Runs
  PROVE  /\ RunTyped(Disturbed(r)) /\ \A held, emitted : RunHolds(Disturbed(r), held, emitted)
         /\ AtWork(Disturbed(r)) =>
              /\ AtWork(run[r]) /\ Disturbed(r).at = run[r].at /\ Disturbed(r).check = run[r].check
              /\ Disturbed(r).plan = run[r].plan
<1>1. run[r] \in RunStates /\ RunTyped(run[r])
  BY DEF GeneratorTyped
<1>2. CASE AtWork(run[r])
  <2>1. Disturbed(r) = [run[r] EXCEPT !.disturbed = TRUE]
    BY <1>2 DEF Disturbed, Working, AtWork
  <2>2. PICK m, n \in RunStates : m = Disturbed(r) /\ n = run[r] /\ m = [n EXCEPT !.disturbed = TRUE]
    BY <1>1, <2>1 DEF RunStates
  <2>3. /\ m.at = n.at /\ m.check = n.check /\ m.refresh = n.refresh /\ m.plan = n.plan
        /\ m.imported = n.imported /\ m.stale = n.stale /\ m.disturbed = TRUE
    BY <2>2 DEF RunStates
  <2>4. RunTyped(m)
    BY <1>1, <2>2, <2>3 DEF RunTyped, AtWork
  <2>5. m.at \in {"imported", "baseline", "report", "openapi"}
    BY <1>2, <2>2, <2>3, FileTuple DEF AtWork
  <2> QED BY <1>2, <2>2, <2>3, <2>4, <2>5 DEF RunHolds
<1>3. CASE ~ AtWork(run[r])
  <2>1. Disturbed(r) = Idle
    BY <1>3 DEF Disturbed, Working, AtWork
  <2>2. Idle \in RunStates /\ Idle.at = "idle"
    BY DEF Idle, RunStates
  <2>3. ~ AtWork(Idle)
    BY <2>2, FileTuple DEF AtWork
  <2> QED BY <2>1, <2>2, <2>3, FileTuple DEF RunTyped, RunHolds
<1> QED BY <1>2, <1>3

LEMMA IdleRun ==
  /\ RunTyped(Idle) /\ ~ AtWork(Idle) /\ \A held, emitted : RunHolds(Idle, held, emitted)
<1>1. Idle \in RunStates /\ Idle.at = "idle"
  BY DEF Idle, RunStates
<1> QED BY <1>1, FileTuple DEF RunTyped, AtWork, RunHolds

\* One run goes on; the files and the sources stay.
LEMMA OneRunMoves ==
  ASSUME GeneratorInv, NEW r \in Runs, NEW m, run' = [run EXCEPT ![r] = m],
         UNCHANGED <<sources, files, published>>, RunTyped(m), RunHolds(m, files, sources),
         overlapped' \in BOOLEAN, overlapped => overlapped',
         ~ overlapped' /\ Writer(m) =>
           /\ \A s \in Runs \ {r} : ~ Writer(run[s])
           /\ m.at = "baseline" =>
                files["baseline"] = Missing \/ Breaking(files["baseline"], m.plan.baseline) = {}
  PROVE  GeneratorInv'
<1>1. run \in [Runs -> RunStates] /\ \A s \in Runs : RunTyped(run[s])
  BY DEF GeneratorInv, GeneratorTyped
<1>2. run' \in [Runs -> RunStates] /\ \A s \in Runs : run'[s] = IF s = r THEN m ELSE run[s]
  BY <1>1 DEF RunTyped
<1>3. GeneratorTyped'
  BY <1>1, <1>2 DEF GeneratorInv, GeneratorTyped
<1>4. RunsInv'
  BY <1>2 DEF GeneratorInv, RunsInv
<1>5. BaselineInv'
  BY <1>2 DEF GeneratorInv, BaselineInv
<1> QED BY <1>3, <1>4, <1>5 DEF GeneratorInv

LEMMA BeginStep ==
  ASSUME GeneratorInv, NEW r \in Runs, NEW check \in BOOLEAN, NEW refresh \in BOOLEAN,
         Begin(r, check, refresh)
  PROVE  GeneratorInv'
<1>1. /\ ~ AtWork(run[r]) /\ ~ (check /\ refresh)
      /\ run' = [run EXCEPT ![r] = [Idle EXCEPT !.at = "imported", !.check = check,
                                                !.refresh = refresh, !.imported = sources]]
      /\ UNCHANGED <<sources, files, published>>
  BY DEF Begin, Working, AtWork
<1>2. sources \in Surface
  BY DEF GeneratorInv, GeneratorTyped
<1>3. PICK src \in Surface : src = sources
  BY <1>2
<1>4. PICK m : m = [Idle EXCEPT !.at = "imported", !.check = check, !.refresh = refresh, !.imported = src]
  OBVIOUS
<1>5. /\ m \in RunStates /\ m.at = "imported" /\ m.check = check /\ m.refresh = refresh
      /\ m.imported = src /\ m.stale = FALSE
  BY <1>4 DEF Idle, RunStates
<1>6. RunTyped(m)
  BY <1>1, <1>5, FileTuple DEF RunTyped
<1>7. RunHolds(m, files, sources)
  BY <1>3, <1>5, FileTuple DEF RunHolds, CurrentOf
<1>8. overlapped' \in BOOLEAN /\ (overlapped => overlapped')
  BY DEF Begin
<1>9. ~ overlapped' /\ Writer(m) => \A s \in Runs \ {r} : ~ Writer(run[s])
  BY <1>5 DEF Begin, Working, Writer, AtWork
<1> QED BY <1>1, <1>3, <1>4, <1>5, <1>6, <1>7, <1>8, <1>9, OneRunMoves

LEMMA KillStep ==
  ASSUME GeneratorInv, NEW r \in Runs, Kill(r)
  PROVE  GeneratorInv'
<1>1. run' = [run EXCEPT ![r] = Idle] /\ UNCHANGED <<sources, files, published, overlapped>>
  BY DEF Kill
<1>2. overlapped' \in BOOLEAN
  BY <1>1 DEF GeneratorInv, GeneratorTyped
<1> QED BY <1>1, <1>2, IdleRun, OneRunMoves DEF Writer

LEMMA Rendered ==
  ASSUME NEW base \in Surface, NEW current \in Surface, NEW kept \in {base, current},
         Breaking(base, current) = {}, NEW plan,
         plan = [baseline |-> kept, openapi |-> current,
                 report |-> [base |-> kept, current |-> current, changes |-> Changes(kept, current)]]
  PROVE  /\ plan \in Plans /\ plan.openapi = current /\ plan.baseline = kept
         /\ Breaking(plan.baseline, current) = {} /\ Breaking(base, plan.baseline) = {}
         /\ plan.report = [base |-> plan.baseline, current |-> current,
                           changes |-> Changes(plan.baseline, current)]
<1>1. kept \in Surface /\ Breaking(kept, current) = {} /\ Breaking(base, kept) = {}
  BY BreaksNotItself
<1>2. Changes(kept, current) \subseteq Paths \cup Parts
  BY DEF Changes
<1>3. [base |-> kept, current |-> current, changes |-> Changes(kept, current)] \in Reports
  BY <1>1, <1>2 DEF Reports
<1> QED BY <1>1, <1>3 DEF Plans

LEMMA CompareStep ==
  ASSUME GeneratorInv, NEW r \in Runs, Compare(r)
  PROVE  GeneratorInv'
<1> DEFINE base == IF files["baseline"] = Missing THEN run[r].imported ELSE files["baseline"]
<1>1. /\ run[r].at = "imported" /\ UNCHANGED <<sources, files, published, overlapped>>
      /\ IF Breaking(base, run[r].imported) # {}
           THEN run' = [run EXCEPT ![r] = Idle]
           ELSE run' = [run EXCEPT ![r].at = Files[1], ![r].imported = Missing,
                                   ![r].plan = Render(base, run[r].imported, run[r].refresh)]
  BY DEF Compare
<1>2. run \in [Runs -> RunStates] /\ RunTyped(run[r]) /\ files["baseline"] \in Surface \cup {Missing}
      /\ overlapped \in BOOLEAN
  BY DEF GeneratorInv, GeneratorTyped
<1>3. PICK n \in RunStates : n = run[r]
  BY <1>2
<1>4. AtWork(n) /\ n.imported \in Surface /\ ~ n.stale /\ base \in Surface /\ n.refresh \in BOOLEAN
  BY <1>1, <1>2, <1>3 DEF RunTyped, AtWork, RunStates
<1>5. PICK from \in Surface : from = base
  BY <1>4
<1>6. CASE Breaking(from, n.imported) # {}
  <2>1. run' = [run EXCEPT ![r] = Idle]
    BY <1>1, <1>3, <1>5, <1>6
  <2> QED BY <1>1, <1>2, <2>1, IdleRun, OneRunMoves DEF Writer
<1>7. CASE Breaking(from, n.imported) = {}
  <2>1. PICK plan : plan = Render(from, n.imported, n.refresh)
    OBVIOUS
  <2>2. /\ plan \in Plans /\ plan.openapi = n.imported
        /\ plan.baseline = (IF n.refresh THEN n.imported ELSE from)
        /\ Breaking(plan.baseline, n.imported) = {} /\ Breaking(from, plan.baseline) = {}
        /\ plan.report = [base |-> plan.baseline, current |-> n.imported,
                          changes |-> Changes(plan.baseline, n.imported)]
    <3>1. PICK kept \in {from, n.imported} : kept = IF n.refresh THEN n.imported ELSE from
      OBVIOUS
    <3>2. plan = [baseline |-> kept, openapi |-> n.imported,
                  report |-> [base |-> kept, current |-> n.imported,
                              changes |-> Changes(kept, n.imported)]]
      BY <2>1, <3>1 DEF Render
    <3>3. /\ plan \in Plans /\ plan.openapi = n.imported /\ plan.baseline = kept
          /\ Breaking(plan.baseline, n.imported) = {} /\ Breaking(from, plan.baseline) = {}
          /\ plan.report = [base |-> plan.baseline, current |-> n.imported,
                            changes |-> Changes(plan.baseline, n.imported)]
      BY <1>4, <1>7, <3>2, Rendered
    <3> QED BY <3>1, <3>3
  <2>3. PICK m : m = [n EXCEPT !.at = "baseline", !.imported = Missing, !.plan = plan]
    OBVIOUS
  <2>4. /\ m \in RunStates /\ m.at = "baseline" /\ m.imported = Missing /\ m.plan = plan
        /\ m.check = n.check /\ m.refresh = n.refresh /\ m.stale = n.stale /\ m.disturbed = n.disturbed
    BY <2>2, <2>3, FileTuple DEF RunStates
  <2>5. run' = [run EXCEPT ![r] = m]
    BY <1>1, <1>2, <1>3, <1>5, <1>7, <2>1, <2>3, FileTuple
  <2>6. RunTyped(m)
    BY <1>2, <1>3, <1>4, <2>2, <2>4, FileTuple DEF RunTyped
  <2>7. RunHolds(m, files, sources)
    <3>1. ~ n.disturbed => n.imported = sources
      BY <1>1, <1>3, <1>4 DEF GeneratorInv, RunsInv, RunHolds, CurrentOf
    <3>2. n.check => plan.baseline = from
      BY <1>2, <1>3, <1>4, <2>2 DEF RunTyped
    <3>3. from = files["baseline"] \/ files["baseline"] = Missing
      BY <1>5
    <3>4. Before("baseline") = {}
      BY DEF Before
    <3> QED BY <1>4, <2>2, <2>4, <3>1, <3>2, <3>3, <3>4, FileTuple DEF RunHolds, CurrentOf
  <2>8. ~ overlapped /\ Writer(m) =>
          /\ \A s \in Runs \ {r} : ~ Writer(run[s])
          /\ files["baseline"] = Missing \/ Breaking(files["baseline"], m.plan.baseline) = {}
    <3>1. Writer(m) => Writer(run[r])
      BY <1>3, <1>4, <2>4 DEF Writer
    <3>2. from = files["baseline"] \/ files["baseline"] = Missing
      BY <1>5
    <3> QED BY <2>2, <2>4, <3>1, <3>2 DEF GeneratorInv, BaselineInv
  <2> QED BY <1>1, <1>2, <2>5, <2>6, <2>7, <2>8, OneRunMoves
<1> QED BY <1>6, <1>7

\* The last file gives the verdict: it says whether all files are as planned.
LEMMA VerdictTrue ==
  ASSUME NEW m \in RunStates, RunTyped(m), m.at = "openapi", NEW held, NEW next, NEW emitted,
         ~ m.disturbed => CurrentOf(m, held, emitted),
         m.check => next["openapi"] = held["openapi"],
         ~ m.check => next["openapi"] = m.plan["openapi"],
         \A g \in FileSet \ {"openapi"} : next[g] = held[g],
         NEW after, after.at = (IF m.disturbed THEN "idle"
                                ELSE IF m.check /\ (m.stale \/ (m.check /\ held["openapi"] # m.plan["openapi"]))
                                THEN "failed" ELSE "succeeded")
  PROVE  RunHolds(after, next, emitted) /\ ~ AtWork(after)
<1>1. after.at \in {"idle", "failed", "succeeded"}
  OBVIOUS
<1>2. ~ AtWork(after)
  BY <1>1, FileTuple DEF AtWork
<1>3. CASE m.disturbed
  BY <1>2, <1>3 DEF RunHolds
<1>4. CASE ~ m.disturbed
  <2>1. /\ m.plan \in Plans /\ m.plan.openapi = emitted /\ Breaking(m.plan.baseline, emitted) = {}
        /\ m.plan.report = [base |-> m.plan.baseline, current |-> emitted,
                            changes |-> Changes(m.plan.baseline, emitted)]
        /\ m.check => held["baseline"] \in {Missing, m.plan.baseline}
        /\ m.check => (m.stale <=> \E g \in Before("openapi") : held[g] # m.plan[g])
        /\ ~ m.check => \A g \in Before("openapi") : held[g] = m.plan[g]
    BY <1>4, FileTuple DEF RunTyped, CurrentOf
  <2>2. Before("openapi") = {"baseline", "report"}
    BY DEF Before
  <2>3. PICK plan \in Plans : plan = m.plan
    BY <2>1
  <2>4. /\ (\A g \in FileSet : next[g] = plan[g]) => ConsistentOf(next, emitted)
        /\ next["baseline"] \in {Missing, plan.baseline} /\ ConsistentOf(next, emitted)
              => \A g \in FileSet : next[g] = plan[g]
    BY <2>1, <2>3, PlanConsistent
  <2>5. next["baseline"] = held["baseline"] /\ next["report"] = held["report"]
    BY FileTuple
  <2>6. CASE ~ m.check
    <3>1. after.at = "succeeded"
      BY <1>4, <2>6
    <3>2. \A g \in FileSet : next[g] = plan[g]
      BY <2>1, <2>2, <2>3, <2>5, <2>6, FileTuple
    <3> QED BY <1>2, <2>4, <3>1, <3>2 DEF RunHolds
  <2>7. CASE m.check /\ (\A g \in FileSet : held[g] = plan[g])
    <3>1. after.at = "succeeded"
      BY <1>4, <2>1, <2>2, <2>3, <2>7, FileTuple
    <3>2. \A g \in FileSet : next[g] = plan[g]
      BY <2>5, <2>7, FileTuple
    <3> QED BY <1>2, <2>4, <3>1, <3>2 DEF RunHolds
  <2>8. CASE m.check /\ ~ (\A g \in FileSet : held[g] = plan[g])
    <3>1. after.at = "failed"
      BY <1>4, <2>1, <2>2, <2>3, <2>8, FileTuple
    <3>2. ~ \A g \in FileSet : next[g] = plan[g]
      BY <2>5, <2>8, FileTuple
    <3> QED BY <1>2, <2>1, <2>3, <2>4, <2>5, <2>8, <3>1, <3>2 DEF RunHolds
  <2> QED BY <2>6, <2>7, <2>8
<1> QED BY <1>3, <1>4

\* A file before the last one is one more file that is known.
LEMMA OneMoreFile ==
  ASSUME NEW m \in RunStates, RunTyped(m), m.at \in {"baseline", "report"}, NEW held, NEW next, NEW emitted,
         ~ m.disturbed => CurrentOf(m, held, emitted),
         m.check => next[m.at] = held[m.at], ~ m.check => next[m.at] = m.plan[m.at],
         \A g \in FileSet \ {m.at} : next[g] = held[g],
         NEW after, after.at = FileAfter(m.at), after.plan = m.plan, after.check = m.check,
         after.disturbed = m.disturbed,
         after.stale <=> m.stale \/ (m.check /\ held[m.at] # m.plan[m.at])
  PROVE  RunHolds(after, next, emitted) /\ after.at \in {"report", "openapi"}
<1>1. /\ m.at = "baseline" => after.at = "report"
      /\ m.at = "report" => after.at = "openapi"
      /\ after.at \in {"report", "openapi"} /\ after.at \in FileSet /\ m.at \in FileSet
  BY FileTuple
<1>2. Before("baseline") = {} /\ Before("report") = {"baseline"} /\ Before("openapi") = {"baseline", "report"}
  BY DEF Before
<1>3. Before(after.at) = Before(m.at) \cup {m.at} /\ m.at \notin Before(m.at) /\ Before(m.at) \subseteq FileSet
  BY <1>1, <1>2, FileTuple
<1>4. ASSUME ~ m.disturbed PROVE CurrentOf(after, next, emitted)
  <2>1. /\ m.plan.openapi = emitted /\ Breaking(m.plan.baseline, emitted) = {}
        /\ m.plan.report = [base |-> m.plan.baseline, current |-> emitted,
                            changes |-> Changes(m.plan.baseline, emitted)]
        /\ m.check => held["baseline"] \in {Missing, m.plan.baseline}
        /\ m.check => (m.stale <=> \E g \in Before(m.at) : held[g] # m.plan[g])
        /\ ~ m.check => \A g \in Before(m.at) : held[g] = m.plan[g]
    BY <1>1, <1>4 DEF CurrentOf
  <2>2. \A g \in Before(m.at) : next[g] = held[g]
    BY <1>3
  <2>3. m.check => next["baseline"] \in {Missing, m.plan.baseline}
    BY <2>1, FileTuple
  <2>4. m.check => (after.stale <=> \E g \in Before(after.at) : next[g] # after.plan[g])
    BY <1>3, <2>1, <2>2
  <2>5. ~ m.check => \A g \in Before(after.at) : next[g] = after.plan[g]
    BY <1>3, <2>1, <2>2
  <2> QED BY <1>1, <2>1, <2>3, <2>4, <2>5, FileTuple DEF CurrentOf
<1> QED BY <1>1, <1>4 DEF RunHolds

Differs(r) == files[run[r].at] # run[r].plan[run[r].at]
FoundStale(r) == run[r].stale \/ (run[r].check /\ Differs(r))
After(r) ==
  IF run[r].at = Files[Len(Files)] THEN Verdict(r, FoundStale(r))
  ELSE [run[r] EXCEPT !.at = FileAfter(run[r].at), !.stale = FoundStale(r)]

LEMMA AfterWrite ==
  ASSUME GeneratorInv, NEW r \in Runs, run[r].at \in FileSet, NEW next,
         run[r].check => next[run[r].at] = files[run[r].at],
         ~ run[r].check => next[run[r].at] = run[r].plan[run[r].at],
         \A g \in FileSet \ {run[r].at} : next[g] = files[g]
  PROVE  /\ RunTyped(After(r)) /\ RunHolds(After(r), next, sources) /\ After(r).at # "baseline"
         /\ Writer(After(r)) => Writer(run[r])
<1>1. RunTyped(run[r]) /\ run[r] \in RunStates
  BY DEF GeneratorInv, GeneratorTyped
<1>2. PICK n \in RunStates : n = run[r]
  BY <1>1
<1>3. AtWork(n) /\ RunTyped(n) /\ n.plan \in Plans /\ n.at \in FileSet
      /\ (~ n.disturbed => CurrentOf(n, files, sources))
  BY <1>1, <1>2 DEF AtWork, GeneratorInv, RunsInv, RunHolds, RunTyped
<1>4. PICK stale \in BOOLEAN : stale = FoundStale(r)
  BY <1>1 DEF FoundStale, RunStates
<1>5. stale <=> n.stale \/ (n.check /\ files[n.at] # n.plan[n.at])
  BY <1>2, <1>4 DEF FoundStale, Differs
<1>6. CASE n.at = "openapi"
  <2>1. PICK at \in {"idle", "failed", "succeeded"} :
          at = IF n.disturbed THEN "idle" ELSE IF n.check /\ stale THEN "failed" ELSE "succeeded"
    OBVIOUS
  <2>2. After(r) = [Idle EXCEPT !.at = at]
    BY <1>2, <1>4, <1>6, <2>1, FileTuple DEF After, Verdict
  <2>3. PICK after : after = [Idle EXCEPT !.at = at]
    OBVIOUS
  <2>4. after \in RunStates /\ after.at = at
    BY <2>3 DEF Idle, RunStates
  <2>5. RunHolds(after, next, sources) /\ ~ AtWork(after)
    BY <1>2, <1>3, <1>5, <1>6, <2>1, <2>4, VerdictTrue
  <2>6. RunTyped(after)
    BY <2>4, <2>5 DEF RunTyped, AtWork
  <2> QED BY <2>2, <2>3, <2>4, <2>5, <2>6 DEF Writer
<1>7. CASE n.at \in {"baseline", "report"}
  <2>1. After(r) = [n EXCEPT !.at = FileAfter(n.at), !.stale = stale]
    BY <1>2, <1>4, <1>7, FileTuple DEF After
  <2>2. PICK after : after = [n EXCEPT !.at = FileAfter(n.at), !.stale = stale]
    OBVIOUS
  <2>3. FileAfter(n.at) \in FileSet
    BY <1>7, FileTuple
  <2>4. /\ after \in RunStates /\ after.at = FileAfter(n.at) /\ after.check = n.check
        /\ after.refresh = n.refresh /\ after.plan = n.plan /\ after.disturbed = n.disturbed
        /\ after.stale = stale
    BY <2>2, <2>3 DEF RunStates
  <2>5. RunHolds(after, next, sources) /\ after.at \in {"report", "openapi"}
    <3>1. PICK held, emitted : held = files /\ emitted = sources
      OBVIOUS
    <3>2. after.stale <=> n.stale \/ (n.check /\ held[n.at] # n.plan[n.at])
      BY <1>5, <2>4, <3>1
    <3>3. ~ n.disturbed => CurrentOf(n, held, emitted)
      BY <1>3, <3>1
    <3>4. /\ n.check => next[n.at] = held[n.at]
          /\ ~ n.check => next[n.at] = n.plan[n.at]
          /\ \A g \in FileSet \ {n.at} : next[g] = held[g]
      BY <1>2, <3>1
    <3>5. RunHolds(after, next, emitted) /\ after.at \in {"report", "openapi"}
      BY <1>3, <1>7, <2>4, <3>2, <3>3, <3>4, OneMoreFile
    <3> QED BY <3>1, <3>5
  <2>6. RunTyped(after)
    BY <1>3, <2>4, <2>5 DEF RunTyped
  <2> QED BY <1>2, <1>3, <2>1, <2>2, <2>4, <2>5, <2>6 DEF Writer
<1> QED BY <1>3, <1>6, <1>7, FileTuple

\* Somebody else's change of the files or the sources, in one place.
LEMMA OthersDisturbed ==
  ASSUME GeneratorTyped, NEW others \in SUBSET Runs, \A s \in others : run'[s] = Disturbed(s)
  PROVE  \A s \in others :
           /\ RunTyped(run'[s]) /\ \A held, emitted : RunHolds(run'[s], held, emitted)
           /\ Writer(run'[s]) =>
                Writer(run[s]) /\ run'[s].at = run[s].at /\ run'[s].plan = run[s].plan
BY DisturbedRun DEF Writer

LEMMA WriteStep ==
  ASSUME GeneratorInv, NEW r \in Runs, Write(r)
  PROVE  GeneratorInv'
<1> DEFINE f == run[r].at
<1>1. f \in FileSet /\ UNCHANGED <<sources, overlapped>>
  BY DEF Write
<1>2. RunTyped(run[r]) /\ run[r].plan \in Plans /\ run \in [Runs -> RunStates] /\ overlapped \in BOOLEAN
  BY <1>1 DEF GeneratorInv, GeneratorTyped, RunTyped
<1>3. CASE Differs(r) /\ ~ run[r].check
  <2>1. /\ files' = [files EXCEPT ![f] = run[r].plan[f]]
        /\ published' = published \cup (IF f = "baseline" THEN {run[r].plan[f]} ELSE {})
        /\ run' = [s \in Runs |-> IF s = r THEN After(r) ELSE Disturbed(s)]
    BY <1>3 DEF Write, Differs, FoundStale, After
  <2>2. files \in [FileSet -> Surface \cup Reports \cup {Missing}]
        /\ files["baseline"] \in Surface \cup {Missing} /\ published \subseteq Surface
    BY DEF GeneratorInv, GeneratorTyped
  <2>3. /\ run[r].plan["baseline"] \in Surface /\ run[r].plan["openapi"] \in Surface
        /\ run[r].plan["report"] \in Reports
    BY <1>2 DEF Plans
  <2>4. run[r].plan[f] \in Surface \cup Reports
    BY <1>1, <2>3, FileTuple
  <2>5. /\ files' \in [FileSet -> Surface \cup Reports \cup {Missing}] /\ files'[f] = run[r].plan[f]
        /\ \A g \in FileSet \ {f} : files'[g] = files[g]
    BY <1>1, <2>1, <2>2, <2>4
  <2>6. /\ RunTyped(After(r)) /\ RunHolds(After(r), files', sources) /\ After(r).at # "baseline"
        /\ Writer(After(r)) => Writer(run[r])
    BY <1>1, <1>3, <2>5, AfterWrite
  <2>7. run'[r] = After(r) /\ \A s \in Runs \ {r} : run'[s] = Disturbed(s)
    BY <2>1
  <2>8. \A s \in Runs \ {r} :
           /\ RunTyped(run'[s]) /\ \A held, emitted : RunHolds(run'[s], held, emitted)
           /\ Writer(run'[s]) =>
                Writer(run[s]) /\ run'[s].at = run[s].at /\ run'[s].plan = run[s].plan
    BY <2>7, OthersDisturbed DEF GeneratorInv
  <2>9. GeneratorTyped'
    <3>1. \A s \in Runs : RunTyped(run'[s])
      BY <2>6, <2>7, <2>8
    <3>2. run' \in [Runs -> RunStates]
      BY <2>1, <2>7, <3>1 DEF RunTyped
    <3>3. files'["baseline"] \in Surface \cup {Missing} /\ published' \subseteq Surface
      BY <2>1, <2>2, <2>3, <2>5, FileTuple
    <3> QED BY <1>1, <2>5, <3>1, <3>2, <3>3 DEF GeneratorInv, GeneratorTyped
  <2>10. RunsInv'
    BY <1>1, <2>6, <2>7, <2>8 DEF RunsInv
  <2>11. BaselineInv'
    <3>1. Writer(run[r])
      BY <1>1, <1>3 DEF Writer, AtWork
    <3>2. ~ overlapped => \A s \in Runs \ {r} : ~ Writer(run'[s])
      BY <2>8, <3>1 DEF GeneratorInv, BaselineInv
    <3>3. CASE f = "baseline"
      <4>1. files'["baseline"] = run[r].plan["baseline"] /\ published' = published \cup {files'["baseline"]}
        BY <2>1, <2>5, <3>3
      <4>2. files'["baseline"] # Missing
        BY <2>3, <4>1, MissingApart
      <4>3. ~ overlapped => \A s \in published : Keeps(s, files'["baseline"])
        <5> SUFFICES ASSUME ~ overlapped, NEW s \in published PROVE Keeps(s, files'["baseline"])
          OBVIOUS
        <5>1. /\ Keeps(s, files["baseline"]) /\ files["baseline"] # Missing
              /\ Breaking(files["baseline"], run[r].plan["baseline"]) = {}
          BY <3>1, <3>3 DEF GeneratorInv, BaselineInv
        <5> QED BY <2>2, <2>3, <4>1, <5>1, KeepsChain
      <4> QED BY <1>1, <2>6, <2>7, <3>2, <4>1, <4>2, <4>3, KeepsItself DEF BaselineInv
    <3>4. CASE f # "baseline"
      <4>1. files'["baseline"] = files["baseline"] /\ published' = published
        BY <2>1, <2>5, <3>4, FileTuple
      <4> QED BY <1>1, <2>6, <2>7, <3>2, <4>1 DEF GeneratorInv, BaselineInv
    <3> QED BY <3>3, <3>4
  <2> QED BY <2>9, <2>10, <2>11 DEF GeneratorInv
<1>4. CASE ~ (Differs(r) /\ ~ run[r].check)
  <2>1. run' = [run EXCEPT ![r] = After(r)] /\ UNCHANGED <<files, published>>
    BY <1>4 DEF Write, Differs, FoundStale, After
  <2>2. ~ run[r].check => files[f] = run[r].plan[f]
    BY <1>4 DEF Differs
  <2>3. /\ RunTyped(After(r)) /\ RunHolds(After(r), files, sources) /\ After(r).at # "baseline"
        /\ Writer(After(r)) => Writer(run[r])
    BY <1>1, <2>2, AfterWrite
  <2>4. ~ overlapped /\ Writer(After(r)) => \A s \in Runs \ {r} : ~ Writer(run[s])
    BY <2>3 DEF GeneratorInv, BaselineInv
  <2> QED BY <1>1, <1>2, <2>1, <2>3, <2>4, OneRunMoves
<1> QED BY <1>3, <1>4

\* An edit disturbs every run at work and leaves the baseline as it is.
LEMMA EditStep ==
  ASSUME GeneratorInv, EditSources \/ \E f \in FileSet : EditFile(f)
  PROVE  GeneratorInv'
<1>1. run' = [r \in Runs |-> Disturbed(r)] /\ UNCHANGED <<published, overlapped>>
  BY DEF EditSources, EditFile
<1>2. /\ sources \in Surface /\ files \in [FileSet -> Surface \cup Reports \cup {Missing}]
      /\ files["baseline"] \in Surface \cup {Missing}
  BY DEF GeneratorInv, GeneratorTyped
<1>3. sources' \in Surface
  <2>1. CASE \E f \in FileSet : EditFile(f)
    BY <1>2, <2>1 DEF EditFile
  <2>2. ASSUME NEW p \in Paths, NEW s \in SchemaEdits, sources' = [sources EXCEPT !.schemas[p] = s]
        PROVE  sources' \in Surface
    BY <1>2, <2>2, SurfaceAssumption DEF Surface
  <2>3. ASSUME NEW k \in Parts, NEW v \in Values \cup {Absent}, sources' = [sources EXCEPT !.parts[k] = v]
        PROVE  sources' \in Surface
    BY <1>2, <2>3 DEF Surface
  <2> QED BY <2>1, <2>2, <2>3 DEF EditSources
<1>4. files' \in [FileSet -> Surface \cup Reports \cup {Missing}] /\ files'["baseline"] = files["baseline"]
  BY <1>2, FileTuple DEF EditSources, EditFile
<1>5. \A s \in Runs :
         /\ RunTyped(run'[s]) /\ \A held, emitted : RunHolds(run'[s], held, emitted)
         /\ Writer(run'[s]) =>
              Writer(run[s]) /\ run'[s].at = run[s].at /\ run'[s].plan = run[s].plan
  <2>1. \A s \in Runs : run'[s] = Disturbed(s)
    BY <1>1
  <2> QED BY <2>1, OthersDisturbed DEF GeneratorInv
<1>6. run' \in [Runs -> RunStates]
  BY <1>1, <1>5 DEF RunTyped
<1>7. GeneratorTyped'
  BY <1>1, <1>2, <1>3, <1>4, <1>5, <1>6 DEF GeneratorInv, GeneratorTyped
<1>8. RunsInv'
  BY <1>5 DEF RunsInv
<1>9. BaselineInv'
  <2>1. (\A s \in published : Keeps(s, files["baseline"])) => \A s \in published' : Keeps(s, files'["baseline"])
    BY <1>1, <1>4
  <2> QED BY <1>1, <1>4, <1>5, <2>1 DEF GeneratorInv, BaselineInv
<1> QED BY <1>7, <1>8, <1>9 DEF GeneratorInv

-----------------------------------------------------------------------------

LEMMA GeneratorStarts == GeneratorInit => GeneratorInv
<1> SUFFICES ASSUME GeneratorInit PROVE GeneratorInv
  OBVIOUS
<1>1. /\ files = [f \in FileSet |-> Missing] /\ run = [r \in Runs |-> Idle] /\ published = {}
      /\ overlapped = FALSE /\ sources \in Surface
  BY SurfaceAssumption DEF GeneratorInit
<1>2. \A r \in Runs : run[r] = Idle
  BY <1>1
<1>3. GeneratorTyped
  BY <1>1, <1>2, IdleRun, FileTuple DEF GeneratorTyped, RunTyped
<1>4. RunsInv
  BY <1>2, IdleRun DEF RunsInv
<1>5. BaselineInv
  BY <1>1, <1>2, IdleRun DEF BaselineInv, Writer
<1> QED BY <1>3, <1>4, <1>5 DEF GeneratorInv

LEMMA GeneratorStep == GeneratorInv /\ [GeneratorNext]_generatorVars => GeneratorInv'
<1> SUFFICES ASSUME GeneratorInv, [GeneratorNext]_generatorVars PROVE GeneratorInv'
  OBVIOUS
<1>1. ASSUME NEW r \in Runs, NEW check \in BOOLEAN, NEW refresh \in BOOLEAN, Begin(r, check, refresh)
      PROVE  GeneratorInv'
  BY <1>1, BeginStep
<1>2. ASSUME NEW r \in Runs, Compare(r) \/ Write(r) \/ Kill(r) PROVE GeneratorInv'
  BY <1>2, CompareStep, WriteStep, KillStep
<1>3. CASE UNCHANGED generatorVars
  BY <1>3 DEF generatorVars, GeneratorInv, GeneratorTyped, RunsInv, BaselineInv
<1> QED BY <1>1, <1>2, <1>3, EditStep DEF GeneratorNext

LEMMA GeneratorInvariant == GeneratorSpec => []GeneratorInv
BY GeneratorStarts, GeneratorStep, PTL DEF GeneratorSpec

\* A run nobody disturbed leaves the files consistent, or accepts them exactly when they are,
\* for any number of runs, edits and kills.
THEOREM GenerationIsConsistent == GeneratorSpec => []GenerationConverges
<1>1. GeneratorInv => GenerationConverges
  BY DEF GeneratorInv, RunsInv, RunHolds, GenerationConverges, Consistent, ConsistentOf
<1> QED BY <1>1, GeneratorInvariant, PTL

\* Whatever a baseline held the present one keeps, but for the approved replacements.
THEOREM BaselinesAreKept == GeneratorSpec => []V1IsImmutable
<1>1. GeneratorInv => V1IsImmutable
  BY DEF GeneratorInv, BaselineInv, V1IsImmutable, Keeps, KeepsPart, KeepsSchema, KeptSchema
<1> QED BY <1>1, GeneratorInvariant, PTL

-----------------------------------------------------------------------------

(***************************************************************************)
(* The schema corpus, for any properties, roles and schemas. What the      *)
(* synthesis folds over conditions and constraints is followed one at a    *)
(* time.                                                                   *)
(*                                                                         *)
(* A pass over independent conditions undoes none that has set its         *)
(* property, and unless all are honoured one more sets its own: after as   *)
(* many passes as there are conditions all are. An array under its own     *)
(* constraints holds what each asked for among the positions taken, so     *)
(* there is an item to replace as long as the array can hold them all; a   *)
(* later pass finds them met whatever it believes is taken; and a branch   *)
(* for which there is room only appends.                                   *)
(***************************************************************************)

\* A set of naturals that is not empty has a least element.
LEMMA LeastNatural == ASSUME NEW S, S \subseteq Nat, S # {} PROVE \E m \in S : \A k \in S : m <= k
<1> DEFINE R == OpToRel(<, Nat)
<1>1. IsWellFoundedOn(R, Nat)
  BY NatLessThanWellFounded
<1>2. \A i, j \in Nat : <<i, j>> \in R <=> i < j
  BY DEF OpToRel
<1> HIDE DEF R
<1>3. PICK m \in S : \A k \in S : <<k, m>> \notin R
  BY <1>1, WFMin
<1>4. ASSUME NEW k \in S PROVE m <= k
  <2>1. m \in Nat /\ k \in Nat /\ ~(k < m)
    BY <1>2, <1>3
  <2> QED BY <2>1
<1> QED BY <1>4

\* A set that holds 0, and each number up to n with the one before it, holds them all.
LEMMA Climbing ==
  ASSUME NEW S, NEW n \in Nat, 0 \in S, \A i \in 1..n : i - 1 \in S => i \in S
  PROVE  \A i \in 0..n : i \in S
<1> DEFINE Lost == {i \in 0..n : i \notin S}
<1> SUFFICES ASSUME Lost # {} PROVE FALSE
  OBVIOUS
<1>1. PICK m \in Lost : \A k \in Lost : m <= k
  <2> Lost \subseteq Nat
    OBVIOUS
  <2> HIDE DEF Lost
  <2> QED BY LeastNatural
<1>2. m # 0 /\ m \in 1..n /\ m - 1 \in 0..n
  BY <1>1
<1>3. m - 1 \notin Lost
  BY <1>1, <1>2
<1> QED BY <1>1, <1>2, <1>3

\* What is folded with a function of steps.
IsFold(g, S, a, n, G) ==
  /\ g \in [0..n -> S] /\ g[0] = a
  /\ \A i \in 1..n : g[i] = G[<<g[i - 1], i>>]

LEMMA FoldsExist ==
  ASSUME NEW S, NEW a \in S, NEW n \in Nat, NEW G \in [S \X (1..n) -> S]
  PROVE  \E g : IsFold(g, S, a, n, G)
<1> DEFINE T == {k \in 0..n : \E g : IsFold(g, S, a, k, G)}
<1>1. 0 \in T
  <2> DEFINE g == [i \in 0..0 |-> a]
  <2>1. IsFold(g, S, a, 0, G)
    BY DEF IsFold
  <2> HIDE DEF g
  <2> QED BY <2>1
<1>2. ASSUME NEW m \in 1..n, m - 1 \in T PROVE m \in T
  <2>1. PICK g : IsFold(g, S, a, m - 1, G)
    BY <1>2
  <2> DEFINE x == G[<<g[m - 1], m>>]
             h == [i \in 0..m |-> IF i = m THEN x ELSE g[i]]
  <2>2. m - 1 \in 0..(m - 1) /\ \A i \in 0..(m - 1) : i \in 0..m /\ i # m
    OBVIOUS
  <2>3. g \in [0..(m - 1) -> S] /\ g[0] = a /\ \A i \in 1..(m - 1) : g[i] = G[<<g[i - 1], i>>]
    BY <2>1 DEF IsFold
  <2>4. x \in S
    BY <2>2, <2>3
  <2> HIDE DEF x
  <2>5. h \in [0..m -> S]
    BY <2>3, <2>4
  <2>6. h[m] = x /\ \A i \in 0..(m - 1) : h[i] = g[i]
    BY <2>2
  <2> HIDE DEF h
  <2>7. h[0] = a
    BY <2>3, <2>6
  <2>8. ASSUME NEW i \in 1..m PROVE h[i] = G[<<h[i - 1], i>>]
    <3>1. h[i - 1] = g[i - 1]
      BY <2>6
    <3>2. CASE i = m
      BY <2>6, <3>1, <3>2 DEF x
    <3>3. CASE i # m
      <4>1. i \in 1..(m - 1) /\ i \in 0..(m - 1)
        BY <3>3
      <4> QED BY <2>3, <2>6, <3>1, <4>1
    <3> QED BY <3>2, <3>3
  <2>9. IsFold(h, S, a, m, G)
    BY <2>5, <2>7, <2>8 DEF IsFold
  <2> QED BY <2>9
<1> HIDE DEF T
<1>3. n \in T
  <2>1. \A i \in 0..n : i \in T
    BY <1>1, <1>2, Climbing
  <2> QED BY <2>1
<1> QED BY <1>3 DEF T

\* The states of a fold are the ones a recursive function of the same steps has.
LEMMA FoldStates ==
  ASSUME NEW S, NEW a \in S, NEW n \in Nat, NEW G \in [S \X (1..n) -> S],
         NEW g, g[0] = a, \A i \in 1..n : g[i - 1] \in S => g[i] = G[<<g[i - 1], i>>]
  PROVE  \A i \in 0..n : g[i] \in S
<1> DEFINE T == {k \in 0..n : g[k] \in S}
<1>1. 0 \in T
  OBVIOUS
<1>2. ASSUME NEW i \in 1..n, i - 1 \in T PROVE i \in T
  <2>1. <<g[i - 1], i>> \in S \X (1..n) /\ g[i] = G[<<g[i - 1], i>>]
    BY <1>2
  <2> QED BY <2>1
<1> HIDE DEF T
<1>3. \A i \in 0..n : i \in T
  BY <1>1, <1>2, Climbing
<1> QED BY <1>3 DEF T

-----------------------------------------------------------------------------
\* Conditions.

Documents == [1..PropertyCount -> Nat]
ConditionSet == [on : 1..PropertyCount, equals : Nat \ {Unset}, present : BOOLEAN,
                 target : 1..PropertyCount, becomes : Nat \ {Unset}]

LEMMA ConditionKeeps ==
  ASSUME NEW p \in Documents, NEW c \in ConditionSet
  PROVE  MergeCondition(p, c) \in Documents
BY DEF MergeCondition, Documents, ConditionSet

\* The properties after each condition.
LEMMA ConditionSteps ==
  ASSUME NEW p \in Documents, NEW cs \in Seq(ConditionSet)
  PROVE  \E g : /\ MergeConditions(p, cs) = g[Len(cs)] /\ g[0] = p
                /\ \A i \in 0..Len(cs) : g[i] \in Documents
                /\ \A i \in 1..Len(cs) : g[i] = MergeCondition(g[i - 1], cs[i])
<1> DEFINE n == Len(cs)
           D == Documents
           G == [q \in D \X (1..n) |-> MergeCondition(q[1], cs[q[2]])]
           P(f) == f = [i \in 0..n |-> IF i = 0 THEN p ELSE MergeCondition(f[i - 1], cs[i])]
<1>1. n \in Nat /\ \A i \in 1..n : cs[i] \in ConditionSet
  OBVIOUS
<1>2. \A q \in D \X (1..n) : MergeCondition(q[1], cs[q[2]]) \in D
  <2> HIDE DEF n
  <2> QED BY <1>1, ConditionKeeps
<1>3. G \in [D \X (1..n) -> D] /\ \A d \in D, i \in 1..n : G[<<d, i>>] = MergeCondition(d, cs[i])
  <2> HIDE DEF n, D
  <2> QED BY <1>2
<1> HIDE DEF n, D, G
<1>4. PICK f : IsFold(f, D, p, n, G)
  <2>1. p \in D
    BY DEF D
  <2> QED BY <1>1, <1>3, <2>1, FoldsExist
<1>5. f \in [0..n -> D] /\ f[0] = p /\ \A i \in 1..n : f[i] = MergeCondition(f[i - 1], cs[i])
  <2>1. f \in [0..n -> D] /\ f[0] = p /\ \A i \in 1..n : f[i] = G[<<f[i - 1], i>>]
    BY <1>4 DEF IsFold
  <2>2. \A i \in 1..n : i - 1 \in 0..n
    BY <1>1
  <2> QED BY <1>3, <2>1, <2>2
<1>6. P(f)
  <2>1. \A i \in 0..n : f[i] = IF i = 0 THEN p ELSE MergeCondition(f[i - 1], cs[i])
    <3>1. \A i \in 0..n : i = 0 \/ i \in 1..n
      BY <1>1
    <3> QED BY <1>5, <3>1, Zenon
  <2>2. f = [i \in 0..n |-> f[i]]
    BY <1>5
  <2>3. [i \in 0..n |-> f[i]] = [i \in 0..n |-> IF i = 0 THEN p ELSE MergeCondition(f[i - 1], cs[i])]
    BY <2>1, Zenon
  <2> QED BY <2>2, <2>3, Zenon
<1> DEFINE h == CHOOSE g : P(g)
<1>7. P(h)
  BY <1>6, Zenon
<1>8. MergeConditions(p, cs) = h[n]
  BY Zenon DEF MergeConditions, n
<1> HIDE DEF h
<1>9. h[0] = p /\ \A i \in 1..n : h[i] = MergeCondition(h[i - 1], cs[i])
  <2> DEFINE k == [i \in 0..n |-> IF i = 0 THEN p ELSE MergeCondition(h[i - 1], cs[i])]
  <2>1. \A i \in 0..n : k[i] = IF i = 0 THEN p ELSE MergeCondition(h[i - 1], cs[i])
    OBVIOUS
  <2>2. h = k
    BY <1>7, Zenon
  <2>3. 0 \in 0..n /\ \A i \in 1..n : i \in 0..n /\ i # 0
    BY <1>1
  <2> HIDE DEF k
  <2> QED BY <2>1, <2>2, <2>3, Zenon
<1>10. \A i \in 0..n : h[i] \in D
  <2>1. p \in D
    BY DEF D
  <2>2. \A i \in 1..n : h[i - 1] \in D => h[i] = G[<<h[i - 1], i>>]
    BY <1>3, <1>9
  <2> QED BY <1>1, <1>3, <1>9, <2>1, <2>2, FoldStates
<1> QED BY <1>8, <1>9, <1>10 DEF n, D

\* The conditions that have set their property, and whether the others may stay as they are.
Fired(p, cs) == {i \in 1..Len(cs) : p[cs[i].target] = cs[i].becomes}
Honoured(p, cs) == \A i \in 1..Len(cs) : ConditionMatches(p, cs[i]) => i \in Fired(p, cs)

LEMMA OneCondition ==
  ASSUME NEW cs \in Seq(ConditionSet), Independent(cs), NEW p \in Documents, NEW i \in 1..Len(cs)
  PROVE  LET q == MergeCondition(p, cs[i]) IN
         /\ q[1] = p[1] /\ Fired(p, cs) \subseteq Fired(q, cs)
         /\ q # p => i \in Fired(q, cs) /\ i \notin Fired(p, cs)
         /\ ConditionMatches(p, cs[i]) => i \in Fired(q, cs)
         /\ ~ ConditionMatches(p, cs[i]) => q = p
<1> DEFINE c == cs[i]
           q == MergeCondition(p, c)
<1>1. /\ \A j \in 1..Len(cs) : cs[j] \in ConditionSet
      /\ \A j \in 1..Len(cs) : cs[j].target \in 1..PropertyCount /\ cs[j].target # 1
      /\ \A j \in 1..Len(cs) : cs[j].target = cs[i].target => j = i
  <2>1. DOMAIN cs = 1..Len(cs) /\ \A j \in 1..Len(cs) : cs[j] \in ConditionSet
    OBVIOUS
  <2>2. \A j \in 1..Len(cs) : cs[j].target = cs[i].target => j = i
    BY <2>1 DEF Independent, IsInjective
  <2> QED BY <2>1, <2>2 DEF Independent, ConditionSet
<1>2. CASE ~ ConditionMatches(p, c)
  BY <1>2 DEF MergeCondition
<1>3. CASE ConditionMatches(p, c)
  <2>1. q = [p EXCEPT ![c.target] = c.becomes]
    BY <1>3 DEF MergeCondition
  <2>2. /\ q[c.target] = c.becomes
        /\ \A x \in 1..PropertyCount : x # c.target => q[x] = p[x]
    BY <1>1, <2>1 DEF Documents
  <2>3. 1 \in 1..PropertyCount
    BY CorpusAssumption
  <2>4. q[1] = p[1]
    BY <1>1, <2>2, <2>3
  <2>5. p[c.target] = c.becomes => q = p
    BY <1>1, <2>1 DEF Documents
  <2> HIDE DEF q
  <2>6. \A j \in 1..Len(cs) : j # i => q[cs[j].target] = p[cs[j].target]
    BY <1>1, <2>2
  <2>7. i \in Fired(q, cs) /\ Fired(p, cs) \subseteq Fired(q, cs)
    BY <2>2, <2>6 DEF Fired
  <2>8. q # p => i \notin Fired(p, cs)
    BY <2>5 DEF Fired
  <2> QED BY <1>3, <2>4, <2>7, <2>8 DEF q
<1> QED BY <1>2, <1>3

\* A merge leaves the properties alone when every condition is honoured; otherwise some
\* condition sets its property that had not done so, and none is undone.
LEMMA ConditionsProgress ==
  ASSUME NEW cs \in Seq(ConditionSet), Independent(cs), NEW p \in Documents
  PROVE  LET q == MergeConditions(p, cs) IN
         /\ q \in Documents /\ q[1] = p[1]
         /\ IF Honoured(p, cs) THEN q = p
            ELSE Fired(p, cs) \subseteq Fired(q, cs) /\ \E j \in Fired(q, cs) : j \notin Fired(p, cs)
<1> DEFINE n == Len(cs)
<1>1. PICK g : /\ MergeConditions(p, cs) = g[n] /\ g[0] = p
               /\ \A i \in 0..n : g[i] \in Documents
               /\ \A i \in 1..n : g[i] = MergeCondition(g[i - 1], cs[i])
  BY ConditionSteps
<1>2. n \in Nat
  OBVIOUS
<1> HIDE DEF n
<1> DEFINE T == {i \in 0..n :
                   /\ g[i][1] = p[1] /\ Fired(p, cs) \subseteq Fired(g[i], cs)
                   /\ Honoured(p, cs) => g[i] = p
                   /\ \/ \E j \in Fired(g[i], cs) : j \notin Fired(p, cs)
                      \/ g[i] = p /\ \A j \in 1..i : ConditionMatches(p, cs[j]) => j \in Fired(p, cs)}
<1>3. 0 \in T
  BY <1>1, <1>2
<1>4. ASSUME NEW i \in 1..n, i - 1 \in T PROVE i \in T
  <2> DEFINE d == g[i - 1]
             e == MergeCondition(d, cs[i])
  <2>1. d \in Documents /\ g[i] = e
    BY <1>1, <1>2
  <2>2. /\ e[1] = d[1] /\ Fired(d, cs) \subseteq Fired(e, cs)
        /\ e # d => i \in Fired(e, cs) /\ i \notin Fired(d, cs)
        /\ ConditionMatches(d, cs[i]) => i \in Fired(e, cs)
        /\ ~ ConditionMatches(d, cs[i]) => e = d
    BY <2>1, OneCondition DEF n
  <2>3. /\ d[1] = p[1] /\ Fired(p, cs) \subseteq Fired(d, cs)
        /\ Honoured(p, cs) => d = p
        /\ \/ \E j \in Fired(d, cs) : j \notin Fired(p, cs)
           \/ d = p /\ \A j \in 1..(i - 1) : ConditionMatches(p, cs[j]) => j \in Fired(p, cs)
    BY <1>4
  <2>4. \A j \in 1..i : j = i \/ j \in 1..(i - 1)
    BY <1>2
  <2> HIDE DEF d, e
  <2>5. e[1] = p[1] /\ Fired(p, cs) \subseteq Fired(e, cs)
    BY <2>2, <2>3
  <2>6. Honoured(p, cs) => e = p
    <3> SUFFICES ASSUME Honoured(p, cs), e # p PROVE FALSE
      OBVIOUS
    <3>1. d = p /\ e # d
      BY <2>3
    <3>2. ConditionMatches(p, cs[i]) /\ i \notin Fired(p, cs)
      BY <2>2, <3>1
    <3> QED BY <3>2 DEF Honoured, n
  <2>7. \/ \E j \in Fired(e, cs) : j \notin Fired(p, cs)
        \/ e = p /\ \A j \in 1..i : ConditionMatches(p, cs[j]) => j \in Fired(p, cs)
    <3>1. CASE \E j \in Fired(d, cs) : j \notin Fired(p, cs)
      BY <2>2, <3>1
    <3>2. CASE d = p /\ \A j \in 1..(i - 1) : ConditionMatches(p, cs[j]) => j \in Fired(p, cs)
      <4>1. CASE e # d
        BY <2>2, <3>2, <4>1
      <4>2. CASE e = d
        BY <2>2, <2>4, <3>2, <4>2
      <4> QED BY <4>1, <4>2
    <3> QED BY <2>3, <3>1, <3>2
  <2> QED BY <2>1, <2>5, <2>6, <2>7
<1>5. n \in T
  <2>1. \A i \in 0..n : i \in T
    <3> HIDE DEF T
    <3> QED BY <1>2, <1>3, <1>4, Climbing
  <2> QED BY <1>2, <2>1
<1>6. g[n] \in Documents
  BY <1>1, <1>2
<1>7. (\A j \in 1..n : ConditionMatches(p, cs[j]) => j \in Fired(p, cs)) => Honoured(p, cs)
  BY DEF Honoured, n
<1> QED BY <1>1, <1>5, <1>6, <1>7

\* What the passes made so far have come to: everything honoured, or as many conditions fired.
Progress(p, cs, k) == Honoured(p, cs) \/ Cardinality(Fired(p, cs)) >= k

LEMMA FiredFinite ==
  ASSUME NEW cs \in Seq(ConditionSet), NEW p
  PROVE  /\ IsFiniteSet(Fired(p, cs)) /\ Cardinality(Fired(p, cs)) \in Nat
         /\ Cardinality(Fired(p, cs)) <= Len(cs)
         /\ Cardinality(Fired(p, cs)) = Len(cs) => Fired(p, cs) = 1..Len(cs)
<1>1. IsFiniteSet(1..Len(cs)) /\ Cardinality(1..Len(cs)) = Len(cs)
  <2>1. PICK n \in Nat : n = Len(cs)
    OBVIOUS
  <2>2. IsFiniteSet(1..n) /\ Cardinality(1..n) = n
    BY FS_Interval
  <2> QED BY <2>1, <2>2
<1>2. Fired(p, cs) \subseteq 1..Len(cs)
  BY DEF Fired
<1>3. IsFiniteSet(Fired(p, cs)) /\ Cardinality(Fired(p, cs)) <= Cardinality(1..Len(cs))
  BY <1>1, <1>2, FS_Subset
<1>4. Cardinality(Fired(p, cs)) = Cardinality(1..Len(cs)) => Fired(p, cs) = 1..Len(cs)
  BY <1>1, <1>2, FS_Subset
<1>5. Cardinality(Fired(p, cs)) \in Nat
  BY <1>3, FS_CardinalityType
<1> QED BY <1>1, <1>3, <1>4, <1>5

LEMMA PassProgress ==
  ASSUME NEW cs \in Seq(ConditionSet), Independent(cs), NEW p \in Documents, NEW k \in Nat,
         Progress(p, cs, k)
  PROVE  Progress(MergeConditions(p, cs), cs, k + 1)
<1> DEFINE q == MergeConditions(p, cs)
<1>1. IF Honoured(p, cs) THEN q = p
      ELSE Fired(p, cs) \subseteq Fired(q, cs) /\ \E j \in Fired(q, cs) : j \notin Fired(p, cs)
  BY ConditionsProgress
<1> HIDE DEF q
<1>2. CASE Honoured(p, cs)
  BY <1>1, <1>2 DEF Progress, q
<1>3. CASE ~ Honoured(p, cs)
  <2>1. Cardinality(Fired(p, cs)) >= k
    BY <1>3 DEF Progress
  <2>2. PICK j \in Fired(q, cs) : j \notin Fired(p, cs)
    BY <1>1, <1>3
  <2>3. IsFiniteSet(Fired(p, cs)) /\ IsFiniteSet(Fired(q, cs))
        /\ Cardinality(Fired(p, cs)) \in Nat /\ Cardinality(Fired(q, cs)) \in Nat
    BY FiredFinite
  <2>4. Fired(p, cs) \cup {j} \subseteq Fired(q, cs)
    BY <1>1, <1>3, <2>2
  <2>5. Cardinality(Fired(p, cs) \cup {j}) = Cardinality(Fired(p, cs)) + 1
    BY <2>2, <2>3, FS_AddElement
  <2>6. Cardinality(Fired(p, cs) \cup {j}) <= Cardinality(Fired(q, cs))
    BY <2>3, <2>4, FS_Subset
  <2>7. Cardinality(Fired(q, cs)) >= k + 1
    BY <2>1, <2>3, <2>5, <2>6
  <2> QED BY <2>7 DEF Progress, q
<1> QED BY <1>2, <1>3

LEMMA ProgressEnds ==
  ASSUME NEW cs \in Seq(ConditionSet), NEW p, NEW k \in Nat, Len(cs) <= k, Progress(p, cs, k)
  PROVE  Honoured(p, cs)
<1>1. Len(cs) \in Nat
  OBVIOUS
<1>2. CASE Cardinality(Fired(p, cs)) >= k
  <2>1. Fired(p, cs) = 1..Len(cs)
    BY <1>1, <1>2, FiredFinite
  <2> QED BY <2>1 DEF Honoured
<1> QED BY <1>2 DEF Progress

-----------------------------------------------------------------------------
\* Arrays.

Arrays == [items : Seq(Nat), taken : SUBSET Nat, failed : BOOLEAN]

LEMMA ArrayFacts ==
  ASSUME NEW x \in Arrays
  PROVE  /\ Len(x.items) \in Nat /\ DOMAIN x.items = 1..Len(x.items)
         /\ \A i \in 1..Len(x.items) : x.items[i] \in Nat
         /\ IsFiniteSet(1..Len(x.items)) /\ Cardinality(1..Len(x.items)) = Len(x.items)
         /\ x.taken \subseteq Nat /\ x.failed \in BOOLEAN
         /\ x = [items |-> x.items, taken |-> x.taken, failed |-> x.failed]
<1>1. x.items \in Seq(Nat) /\ x.taken \subseteq Nat /\ x.failed \in BOOLEAN
      /\ x = [items |-> x.items, taken |-> x.taken, failed |-> x.failed]
  BY DEF Arrays
<1>2. PICK n \in Nat : n = Len(x.items)
  BY <1>1
<1>3. IsFiniteSet(1..n) /\ Cardinality(1..n) = n
  BY <1>2, FS_Interval
<1> QED BY <1>1, <1>2, <1>3

LEMMA MatchingFacts ==
  ASSUME NEW x \in Arrays, NEW need \in NeedSet
  PROVE  /\ Matching(x, need) = {i \in 1..Len(x.items) : x.items[i] = need.role}
         /\ IsFiniteSet(Matching(x, need)) /\ Cardinality(Matching(x, need)) \in Nat
         /\ Cardinality(Matching(x, need)) <= Len(x.items)
         /\ Matching(x, need) \subseteq Nat
         /\ need.least \in 1..2 /\ need.role \in 1..RoleCount /\ need.role \in Nat
         /\ Lacking(x, need) \in Nat
         /\ Lacking(x, need) = 0 <=> Cardinality(Matching(x, need)) >= need.least
         /\ Lacking(x, need) > 0 => Lacking(x, need) = need.least - Cardinality(Matching(x, need))
<1>1. Matching(x, need) = {i \in 1..Len(x.items) : x.items[i] = need.role}
  BY ArrayFacts DEF Matching
<1>2. Matching(x, need) \subseteq 1..Len(x.items)
  BY <1>1
<1>3. IsFiniteSet(Matching(x, need)) /\ Cardinality(Matching(x, need)) <= Len(x.items)
  BY <1>2, ArrayFacts, FS_Subset
<1>4. Cardinality(Matching(x, need)) \in Nat
  BY <1>3, FS_CardinalityType
<1>5. need.least \in 1..2 /\ need.role \in 1..RoleCount
  BY DEF NeedSet
<1>6. need.role \in Nat
  BY <1>5, CorpusAssumption
<1> DEFINE m == Cardinality(Matching(x, need))
<1>7. Lacking(x, need) = IF m < need.least THEN need.least - m ELSE 0
  BY DEF Lacking
<1> HIDE DEF m
<1>8. /\ Lacking(x, need) \in Nat /\ (Lacking(x, need) = 0 <=> m >= need.least)
      /\ Lacking(x, need) > 0 => Lacking(x, need) = need.least - m
  BY <1>4, <1>5, <1>7 DEF m
<1> QED BY <1>1, <1>2, <1>3, <1>4, <1>5, <1>6, <1>8 DEF m

\* Of the matching items the first are kept, as many as the constraint needs.
FirstOf(S, k) == {i \in S : Cardinality({j \in S : j < i}) < k}

LEMMA FirstFew ==
  ASSUME NEW S, S \subseteq Nat, IsFiniteSet(S), NEW k \in 1..2
  PROVE  /\ FirstOf(S, k) \subseteq S /\ IsFiniteSet(FirstOf(S, k))
         /\ Cardinality(FirstOf(S, k)) \in Nat /\ Cardinality(FirstOf(S, k)) <= k
         /\ IF Cardinality(S) < k THEN FirstOf(S, k) = S ELSE Cardinality(FirstOf(S, k)) = k
<1> DEFINE F == FirstOf(S, k)
           Lower(i) == {j \in S : j < i}
<1>1. F \subseteq S /\ IsFiniteSet(F) /\ Cardinality(F) <= Cardinality(S)
  <2>1. F \subseteq S
    BY DEF FirstOf
  <2> QED BY <2>1, FS_Subset
<1>2. Cardinality(F) \in Nat /\ Cardinality(S) \in Nat
  BY <1>1, FS_CardinalityType
<1>3. \A i \in S : /\ Lower(i) \subseteq S /\ Lower(i) # S /\ IsFiniteSet(Lower(i))
                   /\ Cardinality(Lower(i)) \in Nat
                   /\ Cardinality(Lower(i)) < Cardinality(S)
  <2> SUFFICES ASSUME NEW i \in S
               PROVE  /\ Lower(i) \subseteq S /\ Lower(i) # S /\ IsFiniteSet(Lower(i))
                      /\ Cardinality(Lower(i)) \in Nat
                      /\ Cardinality(Lower(i)) < Cardinality(S)
    OBVIOUS
  <2>1. Lower(i) \subseteq S /\ i \notin Lower(i)
    OBVIOUS
  <2> HIDE DEF Lower
  <2>2. IsFiniteSet(Lower(i)) /\ Cardinality(Lower(i)) <= Cardinality(S)
        /\ (Cardinality(Lower(i)) = Cardinality(S) => Lower(i) = S)
    BY <2>1, FS_Subset
  <2>3. Cardinality(Lower(i)) \in Nat
    BY <2>2, FS_CardinalityType
  <2> QED BY <1>2, <2>1, <2>2, <2>3
<1>4. CASE Cardinality(S) < k
  <2>1. \A i \in S : Cardinality(Lower(i)) < k
    <3> HIDE DEF Lower
    <3> QED BY <1>2, <1>3, <1>4
  <2>2. F = S
    BY <2>1 DEF FirstOf
  <2> QED BY <1>1, <1>2, <1>4, <2>2
<1>5. CASE Cardinality(S) >= k
  <2>1. S # {}
    BY <1>5, FS_EmptySet
  <2>2. PICK a \in S : \A j \in S : a <= j
    BY <2>1, LeastNatural
  <2>3. Lower(a) = {}
    <3>1. \A j \in S : j \in Nat /\ a \in Nat
      OBVIOUS
    <3>2. \A j \in S : ~(j < a)
      BY <2>2, <3>1
    <3> QED BY <3>2
  <2>4. Cardinality(Lower(a)) = 0
    BY <2>3, FS_EmptySet
  <2>5. a \in F
    BY <2>4 DEF FirstOf
  <2>6. CASE k = 1
    <3>1. ASSUME NEW i \in F PROVE i = a
      <4>1. i \in S /\ Cardinality(Lower(i)) < 1
        BY <2>6, <3>1 DEF FirstOf
      <4>2. Cardinality(Lower(i)) = 0
        BY <1>3, <4>1
      <4>3. Lower(i) = {}
        <5> HIDE DEF Lower
        <5> QED BY <1>3, <4>1, <4>2, FS_EmptySet
      <4>4. ~(a < i)
        BY <4>3
      <4> QED BY <2>2, <4>1, <4>4
    <3>2. F = {a}
      BY <2>5, <3>1
    <3>3. Cardinality(F) = 1
      BY <3>2, FS_Singleton
    <3> QED BY <1>1, <1>2, <1>5, <2>6, <3>3
  <2>7. CASE k = 2
    <3> DEFINE R == S \ {a}
    <3>1. R # {}
      <4> SUFFICES ASSUME S = {a} PROVE FALSE
        BY <2>2
      <4>1. Cardinality(S) = 1
        BY FS_Singleton
      <4> QED BY <1>5, <2>7, <4>1
    <3>2. PICK b \in R : \A j \in R : b <= j
      <4>1. R \subseteq Nat
        OBVIOUS
      <4> HIDE DEF R
      <4> QED BY <3>1, <4>1, LeastNatural
    <3>3. a < b /\ b \in S /\ a \in Nat /\ b \in Nat
      BY <2>2, <3>2
    <3>4. Lower(b) = {a}
      <4>1. \A j \in S : j \in Nat
        OBVIOUS
      <4>2. \A j \in S : j # a => ~(j < b)
        BY <3>2, <3>3, <4>1
      <4> QED BY <2>2, <3>3, <4>2
    <3>5. Cardinality(Lower(b)) = 1
      BY <3>4, FS_Singleton
    <3>6. b \in F
      BY <2>7, <3>3, <3>5 DEF FirstOf
    <3>7. Cardinality({a, b}) = 2
      <4>1. IsFiniteSet({a}) /\ Cardinality({a}) = 1
        BY FS_Singleton
      <4>2. b \notin {a}
        BY <3>3
      <4>3. Cardinality({a} \cup {b}) = Cardinality({a}) + 1
        BY <4>1, <4>2, FS_AddElement
      <4>4. {a, b} = {a} \cup {b}
        OBVIOUS
      <4> QED BY <4>1, <4>3, <4>4
    <3>8. ASSUME NEW i \in F, i # a PROVE i = b
      <4>1. i \in S /\ Cardinality(Lower(i)) < 2 /\ i \in R
        BY <2>7, <3>8 DEF FirstOf
      <4>2. SUFFICES ASSUME b < i PROVE FALSE
        BY <3>2, <3>3, <4>1
      <4>3. {a, b} \subseteq Lower(i)
        BY <2>2, <3>3, <4>1, <4>2
      <4>4. Cardinality({a, b}) = 2
        BY <3>7
      <4>5. Cardinality({a, b}) <= Cardinality(Lower(i))
        <5> HIDE DEF Lower
        <5> QED BY <1>3, <4>1, <4>3, FS_Subset
      <4> QED BY <1>3, <4>1, <4>4, <4>5
    <3>9. F = {a, b}
      BY <2>5, <3>6, <3>8
    <3>10. Cardinality(F) = 2
      BY <3>7, <3>9
    <3> QED BY <1>1, <1>2, <1>5, <2>7, <3>10
  <2> QED BY <2>6, <2>7
<1> QED BY <1>2, <1>4, <1>5

LEMMA Kept ==
  ASSUME NEW x \in Arrays, NEW need \in NeedSet
  PROVE  LET y == KeepMatching(x, need) IN
         /\ y \in Arrays /\ y.items = x.items /\ y.failed = x.failed
         /\ y.taken = x.taken \cup FirstOf(Matching(x, need), need.least)
<1> DEFINE F == FirstOf(Matching(x, need), need.least)
<1>1. KeepMatching(x, need) = [x EXCEPT !.taken = @ \cup F]
  BY DEF KeepMatching, FirstOf
<1>2. F \subseteq Nat
  BY MatchingFacts DEF FirstOf
<1> HIDE DEF F
<1>3. KeepMatching(x, need) = [items |-> x.items, taken |-> x.taken \cup F, failed |-> x.failed]
  BY <1>1 DEF Arrays
<1>4. x.taken \cup F \in SUBSET Nat /\ x.items \in Seq(Nat) /\ x.failed \in BOOLEAN
  BY <1>2 DEF Arrays
<1> QED BY <1>3, <1>4 DEF F, Arrays

\* One more witness: the array failed, is full, grows or has an item replaced.
LEMMA Witnesses ==
  ASSUME NEW x \in Arrays, NEW need \in NeedSet, NEW most \in Nat
  PROVE  LET y == AddWitness(x, need, most)
             L == Len(x.items) IN
         /\ y \in Arrays
         /\ \/ x.failed /\ y = x
            \/ ~ x.failed /\ L >= most /\ Replaceable(x, need) = {} /\ y.failed
            \/ /\ ~ x.failed /\ L < most /\ ~ y.failed
               /\ y.items = Append(x.items, need.role) /\ y.taken = x.taken \cup {L + 1}
            \/ /\ ~ x.failed /\ L >= most /\ ~ y.failed
               /\ \E place \in Replaceable(x, need) :
                    y.items = [x.items EXCEPT ![place] = need.role] /\ y.taken = x.taken \cup {place}
<1> DEFINE y == AddWitness(x, need, most)
           L == Len(x.items)
           free == Replaceable(x, need)
           place == IF L < most THEN L + 1 ELSE CHOOSE i \in free : \A j \in free : i <= j
<1>1. /\ L \in Nat /\ DOMAIN x.items = 1..L /\ x.taken \subseteq Nat /\ x.failed \in BOOLEAN
      /\ x = [items |-> x.items, taken |-> x.taken, failed |-> x.failed]
      /\ x.items \in Seq(Nat) /\ need.role \in Nat
  BY ArrayFacts, MatchingFacts DEF Arrays
<1>2. y = IF x.failed THEN x
          ELSE IF L >= most /\ free = {} THEN [x EXCEPT !.failed = TRUE]
          ELSE [x EXCEPT !.items = IF place > Len(@) THEN Append(@, need.role)
                                   ELSE [@ EXCEPT ![place] = need.role],
                         !.taken = @ \cup {place}]
  BY DEF AddWitness
<1>3. free \subseteq 1..L
  BY <1>1 DEF Replaceable
<1>4. L >= most /\ free # {} => place \in free
  <2> SUFFICES ASSUME L >= most, free # {} PROVE place \in free
    OBVIOUS
  <2>1. place = CHOOSE i \in free : \A j \in free : i <= j
    BY <1>1
  <2>2. free \subseteq Nat
    BY <1>1, <1>3
  <2> HIDE DEF free, place
  <2>3. \E i \in free : \A j \in free : i <= j
    BY <2>2, LeastNatural
  <2> QED BY <2>1, <2>3
<1>5. L < most => place = L + 1
  OBVIOUS
<1> HIDE DEF y, L, free, place
<1>6. CASE x.failed
  BY <1>2, <1>6 DEF y
<1>7. CASE ~ x.failed /\ L >= most /\ free = {}
  <2>1. y = [x EXCEPT !.failed = TRUE]
    BY <1>2, <1>7
  <2>2. y = [items |-> x.items, taken |-> x.taken, failed |-> TRUE]
    BY <1>1, <2>1
  <2>3. y \in Arrays /\ y.failed
    BY <1>1, <2>2 DEF Arrays
  <2> QED BY <1>7, <2>3 DEF y, free, L
<1>8. CASE ~ x.failed /\ L < most
  <2>1. y = [x EXCEPT !.items = IF place > Len(@) THEN Append(@, need.role)
                                ELSE [@ EXCEPT ![place] = need.role],
                      !.taken = @ \cup {place}]
    BY <1>1, <1>2, <1>8
  <2>2. place = L + 1 /\ place > Len(x.items)
    BY <1>1, <1>5, <1>8 DEF L
  <2>3. y = [items |-> Append(x.items, need.role), taken |-> x.taken \cup {L + 1}, failed |-> FALSE]
    BY <1>1, <1>8, <2>1, <2>2
  <2>4. Append(x.items, need.role) \in Seq(Nat) /\ x.taken \cup {L + 1} \in SUBSET Nat
    BY <1>1
  <2>5. y \in Arrays /\ ~ y.failed /\ y.items = Append(x.items, need.role) /\ y.taken = x.taken \cup {L + 1}
    BY <2>3, <2>4 DEF Arrays
  <2> QED BY <1>8, <2>5 DEF y, L
<1>9. CASE ~ x.failed /\ L >= most /\ free # {}
  <2>1. y = [x EXCEPT !.items = IF place > Len(@) THEN Append(@, need.role)
                                ELSE [@ EXCEPT ![place] = need.role],
                      !.taken = @ \cup {place}]
    BY <1>1, <1>2, <1>9
  <2>2. place \in free /\ place \in 1..L /\ ~(place > Len(x.items))
    BY <1>1, <1>3, <1>4, <1>9 DEF L
  <2>3. y = [items |-> [x.items EXCEPT ![place] = need.role], taken |-> x.taken \cup {place},
             failed |-> FALSE]
    BY <1>1, <1>9, <2>1, <2>2
  <2>4. [x.items EXCEPT ![place] = need.role] \in Seq(Nat) /\ x.taken \cup {place} \in SUBSET Nat
    BY <1>1, <2>2
  <2>5. /\ y \in Arrays /\ ~ y.failed
        /\ y.items = [x.items EXCEPT ![place] = need.role] /\ y.taken = x.taken \cup {place}
    BY <2>3, <2>4 DEF Arrays
  <2> QED BY <1>9, <2>2, <2>5 DEF y, L, free
<1>10. L < most \/ L >= most
  BY <1>1
<1> QED BY <1>6, <1>7, <1>8, <1>9, <1>10

\* The array after each witness for one constraint.
LEMMA ServeSteps ==
  ASSUME NEW x \in Arrays, NEW need \in NeedSet, NEW most \in Nat
  PROVE  \E g : /\ ServeNeed(x, need, most) = g[Lacking(x, need)] /\ g[0] = KeepMatching(x, need)
                /\ \A i \in 0..Lacking(x, need) : g[i] \in Arrays
                /\ \A i \in 1..Lacking(x, need) : g[i] = AddWitness(g[i - 1], need, most)
<1> DEFINE n == Lacking(x, need)
           D == Arrays
           G == [q \in D \X (1..n) |-> AddWitness(q[1], need, most)]
           P(f) == f = [i \in 0..n |-> IF i = 0 THEN KeepMatching(x, need) ELSE AddWitness(f[i - 1], need, most)]
<1>1. n \in Nat /\ KeepMatching(x, need) \in D
  BY MatchingFacts, Kept
<1>2. \A q \in D \X (1..n) : AddWitness(q[1], need, most) \in D
  BY Witnesses
<1>3. G \in [D \X (1..n) -> D] /\ \A d \in D, i \in 1..n : G[<<d, i>>] = AddWitness(d, need, most)
  <2> HIDE DEF n, D
  <2> QED BY <1>2
<1> HIDE DEF n, D, G
<1>4. PICK f : IsFold(f, D, KeepMatching(x, need), n, G)
  BY <1>1, <1>3, FoldsExist
<1>5. f \in [0..n -> D] /\ f[0] = KeepMatching(x, need) /\ \A i \in 1..n : f[i] = AddWitness(f[i - 1], need, most)
  <2>1. f \in [0..n -> D] /\ f[0] = KeepMatching(x, need) /\ \A i \in 1..n : f[i] = G[<<f[i - 1], i>>]
    BY <1>4 DEF IsFold
  <2>2. \A i \in 1..n : i - 1 \in 0..n
    BY <1>1
  <2> QED BY <1>3, <2>1, <2>2
<1>6. P(f)
  <2>1. \A i \in 0..n : f[i] = IF i = 0 THEN KeepMatching(x, need) ELSE AddWitness(f[i - 1], need, most)
    <3>1. \A i \in 0..n : i = 0 \/ i \in 1..n
      BY <1>1
    <3> QED BY <1>5, <3>1, Zenon
  <2>2. f = [i \in 0..n |-> f[i]]
    BY <1>5
  <2>3. [i \in 0..n |-> f[i]] = [i \in 0..n |-> IF i = 0 THEN KeepMatching(x, need) ELSE AddWitness(f[i - 1], need, most)]
    BY <2>1, Zenon
  <2> QED BY <2>2, <2>3, Zenon
<1> DEFINE h == CHOOSE g : P(g)
<1>7. P(h)
  BY <1>6, Zenon
<1>8. ServeNeed(x, need, most) = h[n]
  BY Zenon DEF ServeNeed, n
<1> HIDE DEF h
<1>9. h[0] = KeepMatching(x, need) /\ \A i \in 1..n : h[i] = AddWitness(h[i - 1], need, most)
  <2> DEFINE k == [i \in 0..n |-> IF i = 0 THEN KeepMatching(x, need) ELSE AddWitness(h[i - 1], need, most)]
  <2>1. \A i \in 0..n : k[i] = IF i = 0 THEN KeepMatching(x, need) ELSE AddWitness(h[i - 1], need, most)
    OBVIOUS
  <2>2. h = k
    BY <1>7, Zenon
  <2>3. 0 \in 0..n /\ \A i \in 1..n : i \in 0..n /\ i # 0
    BY <1>1
  <2> HIDE DEF k
  <2> QED BY <2>1, <2>2, <2>3, Zenon
<1>10. \A i \in 0..n : h[i] \in D
  <2>1. \A i \in 1..n : h[i - 1] \in D => h[i] = G[<<h[i - 1], i>>]
    BY <1>3, <1>9
  <2> QED BY <1>1, <1>3, <1>9, <2>1, FoldStates
<1> QED BY <1>1, <1>8, <1>9, <1>10 DEF n, D

LEMMA NeedKeeps ==
  ASSUME NEW x \in Arrays, NEW need \in NeedSet, NEW most \in Nat
  PROVE  ServeNeed(x, need, most) \in Arrays
<1>1. Lacking(x, need) \in 0..Lacking(x, need)
  BY MatchingFacts
<1> QED BY <1>1, ServeSteps

\* The array after each constraint.
LEMMA MergeSteps ==
  ASSUME NEW x \in Arrays, NEW needs \in Seq(NeedSet), NEW most \in Nat
  PROVE  \E g : /\ MergeArraySample(x, needs, most) = g[Len(needs)] /\ g[0] = x
                /\ \A i \in 0..Len(needs) : g[i] \in Arrays
                /\ \A i \in 1..Len(needs) : g[i] = ServeNeed(g[i - 1], needs[i], most)
<1> DEFINE n == Len(needs)
           D == Arrays
           G == [q \in D \X (1..n) |-> ServeNeed(q[1], needs[q[2]], most)]
           P(f) == f = [i \in 0..n |-> IF i = 0 THEN x ELSE ServeNeed(f[i - 1], needs[i], most)]
<1>1. n \in Nat /\ x \in D
  OBVIOUS
<1>2. \A q \in D \X (1..n) : ServeNeed(q[1], needs[q[2]], most) \in D
  <2>1. \A i \in 1..n : needs[i] \in NeedSet
    OBVIOUS
  <2> HIDE DEF n
  <2> QED BY <2>1, NeedKeeps
<1>3. G \in [D \X (1..n) -> D] /\ \A d \in D, i \in 1..n : G[<<d, i>>] = ServeNeed(d, needs[i], most)
  <2> HIDE DEF n, D
  <2> QED BY <1>2
<1> HIDE DEF n, D, G
<1>4. PICK f : IsFold(f, D, x, n, G)
  BY <1>1, <1>3, FoldsExist
<1>5. f \in [0..n -> D] /\ f[0] = x /\ \A i \in 1..n : f[i] = ServeNeed(f[i - 1], needs[i], most)
  <2>1. f \in [0..n -> D] /\ f[0] = x /\ \A i \in 1..n : f[i] = G[<<f[i - 1], i>>]
    BY <1>4 DEF IsFold
  <2>2. \A i \in 1..n : i - 1 \in 0..n
    BY <1>1
  <2> QED BY <1>3, <2>1, <2>2
<1>6. P(f)
  <2>1. \A i \in 0..n : f[i] = IF i = 0 THEN x ELSE ServeNeed(f[i - 1], needs[i], most)
    <3>1. \A i \in 0..n : i = 0 \/ i \in 1..n
      BY <1>1
    <3> QED BY <1>5, <3>1, Zenon
  <2>2. f = [i \in 0..n |-> f[i]]
    BY <1>5
  <2>3. [i \in 0..n |-> f[i]] = [i \in 0..n |-> IF i = 0 THEN x ELSE ServeNeed(f[i - 1], needs[i], most)]
    BY <2>1, Zenon
  <2> QED BY <2>2, <2>3, Zenon
<1> DEFINE h == CHOOSE g : P(g)
<1>7. P(h)
  BY <1>6, Zenon
<1>8. MergeArraySample(x, needs, most) = h[n]
  BY Zenon DEF MergeArraySample, n
<1> HIDE DEF h
<1>9. h[0] = x /\ \A i \in 1..n : h[i] = ServeNeed(h[i - 1], needs[i], most)
  <2> DEFINE k == [i \in 0..n |-> IF i = 0 THEN x ELSE ServeNeed(h[i - 1], needs[i], most)]
  <2>1. \A i \in 0..n : k[i] = IF i = 0 THEN x ELSE ServeNeed(h[i - 1], needs[i], most)
    OBVIOUS
  <2>2. h = k
    BY <1>7, Zenon
  <2>3. 0 \in 0..n /\ \A i \in 1..n : i \in 0..n /\ i # 0
    BY <1>1
  <2> HIDE DEF k
  <2> QED BY <2>1, <2>2, <2>3, Zenon
<1>10. \A i \in 0..n : h[i] \in D
  <2>1. \A i \in 1..n : h[i - 1] \in D => h[i] = G[<<h[i - 1], i>>]
    BY <1>3, <1>9
  <2> QED BY <1>1, <1>3, <1>9, <2>1, FoldStates
<1> QED BY <1>1, <1>8, <1>9, <1>10 DEF n, D

\* What the constraints demand up to each.
LEMMA DemandSteps ==
  ASSUME NEW needs \in Seq(NeedSet)
  PROVE  \E g : /\ Demand(needs) = g[Len(needs)] /\ g[0] = 0
                /\ \A i \in 0..Len(needs) : g[i] \in Nat
                /\ \A i \in 1..Len(needs) : g[i] = g[i - 1] + needs[i].least
<1> DEFINE n == Len(needs)
           D == Nat
           G == [q \in D \X (1..n) |-> q[1] + needs[q[2]].least]
           P(f) == f = [i \in 0..n |-> IF i = 0 THEN 0 ELSE f[i - 1] + needs[i].least]
<1>1. n \in Nat /\ 0 \in D
  OBVIOUS
<1>2. \A q \in D \X (1..n) : q[1] + needs[q[2]].least \in D
  <2>1. \A i \in 1..n : needs[i] \in NeedSet
    OBVIOUS
  <2> HIDE DEF n
  <2> QED BY <2>1 DEF NeedSet
<1>3. G \in [D \X (1..n) -> D] /\ \A d \in D, i \in 1..n : G[<<d, i>>] = d + needs[i].least
  <2> HIDE DEF n, D
  <2> QED BY <1>2
<1> HIDE DEF n, D, G
<1>4. PICK f : IsFold(f, D, 0, n, G)
  BY <1>1, <1>3, FoldsExist
<1>5. f \in [0..n -> D] /\ f[0] = 0 /\ \A i \in 1..n : f[i] = f[i - 1] + needs[i].least
  <2>1. f \in [0..n -> D] /\ f[0] = 0 /\ \A i \in 1..n : f[i] = G[<<f[i - 1], i>>]
    BY <1>4 DEF IsFold
  <2>2. \A i \in 1..n : i - 1 \in 0..n
    BY <1>1
  <2> QED BY <1>3, <2>1, <2>2
<1>6. P(f)
  <2>1. \A i \in 0..n : f[i] = IF i = 0 THEN 0 ELSE f[i - 1] + needs[i].least
    <3>1. \A i \in 0..n : i = 0 \/ i \in 1..n
      BY <1>1
    <3> QED BY <1>5, <3>1, Zenon
  <2>2. f = [i \in 0..n |-> f[i]]
    BY <1>5
  <2>3. [i \in 0..n |-> f[i]] = [i \in 0..n |-> IF i = 0 THEN 0 ELSE f[i - 1] + needs[i].least]
    BY <2>1, Zenon
  <2> QED BY <2>2, <2>3, Zenon
<1> DEFINE h == CHOOSE g : P(g)
<1>7. P(h)
  BY <1>6, Zenon
<1>8. Demand(needs) = h[n]
  BY Zenon DEF Demand, n
<1> HIDE DEF h
<1>9. h[0] = 0 /\ \A i \in 1..n : h[i] = h[i - 1] + needs[i].least
  <2> DEFINE k == [i \in 0..n |-> IF i = 0 THEN 0 ELSE h[i - 1] + needs[i].least]
  <2>1. \A i \in 0..n : k[i] = IF i = 0 THEN 0 ELSE h[i - 1] + needs[i].least
    OBVIOUS
  <2>2. h = k
    BY <1>7, Zenon
  <2>3. 0 \in 0..n /\ \A i \in 1..n : i \in 0..n /\ i # 0
    BY <1>1
  <2> HIDE DEF k
  <2> QED BY <2>1, <2>2, <2>3, Zenon
<1>10. \A i \in 0..n : h[i] \in D
  <2>1. \A i \in 1..n : h[i - 1] \in D => h[i] = G[<<h[i - 1], i>>]
    BY <1>3, <1>9
  <2> QED BY <1>1, <1>3, <1>9, <2>1, FoldStates
<1> QED BY <1>1, <1>8, <1>9, <1>10 DEF n, D

Roled(x) == \A i \in 1..Len(x.items) : x.items[i] \in 1..RoleCount

\* A witness takes one place that no constraint holds, which then matches.
Witnessed(x, need, most, y) ==
  /\ y \in Arrays /\ ~ y.failed /\ Roled(y)
  /\ Len(x.items) <= Len(y.items) /\ Len(y.items) <= most
  /\ Len(x.items) < most => Len(y.items) = Len(x.items) + 1
  /\ \E place \in 1..Len(y.items) :
       /\ place \in 1..Len(x.items) => place \notin x.taken
       /\ Len(x.items) < most => place \notin 1..Len(x.items)
       /\ place \notin Matching(x, need)
       /\ y.taken = x.taken \cup {place} /\ y.items[place] = need.role
       /\ Matching(y, need) = Matching(x, need) \cup {place}
       /\ 1..Len(y.items) = 1..Len(x.items) \cup {place}
       /\ \A j \in 1..Len(x.items) : j # place => y.items[j] = x.items[j]

LEMMA OneWitness ==
  ASSUME NEW x \in Arrays, NEW need \in NeedSet, NEW most \in Nat,
         ~ x.failed, Len(x.items) <= most, Roled(x),
         Len(x.items) < most \/ Replaceable(x, need) # {}
  PROVE  Witnessed(x, need, most, AddWitness(x, need, most))
<1> DEFINE y == AddWitness(x, need, most)
           L == Len(x.items)
<1>1. /\ L \in Nat /\ DOMAIN x.items = 1..L /\ x.items \in Seq(Nat)
      /\ need.role \in Nat /\ need.role \in 1..RoleCount
      /\ Matching(x, need) = {i \in 1..L : x.items[i] = need.role}
  BY ArrayFacts, MatchingFacts DEF Arrays
<1>2. y \in Arrays
  BY Witnesses
<1>3. Matching(y, need) = {i \in 1..Len(y.items) : y.items[i] = need.role}
  BY <1>2, MatchingFacts
<1>4. CASE L < most
  <2>1. ~ y.failed /\ y.items = Append(x.items, need.role) /\ y.taken = x.taken \cup {L + 1}
    BY <1>1, <1>4, Witnesses
  <2> HIDE DEF y
  <2>2. /\ Len(y.items) = L + 1 /\ y.items[L + 1] = need.role
        /\ \A j \in 1..L : y.items[j] = x.items[j]
    BY <1>1, <2>1
  <2>3. L + 1 \in 1..(L + 1) /\ 1..(L + 1) = 1..L \cup {L + 1} /\ L + 1 \notin 1..L
    BY <1>1
  <2>4. Matching(y, need) = Matching(x, need) \cup {L + 1}
    BY <1>1, <1>3, <2>2, <2>3
  <2>5. Roled(y)
    BY <1>1, <2>2, <2>3 DEF Roled
  <2>6. L <= Len(y.items) /\ Len(y.items) <= most
    BY <1>1, <1>4, <2>2
  <2>7. /\ L + 1 \in 1..Len(y.items) /\ L + 1 \notin 1..L /\ L + 1 \notin Matching(x, need)
        /\ 1..Len(y.items) = 1..L \cup {L + 1}
    BY <1>1, <2>2, <2>3
  <2> HIDE DEF L
  <2>8. \E place \in 1..Len(y.items) :
              /\ place \in 1..L => place \notin x.taken
              /\ L < most => place \notin 1..L
              /\ place \notin Matching(x, need)
              /\ y.taken = x.taken \cup {place} /\ y.items[place] = need.role
              /\ Matching(y, need) = Matching(x, need) \cup {place}
              /\ 1..Len(y.items) = 1..L \cup {place}
              /\ \A j \in 1..L : j # place => y.items[j] = x.items[j]
    BY <2>1, <2>2, <2>4, <2>7
  <2> QED BY <1>2, <2>1, <2>2, <2>5, <2>6, <2>8 DEF y, L, Witnessed
<1>5. CASE L >= most
  <2>1. L = most /\ Replaceable(x, need) # {} /\ ~(L < most)
    BY <1>1, <1>5
  <2>2. /\ ~ y.failed
        /\ \E place \in Replaceable(x, need) :
             y.items = [x.items EXCEPT ![place] = need.role] /\ y.taken = x.taken \cup {place}
    BY <2>1, Witnesses
  <2>3. PICK place \in Replaceable(x, need) :
          y.items = [x.items EXCEPT ![place] = need.role] /\ y.taken = x.taken \cup {place}
    BY <2>2
  <2>4. place \in 1..L /\ place \notin x.taken /\ place \notin Matching(x, need)
    BY <1>1 DEF Replaceable
  <2> HIDE DEF y
  <2>5. /\ Len(y.items) = L /\ y.items[place] = need.role
        /\ \A j \in 1..L : j # place => y.items[j] = x.items[j]
    BY <1>1, <2>3, <2>4
  <2>6. Matching(y, need) = Matching(x, need) \cup {place}
    BY <1>1, <1>3, <2>4, <2>5
  <2>7. Roled(y)
    BY <1>1, <2>4, <2>5 DEF Roled
  <2>8. L <= Len(y.items) /\ Len(y.items) <= most
    BY <1>1, <2>1, <2>5
  <2>9. 1..Len(y.items) = 1..L \cup {place}
    BY <2>4, <2>5
  <2> HIDE DEF L
  <2>10. \E p \in 1..Len(y.items) :
              /\ p \in 1..L => p \notin x.taken
              /\ L < most => p \notin 1..L
              /\ p \notin Matching(x, need)
              /\ y.taken = x.taken \cup {p} /\ y.items[p] = need.role
              /\ Matching(y, need) = Matching(x, need) \cup {p}
              /\ 1..Len(y.items) = 1..L \cup {p}
              /\ \A j \in 1..L : j # p => y.items[j] = x.items[j]
    BY <2>1, <2>3, <2>4, <2>5, <2>6, <2>9
  <2> QED BY <1>2, <2>1, <2>2, <2>7, <2>8, <2>10 DEF y, L, Witnessed
<1>6. L < most \/ L >= most
  BY <1>1
<1> QED BY <1>4, <1>5, <1>6

\* The witnesses of one constraint, so far: each a new match, held with the items kept;
\* they are appended while there is room.
Serving(x, need, most, z, i) ==
  /\ z \in Arrays /\ ~ z.failed /\ Roled(z)
  /\ Len(x.items) <= Len(z.items) /\ Len(z.items) <= most /\ Len(z.items) <= Len(x.items) + i
  /\ x.taken \subseteq z.taken /\ Matching(z, need) \subseteq z.taken
  /\ Cardinality(Matching(z, need)) = Cardinality(Matching(x, need)) + i
  /\ \A j \in 1..Len(x.items) : j \in x.taken => z.items[j] = x.items[j]
  /\ \A j \in 1..Len(z.items) :
       \/ z.items[j] = need.role
       \/ (j \in 1..Len(x.items) /\ z.items[j] = x.items[j])
  /\ Len(x.items) + i <= most =>
       /\ Len(z.items) = Len(x.items) + i
       /\ \A j \in 1..Len(x.items) : z.items[j] = x.items[j]
  /\ x.taken \subseteq 1..Len(x.items) =>
       /\ z.taken \subseteq 1..Len(z.items)
       /\ IsFiniteSet(z.taken)
       /\ Cardinality(z.taken) <= Cardinality(x.taken) + Cardinality(Matching(x, need)) + i

LEMMA ServingStarts ==
  ASSUME NEW x \in Arrays, NEW need \in NeedSet, NEW most \in Nat,
         ~ x.failed, Len(x.items) <= most, Roled(x), Lacking(x, need) > 0
  PROVE  Serving(x, need, most, KeepMatching(x, need), 0)
<1> DEFINE z == KeepMatching(x, need)
           M == Matching(x, need)
           T == x.taken
<1>1. Cardinality(M) < need.least
  BY MatchingFacts
<1>2. FirstOf(M, need.least) = M
  BY <1>1, MatchingFacts, FirstFew
<1>3. z \in Arrays /\ z.items = x.items /\ z.failed = x.failed /\ z.taken = T \cup M
  BY <1>2, Kept
<1>4. Matching(z, need) = M
  BY <1>3 DEF Matching
<1>5. /\ Len(x.items) \in Nat /\ IsFiniteSet(1..Len(x.items))
      /\ IsFiniteSet(M) /\ Cardinality(M) \in Nat /\ M \subseteq 1..Len(x.items)
  BY ArrayFacts, MatchingFacts
<1> HIDE DEF z, M, T
<1>6. T \subseteq 1..Len(x.items) =>
        /\ T \cup M \subseteq 1..Len(x.items) /\ IsFiniteSet(T \cup M)
        /\ Cardinality(T \cup M) <= Cardinality(T) + Cardinality(M) + 0
  <2> SUFFICES ASSUME T \subseteq 1..Len(x.items)
               PROVE  /\ T \cup M \subseteq 1..Len(x.items) /\ IsFiniteSet(T \cup M)
                      /\ Cardinality(T \cup M) <= Cardinality(T) + Cardinality(M) + 0
    OBVIOUS
  <2>1. IsFiniteSet(T)
    BY <1>5, FS_Subset
  <2>2. /\ IsFiniteSet(T \cup M)
        /\ Cardinality(T \cup M) = Cardinality(T) + Cardinality(M) - Cardinality(T \cap M)
    BY <1>5, <2>1, FS_Union
  <2>3. IsFiniteSet(T \cap M)
    BY <2>1, FS_Subset
  <2>4. Cardinality(T) \in Nat /\ Cardinality(T \cap M) \in Nat /\ Cardinality(T \cup M) \in Nat
    BY <2>1, <2>2, <2>3, FS_CardinalityType
  <2> QED BY <1>5, <2>2, <2>4
<1>7. \A j \in 1..Len(z.items) : z.items[j] = x.items[j] /\ j \in 1..Len(x.items)
  BY <1>3
<1>8. Roled(z)
  BY <1>3 DEF Roled
<1>9. Serving(x, need, most, z, 0)
  BY <1>3, <1>4, <1>5, <1>6, <1>7, <1>8 DEF Serving, T, M
<1> QED BY <1>9 DEF z

LEMMA ServingStep ==
  ASSUME NEW x \in Arrays, NEW need \in NeedSet, NEW most \in Nat, NEW i \in Nat,
         NEW z, Serving(x, need, most, z, i),
         Len(z.items) < most \/ Replaceable(z, need) # {}
  PROVE  Serving(x, need, most, AddWitness(z, need, most), i + 1)
<1> DEFINE y == AddWitness(z, need, most)
<1>1. z \in Arrays /\ ~ z.failed /\ Roled(z) /\ Len(z.items) <= most
  BY DEF Serving
<1>2. /\ y \in Arrays /\ ~ y.failed /\ Roled(y)
      /\ Len(z.items) <= Len(y.items) /\ Len(y.items) <= most
      /\ Len(z.items) < most => Len(y.items) = Len(z.items) + 1
      /\ \E place \in 1..Len(y.items) :
              /\ place \in 1..Len(z.items) => place \notin z.taken
              /\ Len(z.items) < most => place \notin 1..Len(z.items)
              /\ place \notin Matching(z, need)
              /\ y.taken = z.taken \cup {place} /\ y.items[place] = need.role
              /\ Matching(y, need) = Matching(z, need) \cup {place}
              /\ 1..Len(y.items) = 1..Len(z.items) \cup {place}
              /\ \A j \in 1..Len(z.items) : j # place => y.items[j] = z.items[j]
  <2>1. Len(z.items) < most \/ Replaceable(z, need) # {}
    OBVIOUS
  <2>2. Witnessed(z, need, most, y)
    BY <1>1, <2>1, OneWitness
  <2> HIDE DEF y
  <2> QED BY <2>2, Zenon DEF Witnessed
<1> HIDE DEF y
<1>3. PICK place \in 1..Len(y.items) :
              /\ place \in 1..Len(z.items) => place \notin z.taken
              /\ Len(z.items) < most => place \notin 1..Len(z.items)
              /\ place \notin Matching(z, need)
              /\ y.taken = z.taken \cup {place} /\ y.items[place] = need.role
              /\ Matching(y, need) = Matching(z, need) \cup {place}
              /\ 1..Len(y.items) = 1..Len(z.items) \cup {place}
              /\ \A j \in 1..Len(z.items) : j # place => y.items[j] = z.items[j]
  BY <1>2
<1>4. Len(x.items) \in Nat /\ Len(y.items) \in Nat /\ Len(z.items) \in Nat
  BY <1>1, <1>2, ArrayFacts
<1> DEFINE a == Len(x.items)
           b == Len(y.items)
           c == Len(z.items)
<1>5. Cardinality(Matching(y, need)) = Cardinality(Matching(x, need)) + (i + 1)
  <2>1. /\ IsFiniteSet(Matching(z, need)) /\ Cardinality(Matching(z, need)) \in Nat
        /\ Cardinality(Matching(x, need)) \in Nat
    BY <1>1, MatchingFacts
  <2>2. Cardinality(Matching(z, need) \cup {place}) = Cardinality(Matching(z, need)) + 1
    BY <1>3, <2>1, FS_AddElement
  <2>3. Cardinality(Matching(z, need)) = Cardinality(Matching(x, need)) + i
    BY DEF Serving
  <2> QED BY <1>3, <2>1, <2>2, <2>3
<1>6. /\ Len(x.items) <= Len(z.items) /\ Len(z.items) <= Len(x.items) + i
      /\ x.taken \subseteq z.taken /\ Matching(z, need) \subseteq z.taken
  BY DEF Serving
<1>7. \A j \in 1..Len(x.items) : j \in 1..Len(z.items)
  BY <1>4, <1>6
<1>8. \A j \in 1..Len(x.items) : j \in x.taken => y.items[j] = x.items[j]
  <2>1. \A j \in 1..Len(x.items) : j \in x.taken => z.items[j] = x.items[j]
    BY DEF Serving
  <2>2. \A j \in 1..Len(x.items) : j \in x.taken => j # place
    BY <1>3, <1>6, <1>7
  <2> QED BY <1>3, <1>7, <2>1, <2>2
<1>9. \A j \in 1..Len(y.items) :
        \/ y.items[j] = need.role
        \/ (j \in 1..Len(x.items) /\ y.items[j] = x.items[j])
  <2>1. \A j \in 1..Len(z.items) :
          \/ z.items[j] = need.role
          \/ (j \in 1..Len(x.items) /\ z.items[j] = x.items[j])
    BY DEF Serving
  <2>2. \A j \in 1..Len(y.items) : j = place \/ (j \in 1..Len(z.items) /\ y.items[j] = z.items[j])
    BY <1>3
  <2> QED BY <1>3, <2>1, <2>2
<1>10. Len(x.items) <= Len(y.items) /\ x.taken \subseteq y.taken /\ Matching(y, need) \subseteq y.taken
  BY <1>2, <1>3, <1>4, <1>6
<1>11. Len(y.items) <= Len(x.items) + (i + 1)
  <2>1. /\ a \in Nat /\ b \in Nat /\ c \in Nat /\ c <= most /\ b <= most /\ c <= a + i
        /\ c < most => b = c + 1
    BY <1>1, <1>2, <1>4, <1>6
  <2> HIDE DEF a, b, c
  <2>2. b <= a + (i + 1)
    BY <2>1
  <2> QED BY <2>2 DEF a, b
<1>12. Len(x.items) + (i + 1) <= most =>
       /\ Len(y.items) = Len(x.items) + (i + 1)
       /\ \A j \in 1..Len(x.items) : y.items[j] = x.items[j]
  <2> SUFFICES ASSUME Len(x.items) + (i + 1) <= most
               PROVE  /\ Len(y.items) = Len(x.items) + (i + 1)
                      /\ \A j \in 1..Len(x.items) : y.items[j] = x.items[j]
    OBVIOUS
  <2>1. Len(x.items) + i <= most /\ Len(x.items) + i < most
    <3>1. a \in Nat /\ a + (i + 1) <= most
      BY <1>4
    <3> HIDE DEF a
    <3>2. a + i <= most /\ a + i < most
      BY <3>1
    <3> QED BY <3>2 DEF a
  <2>2. Len(z.items) = Len(x.items) + i /\ \A j \in 1..Len(x.items) : z.items[j] = x.items[j]
    BY <2>1 DEF Serving
  <2>3. Len(z.items) < most /\ place \notin 1..Len(z.items)
    BY <1>3, <2>1, <2>2
  <2>4. Len(y.items) = Len(x.items) + (i + 1)
    <3>1. a \in Nat /\ b = c + 1 /\ c = a + i
      BY <1>2, <1>4, <2>2, <2>3
    <3> HIDE DEF a, b, c
    <3>2. b = a + (i + 1)
      BY <3>1
    <3> QED BY <3>2 DEF a, b
  <2>5. \A j \in 1..Len(x.items) : j # place
    BY <1>7, <2>3
  <2> QED BY <1>3, <1>7, <2>2, <2>4, <2>5
<1>13. x.taken \subseteq 1..Len(x.items) =>
       /\ y.taken \subseteq 1..Len(y.items)
       /\ IsFiniteSet(y.taken)
       /\ Cardinality(y.taken) <= Cardinality(x.taken) + Cardinality(Matching(x, need)) + (i + 1)
  <2> SUFFICES ASSUME x.taken \subseteq 1..Len(x.items)
               PROVE  /\ y.taken \subseteq 1..Len(y.items)
                      /\ IsFiniteSet(y.taken)
                      /\ Cardinality(y.taken) <= Cardinality(x.taken) + Cardinality(Matching(x, need)) + (i + 1)
    OBVIOUS
  <2>1. /\ z.taken \subseteq 1..Len(z.items) /\ IsFiniteSet(z.taken)
        /\ Cardinality(z.taken) <= Cardinality(x.taken) + Cardinality(Matching(x, need)) + i
    BY DEF Serving
  <2>2. place \notin z.taken
    BY <1>3, <2>1
  <2>3. /\ IsFiniteSet(z.taken \cup {place})
        /\ Cardinality(z.taken \cup {place}) = Cardinality(z.taken) + 1
    BY <2>1, <2>2, FS_AddElement
  <2>4. IsFiniteSet(x.taken)
    BY ArrayFacts, FS_Subset
  <2>5. Cardinality(z.taken) \in Nat /\ Cardinality(x.taken) \in Nat /\ Cardinality(Matching(x, need)) \in Nat
    BY <2>1, <2>4, FS_CardinalityType, MatchingFacts
  <2>6. y.taken \subseteq 1..Len(y.items)
    BY <1>3, <2>1
  <2> QED BY <1>3, <2>1, <2>3, <2>5, <2>6
<1>14. y \in Arrays /\ ~ y.failed /\ Roled(y) /\ Len(y.items) <= most
  BY <1>2
<1> QED BY <1>5, <1>8, <1>9, <1>10, <1>11, <1>12, <1>13, <1>14 DEF Serving, y

\* Room for a constraint: to append its witnesses, or places that no other holds.
Room(x, need, most) ==
  \/ Len(x.items) + need.least <= most
  \/ (x.taken \subseteq 1..Len(x.items) /\ Cardinality(x.taken) + need.least <= most)

LEMMA StillRoom ==
  ASSUME NEW x \in Arrays, NEW need \in NeedSet, NEW most \in Nat, NEW i \in Nat,
         NEW z, Serving(x, need, most, z, i), Room(x, need, most),
         Cardinality(Matching(x, need)) + i < need.least
  PROVE  Len(z.items) < most \/ Replaceable(z, need) # {}
<1> DEFINE a == Len(x.items)
           c == Len(z.items)
           m == Cardinality(Matching(x, need))
           l == need.least
<1>1. z \in Arrays /\ c <= most /\ c <= a + i
  BY DEF Serving
<1>2. a \in Nat /\ c \in Nat /\ m \in Nat /\ l \in Nat /\ m + i < l
  BY <1>1, ArrayFacts, MatchingFacts
<1>3. CASE a + l <= most
  <2>1. a + l <= most
    BY <1>3
  <2> HIDE DEF a, c, m, l
  <2>2. c < most
    BY <1>1, <1>2, <2>1
  <2> QED BY <2>2 DEF c
<1>4. CASE x.taken \subseteq 1..Len(x.items) /\ Cardinality(x.taken) + l <= most
  <2> SUFFICES ASSUME ~(c < most), Replaceable(z, need) = {} PROVE FALSE
    OBVIOUS
  <2>1. /\ IsFiniteSet(z.taken) /\ Cardinality(z.taken) <= Cardinality(x.taken) + m + i
        /\ Matching(z, need) \subseteq z.taken
    BY <1>4 DEF Serving
  <2>2. DOMAIN z.items = 1..c /\ Cardinality(1..c) = c
    BY <1>1, ArrayFacts
  <2>3. 1..c \subseteq z.taken
    BY <2>1, <2>2 DEF Replaceable
  <2>4. Cardinality(1..c) <= Cardinality(z.taken)
    BY <2>1, <2>3, FS_Subset
  <2>5. IsFiniteSet(x.taken)
    BY <1>4, ArrayFacts, FS_Subset
  <2>6. Cardinality(x.taken) \in Nat /\ Cardinality(z.taken) \in Nat
    BY <2>1, <2>5, FS_CardinalityType
  <2>7. ~(c < most) /\ Cardinality(x.taken) + l <= most
    BY <1>4
  <2>8. Cardinality(1..c) = c
    BY <2>2
  <2> HIDE DEF c, m, l, a
  <2> QED BY <1>2, <2>1, <2>4, <2>6, <2>7, <2>8
<1> QED BY <1>3, <1>4 DEF Room

\* What a constraint holds of the array: as many matching items as it asks for.
Reserved(x, need) == Cardinality(Matching(x, need) \cap x.taken) >= need.least

\* A constraint served: what others hold is left alone, nothing else is given up unless the
\* array is full, and items that were distinct still are.
Served(x, need, most, y) ==
  /\ y \in Arrays /\ ~ y.failed /\ Roled(y)
  /\ Len(x.items) <= Len(y.items) /\ Len(y.items) <= most
  /\ Len(y.items) <= Len(x.items) + need.least
  /\ x.taken \subseteq y.taken
  /\ \A j \in 1..Len(x.items) : j \in x.taken => y.items[j] = x.items[j]
  /\ Len(x.items) + need.least <= most => \A j \in 1..Len(x.items) : y.items[j] = x.items[j]
  /\ x.taken \subseteq 1..Len(x.items) =>
       /\ y.taken \subseteq 1..Len(y.items)
       /\ Cardinality(y.taken) <= Cardinality(x.taken) + need.least
  /\ Reserved(y, need)
  /\ (need.least = 1 /\ IsInjective(x.items)) => IsInjective(y.items)

\* A constraint that finds its witnesses there only holds them.
LEMMA ServedAlready ==
  ASSUME NEW x \in Arrays, NEW need \in NeedSet, NEW most \in Nat, Lacking(x, need) = 0
  PROVE  LET y == ServeNeed(x, need, most) IN
         /\ y \in Arrays /\ y.items = x.items /\ y.failed = x.failed /\ x.taken \subseteq y.taken
         /\ Reserved(y, need)
         /\ x.taken \subseteq 1..Len(x.items) =>
              /\ y.taken \subseteq 1..Len(y.items)
              /\ Cardinality(y.taken) <= Cardinality(x.taken) + need.least
<1> DEFINE y == ServeNeed(x, need, most)
           M == Matching(x, need)
           F == FirstOf(M, need.least)
           T == x.taken
<1>1. y = KeepMatching(x, need)
  BY ServeSteps
<1> HIDE DEF y
<1>2. y \in Arrays /\ y.items = x.items /\ y.failed = x.failed /\ y.taken = T \cup F
  BY <1>1, Kept
<1>3. /\ M \subseteq 1..Len(x.items) /\ M \subseteq Nat /\ IsFiniteSet(M) /\ Cardinality(M) \in Nat
      /\ need.least \in 1..2 /\ ~(Cardinality(M) < need.least)
  <2>1. Cardinality(M) >= need.least
    BY MatchingFacts
  <2> QED BY <2>1, MatchingFacts
<1>4. /\ F \subseteq M /\ IsFiniteSet(F) /\ Cardinality(F) = need.least
  BY <1>3, FirstFew
<1>5. Matching(y, need) = M
  BY <1>2 DEF Matching
<1> HIDE DEF M, F, T
<1>6. Reserved(y, need)
  <2>1. F \subseteq M \cap (T \cup F) /\ M \cap (T \cup F) \subseteq M
    BY <1>4
  <2>2. IsFiniteSet(M \cap (T \cup F))
    BY <1>3, <2>1, FS_Subset
  <2>3. Cardinality(F) <= Cardinality(M \cap (T \cup F))
    BY <2>1, <2>2, FS_Subset
  <2>4. Cardinality(M \cap (T \cup F)) >= need.least
    BY <1>3, <1>4, <2>2, <2>3, FS_CardinalityType
  <2> QED BY <1>2, <1>5, <2>4 DEF Reserved
<1>7. ASSUME T \subseteq 1..Len(x.items)
      PROVE  T \cup F \subseteq 1..Len(x.items) /\ Cardinality(T \cup F) <= Cardinality(T) + need.least
  <2>1. IsFiniteSet(T)
    BY <1>7, ArrayFacts, FS_Subset
  <2>2. /\ IsFiniteSet(T \cup F)
        /\ Cardinality(T \cup F) = Cardinality(T) + Cardinality(F) - Cardinality(T \cap F)
    BY <1>4, <2>1, FS_Union
  <2>3. IsFiniteSet(T \cap F)
    BY <2>1, FS_Subset
  <2>4. Cardinality(T) \in Nat /\ Cardinality(T \cap F) \in Nat
    BY <2>1, <2>3, FS_CardinalityType
  <2>5. T \cup F \subseteq 1..Len(x.items)
    BY <1>3, <1>4, <1>7
  <2> QED BY <1>3, <1>4, <2>2, <2>4, <2>5
<1> QED BY <1>2, <1>6, <1>7 DEF y, T

LEMMA NeedServed ==
  ASSUME NEW x \in Arrays, NEW need \in NeedSet, NEW most \in Nat,
         ~ x.failed, Len(x.items) <= most, Roled(x), Room(x, need, most)
  PROVE  Served(x, need, most, ServeNeed(x, need, most))
<1> DEFINE y == ServeNeed(x, need, most)
           L == Lacking(x, need)
           M == Matching(x, need)
<1>1. L \in Nat /\ need.least \in 1..2 /\ Len(x.items) \in Nat /\ Cardinality(M) \in Nat
  BY MatchingFacts, ArrayFacts
<1>2. CASE L = 0
  <2>1. /\ y \in Arrays /\ y.items = x.items /\ y.failed = x.failed /\ x.taken \subseteq y.taken
        /\ Reserved(y, need)
        /\ x.taken \subseteq 1..Len(x.items) =>
              /\ y.taken \subseteq 1..Len(y.items)
              /\ Cardinality(y.taken) <= Cardinality(x.taken) + need.least
    BY <1>2, ServedAlready
  <2> HIDE DEF y
  <2>2. Roled(y)
    BY <2>1 DEF Roled
  <2>3. Len(x.items) <= Len(y.items) /\ Len(y.items) <= most /\ Len(y.items) <= Len(x.items) + need.least
    BY <1>1, <2>1
  <2> QED BY <2>1, <2>2, <2>3 DEF Served, y
<1>3. CASE L > 0
  <2>1. PICK g : /\ y = g[L] /\ g[0] = KeepMatching(x, need)
                 /\ \A i \in 1..L : g[i] = AddWitness(g[i - 1], need, most)
    BY ServeSteps
  <2>2. L = need.least - Cardinality(M) /\ Cardinality(M) + L = need.least
    BY <1>1, <1>3, MatchingFacts
  <2> HIDE DEF y
  <2> DEFINE T == {i \in 0..L : Serving(x, need, most, g[i], i)}
  <2>3. 0 \in T
    BY <1>1, <1>3, <2>1, ServingStarts
  <2>4. ASSUME NEW i \in 1..L, i - 1 \in T PROVE i \in T
    <3>1. i - 1 \in Nat /\ Cardinality(M) + (i - 1) < need.least /\ (i - 1) + 1 = i
      <4> HIDE DEF L, M
      <4> QED BY <1>1, <2>2
    <3>2. Serving(x, need, most, g[i - 1], i - 1)
      BY <2>4
    <3>3. Len(g[i - 1].items) < most \/ Replaceable(g[i - 1], need) # {}
      BY <3>1, <3>2, StillRoom
    <3>4. Serving(x, need, most, AddWitness(g[i - 1], need, most), (i - 1) + 1)
      BY <3>1, <3>2, <3>3, ServingStep
    <3> QED BY <2>1, <3>1, <3>4
  <2>5. Serving(x, need, most, y, L)
    <3>1. \A i \in 0..L : i \in T
      <4> HIDE DEF T, L
      <4> QED BY <1>1, <2>3, <2>4, Climbing
    <3>2. L \in 0..L
      BY <1>1
    <3> QED BY <2>1, <3>1, <3>2
  <2> HIDE DEF T
  <2>6. /\ y \in Arrays /\ ~ y.failed /\ Roled(y)
        /\ Len(x.items) <= Len(y.items) /\ Len(y.items) <= most /\ Len(y.items) <= Len(x.items) + L
        /\ x.taken \subseteq y.taken /\ Matching(y, need) \subseteq y.taken
        /\ Cardinality(Matching(y, need)) = Cardinality(M) + L
        /\ \A j \in 1..Len(x.items) : j \in x.taken => y.items[j] = x.items[j]
        /\ \A j \in 1..Len(y.items) :
             \/ y.items[j] = need.role
             \/ (j \in 1..Len(x.items) /\ y.items[j] = x.items[j])
    BY <2>5 DEF Serving
  <2> DEFINE a == Len(x.items)
             b == Len(y.items)
  <2>7. a \in Nat /\ b \in Nat /\ DOMAIN y.items = 1..b /\ DOMAIN x.items = 1..a
    BY <2>6, ArrayFacts
  <2>8. b <= a + need.least
    <3>1. b <= a + L
      BY <2>6
    <3> HIDE DEF a, b, L, M
    <3> QED BY <1>1, <2>2, <2>7, <3>1
  <2>9. a + need.least <= most => \A j \in 1..a : y.items[j] = x.items[j]
    <3> SUFFICES ASSUME a + need.least <= most PROVE \A j \in 1..a : y.items[j] = x.items[j]
      OBVIOUS
    <3>1. a + L <= most
      <4> HIDE DEF a, b, L, M
      <4> QED BY <1>1, <2>2, <2>7
    <3> QED BY <2>5, <3>1 DEF Serving
  <2>10. x.taken \subseteq 1..a =>
           y.taken \subseteq 1..b /\ Cardinality(y.taken) <= Cardinality(x.taken) + need.least
    <3> SUFFICES ASSUME x.taken \subseteq 1..a
                 PROVE  y.taken \subseteq 1..b /\ Cardinality(y.taken) <= Cardinality(x.taken) + need.least
      OBVIOUS
    <3>1. /\ y.taken \subseteq 1..b /\ IsFiniteSet(y.taken)
          /\ Cardinality(y.taken) <= Cardinality(x.taken) + Cardinality(M) + L
      BY <2>5 DEF Serving
    <3>2. IsFiniteSet(x.taken)
      BY ArrayFacts, FS_Subset
    <3>3. Cardinality(x.taken) \in Nat /\ Cardinality(y.taken) \in Nat
      BY <3>1, <3>2, FS_CardinalityType
    <3> HIDE DEF a, b, L, M
    <3> QED BY <1>1, <2>2, <3>1, <3>3
  <2>11. Reserved(y, need)
    <3>1. Matching(y, need) \cap y.taken = Matching(y, need)
      BY <2>6
    <3>2. Cardinality(Matching(y, need)) = need.least
      BY <2>2, <2>6
    <3>3. Cardinality(Matching(y, need) \cap y.taken) = need.least
      BY <3>1, <3>2, Zenon
    <3>4. need.least >= need.least
      BY <1>1
    <3> QED BY <3>3, <3>4, Zenon DEF Reserved
  <2>12. (need.least = 1 /\ IsInjective(x.items)) => IsInjective(y.items)
    <3> SUFFICES ASSUME need.least = 1, IsInjective(x.items), NEW j \in 1..b, NEW k \in 1..b,
                        y.items[j] = y.items[k]
                 PROVE  j = k
      BY <2>7, Zenon DEF IsInjective
    <3>1. CASE y.items[j] = need.role
      <4>0. Matching(y, need) = {e \in 1..b : y.items[e] = need.role}
        BY <2>6, MatchingFacts
      <4>1. j \in Matching(y, need) /\ k \in Matching(y, need)
        BY <3>1, <4>0
      <4>2. /\ IsFiniteSet(Matching(y, need)) /\ Cardinality(Matching(y, need)) = 1
        BY <2>2, <2>6, MatchingFacts
      <4>3. PICK e : Matching(y, need) = {e}
        BY <4>2, FS_Singleton
      <4> QED BY <4>1, <4>3
    <3>2. CASE y.items[j] # need.role
      <4>1. j \in 1..a /\ k \in 1..a /\ y.items[j] = x.items[j] /\ y.items[k] = x.items[k]
        BY <2>6, <3>2
      <4>2. x.items[j] = x.items[k] => j = k
        BY <2>7, <4>1, Zenon DEF IsInjective
      <4> QED BY <4>1, <4>2
    <3> QED BY <3>1, <3>2
  <2> QED BY <2>6, <2>8, <2>9, <2>10, <2>11, <2>12 DEF Served, y
<1> QED BY <1>1, <1>2, <1>3

LEMMA ReservedHolds ==
  ASSUME NEW x \in Arrays, NEW need \in NeedSet, Reserved(x, need)
  PROVE  Cardinality(Matching(x, need)) >= need.least /\ Lacking(x, need) = 0
<1> DEFINE M == Matching(x, need)
<1>1. IsFiniteSet(M) /\ Cardinality(M) \in Nat /\ need.least \in 1..2
  BY MatchingFacts
<1>2. M \cap x.taken \subseteq M
  OBVIOUS
<1>3. IsFiniteSet(M \cap x.taken) /\ Cardinality(M \cap x.taken) <= Cardinality(M)
  BY <1>1, <1>2, FS_Subset
<1>4. Cardinality(M \cap x.taken) \in Nat
  BY <1>3, FS_CardinalityType
<1>5. Cardinality(M \cap x.taken) >= need.least
  BY DEF Reserved
<1> HIDE DEF M
<1>6. Cardinality(M) >= need.least
  BY <1>1, <1>3, <1>4, <1>5
<1> QED BY <1>6, MatchingFacts DEF M

\* What one constraint holds it keeps when another is served.
LEMMA ReservedStays ==
  ASSUME NEW x \in Arrays, NEW need \in NeedSet, NEW most \in Nat, NEW y, Served(x, need, most, y),
         NEW other \in NeedSet, Reserved(x, other)
  PROVE  Reserved(y, other)
<1> DEFINE A == Matching(x, other) \cap x.taken
           B == Matching(y, other) \cap y.taken
<1>1. /\ y \in Arrays /\ Len(x.items) <= Len(y.items) /\ x.taken \subseteq y.taken
      /\ \A j \in 1..Len(x.items) : j \in x.taken => y.items[j] = x.items[j]
  BY DEF Served
<1>2. /\ Matching(x, other) = {i \in 1..Len(x.items) : x.items[i] = other.role}
      /\ Matching(y, other) = {i \in 1..Len(y.items) : y.items[i] = other.role}
      /\ IsFiniteSet(Matching(x, other)) /\ IsFiniteSet(Matching(y, other))
      /\ other.least \in 1..2
  BY <1>1, MatchingFacts
<1>3. Len(x.items) \in Nat /\ Len(y.items) \in Nat
  BY <1>1, ArrayFacts
<1>4. \A j \in 1..Len(x.items) : j \in 1..Len(y.items)
  BY <1>1, <1>3
<1>5. A \subseteq B
  BY <1>1, <1>2, <1>4
<1>6. IsFiniteSet(A) /\ IsFiniteSet(B)
  <2>1. A \subseteq Matching(x, other) /\ B \subseteq Matching(y, other)
    OBVIOUS
  <2> QED BY <1>2, <2>1, FS_Subset
<1>7. Cardinality(A) \in Nat /\ Cardinality(B) \in Nat /\ Cardinality(A) <= Cardinality(B)
  BY <1>5, <1>6, FS_Subset, FS_CardinalityType
<1>8. Cardinality(A) >= other.least
  BY DEF Reserved
<1> HIDE DEF A, B
<1>9. Cardinality(B) >= other.least
  BY <1>2, <1>7, <1>8
<1> QED BY <1>9 DEF Reserved, B

\* Appending takes nothing from what matches.
LEMMA MatchingStays ==
  ASSUME NEW x \in Arrays, NEW y \in Arrays, NEW other \in NeedSet, Len(x.items) <= Len(y.items),
         \A j \in 1..Len(x.items) : y.items[j] = x.items[j],
         Cardinality(Matching(x, other)) >= other.least
  PROVE  Cardinality(Matching(y, other)) >= other.least
<1> DEFINE A == Matching(x, other)
           B == Matching(y, other)
<1>1. /\ A = {i \in 1..Len(x.items) : x.items[i] = other.role}
      /\ B = {i \in 1..Len(y.items) : y.items[i] = other.role}
      /\ IsFiniteSet(A) /\ IsFiniteSet(B) /\ Cardinality(A) \in Nat /\ Cardinality(B) \in Nat
      /\ other.least \in 1..2
  BY MatchingFacts
<1>2. Len(x.items) \in Nat /\ Len(y.items) \in Nat
  BY ArrayFacts
<1>3. \A j \in 1..Len(x.items) : j \in 1..Len(y.items)
  BY <1>2
<1>4. A \subseteq B
  BY <1>1, <1>3
<1>5. Cardinality(A) <= Cardinality(B)
  BY <1>1, <1>4, FS_Subset
<1> HIDE DEF A, B
<1>6. Cardinality(B) >= other.least
  BY <1>1, <1>5 DEF A
<1> QED BY <1>6 DEF B

Single(needs) == \A k \in 1..Len(needs) : needs[k].least = 1

\* An array's own constraints are met together, in any order, if it can hold what they ask for.
LEMMA OwnServed ==
  ASSUME NEW x \in Arrays, NEW needs \in Seq(NeedSet), NEW most \in Nat,
         ~ x.failed, Len(x.items) <= most, Roled(x), x.taken = {}, Demand(needs) <= most
  PROVE  LET y == MergeArraySample(x, needs, most) IN
         /\ y \in Arrays /\ ~ y.failed /\ Roled(y)
         /\ Len(x.items) <= Len(y.items) /\ Len(y.items) <= most
         /\ Len(y.items) <= Len(x.items) + Demand(needs)
         /\ \A k \in 1..Len(needs) : Lacking(y, needs[k]) = 0
         /\ (Single(needs) /\ IsInjective(x.items)) => IsInjective(y.items)
<1> DEFINE n == Len(needs)
           y == MergeArraySample(x, needs, most)
<1>1. n \in Nat /\ (\A k \in 1..n : needs[k] \in NeedSet) /\ Len(x.items) \in Nat
  BY ArrayFacts
<1>2. PICK h : /\ y = h[n] /\ h[0] = x
               /\ \A i \in 0..n : h[i] \in Arrays
               /\ \A i \in 1..n : h[i] = ServeNeed(h[i - 1], needs[i], most)
  BY MergeSteps
<1>3. PICK d : /\ Demand(needs) = d[n] /\ d[0] = 0
               /\ \A i \in 0..n : d[i] \in Nat
               /\ \A i \in 1..n : d[i] = d[i - 1] + needs[i].least
  BY DemandSteps
<1> HIDE DEF y, n
<1> DEFINE Good(z, e, i) ==
             /\ ~ z.failed /\ Roled(z)
             /\ Len(x.items) <= Len(z.items) /\ Len(z.items) <= most
             /\ Len(z.items) <= Len(x.items) + e
             /\ z.taken \subseteq 1..Len(z.items) /\ Cardinality(z.taken) <= e
             /\ \A k \in 1..i : Reserved(z, needs[k])
             /\ (Single(needs) /\ IsInjective(x.items)) => IsInjective(z.items)
           T == {i \in 0..n : d[i] <= most => Good(h[i], d[i], i)}
<1>4. 0 \in T
  <2>1. x.taken \subseteq 1..Len(x.items) /\ Cardinality(x.taken) <= 0
    BY FS_EmptySet
  <2>2. Len(x.items) <= Len(x.items) + 0 /\ Len(x.items) <= Len(x.items)
    BY <1>1
  <2>3. Good(x, 0, 0)
    BY <2>1, <2>2
  <2> HIDE DEF Good
  <2>4. Good(h[0], d[0], 0) /\ 0 \in 0..n
    BY <1>1, <1>2, <1>3, <2>3
  <2> QED BY <2>4
<1>5. ASSUME NEW i \in 1..n, i - 1 \in T PROVE i \in T
  <2> DEFINE z == h[i - 1]
             w == h[i]
             e == d[i - 1]
             l == needs[i].least
  <2>1. i \in 0..n /\ i - 1 \in 0..n /\ i \in Nat /\ needs[i] \in NeedSet /\ l \in 1..2
    BY <1>1 DEF NeedSet
  <2>2. z \in Arrays /\ w \in Arrays /\ e \in Nat /\ d[i] = e + l
    BY <1>2, <1>3, <2>1
  <2>3. SUFFICES ASSUME d[i] <= most PROVE Good(w, d[i], i)
    BY <2>1
  <2>4. e <= most /\ e + l <= most
    <3> HIDE DEF e, l
    <3> QED BY <2>1, <2>2, <2>3
  <2>5. Good(z, e, i - 1)
    BY <1>5, <2>4
  <2>6. /\ ~ z.failed /\ Roled(z) /\ Len(z.items) <= most
        /\ z.taken \subseteq 1..Len(z.items) /\ Cardinality(z.taken) <= e
        /\ Len(x.items) <= Len(z.items) /\ Len(z.items) <= Len(x.items) + e
        /\ \A k \in 1..(i - 1) : Reserved(z, needs[k])
        /\ (Single(needs) /\ IsInjective(x.items)) => IsInjective(z.items)
    BY <2>5
  <2>7. Len(z.items) \in Nat /\ Len(w.items) \in Nat /\ Cardinality(z.taken) \in Nat
    <3>1. IsFiniteSet(z.taken)
      BY <2>2, <2>6, ArrayFacts, FS_Subset
    <3> QED BY <2>2, <3>1, ArrayFacts, FS_CardinalityType
  <2>8. Room(z, needs[i], most)
    <3>1. Cardinality(z.taken) + l <= most
      <4> HIDE DEF z, e, l
      <4> QED BY <2>1, <2>2, <2>4, <2>6, <2>7
    <3> QED BY <2>6, <3>1 DEF Room
  <2>9. Served(z, needs[i], most, w)
    <3>1. Served(z, needs[i], most, ServeNeed(z, needs[i], most))
      BY <2>1, <2>2, <2>6, <2>8, NeedServed
    <3> QED BY <1>2, <3>1
  <2>10. /\ ~ w.failed /\ Roled(w) /\ Len(z.items) <= Len(w.items) /\ Len(w.items) <= most
         /\ Len(w.items) <= Len(z.items) + l
         /\ w.taken \subseteq 1..Len(w.items) /\ Cardinality(w.taken) <= Cardinality(z.taken) + l
         /\ Reserved(w, needs[i])
         /\ (l = 1 /\ IsInjective(z.items)) => IsInjective(w.items)
    BY <2>6, <2>9 DEF Served
  <2>11. Cardinality(w.taken) \in Nat
    <3>1. IsFiniteSet(w.taken)
      BY <2>2, <2>10, ArrayFacts, FS_Subset
    <3> QED BY <3>1, FS_CardinalityType
  <2>12. \A k \in 1..i : Reserved(w, needs[k])
    <3> SUFFICES ASSUME NEW k \in 1..i PROVE Reserved(w, needs[k])
      OBVIOUS
    <3>1. k = i \/ (k \in 1..(i - 1) /\ k \in 1..n)
      BY <1>1, <2>1
    <3>2. CASE k \in 1..(i - 1) /\ k \in 1..n
      <4>1. Reserved(z, needs[k]) /\ needs[k] \in NeedSet
        BY <1>1, <2>6, <3>2
      <4> HIDE DEF z, w
      <4> QED BY <2>1, <2>2, <2>9, <4>1, ReservedStays
    <3> QED BY <2>10, <3>1, <3>2
  <2>13. (Single(needs) /\ IsInjective(x.items)) => IsInjective(w.items)
    <3>1. Single(needs) => l = 1
      BY DEF Single, n
    <3> QED BY <2>6, <2>10, <3>1
  <2>14. /\ Len(x.items) <= Len(w.items) /\ Len(w.items) <= Len(x.items) + d[i]
         /\ Cardinality(w.taken) <= d[i]
    <3> DEFINE a == Len(x.items)
               b == Len(z.items)
               c == Len(w.items)
    <3>1. /\ a \in Nat /\ b \in Nat /\ c \in Nat /\ a <= b /\ b <= a + e /\ b <= c /\ c <= b + l
          /\ d[i] = e + l
      BY <1>1, <2>2, <2>6, <2>7, <2>10
    <3> HIDE DEF a, b, c, e, l
    <3>2. a <= c /\ c <= a + d[i]
      BY <2>1, <2>2, <3>1
    <3>3. Cardinality(w.taken) <= d[i]
      <4> HIDE DEF z, w
      <4> QED BY <2>1, <2>2, <2>6, <2>7, <2>10, <2>11
    <3> QED BY <3>2, <3>3 DEF a, c
  <2> QED BY <2>10, <2>12, <2>13, <2>14
<1>6. Good(y, d[n], n)
  <2>1. \A i \in 0..n : i \in T
    <3> HIDE DEF T
    <3> QED BY <1>1, <1>4, <1>5, Climbing
  <2>2. n \in T
    BY <1>1, <2>1
  <2> QED BY <1>2, <1>3, <2>2
<1>7. y \in Arrays
  BY <1>1, <1>2
<1>8. \A k \in 1..n : Lacking(y, needs[k]) = 0
  BY <1>1, <1>6, <1>7, ReservedHolds
<1> QED BY <1>3, <1>6, <1>7, <1>8 DEF y, n

\* Constraints that are met already change no item.
LEMMA ServedAgain ==
  ASSUME NEW x \in Arrays, NEW needs \in Seq(NeedSet), NEW most \in Nat, ~ x.failed,
         \A k \in 1..Len(needs) : Lacking(x, needs[k]) = 0
  PROVE  LET y == MergeArraySample(x, needs, most) IN
         y \in Arrays /\ ~ y.failed /\ y.items = x.items
<1> DEFINE n == Len(needs)
           y == MergeArraySample(x, needs, most)
<1>1. n \in Nat /\ (\A k \in 1..n : needs[k] \in NeedSet)
  OBVIOUS
<1>2. PICK h : /\ y = h[n] /\ h[0] = x
               /\ \A i \in 0..n : h[i] \in Arrays
               /\ \A i \in 1..n : h[i] = ServeNeed(h[i - 1], needs[i], most)
  BY MergeSteps
<1> HIDE DEF y
<1> DEFINE T == {i \in 0..n : ~ h[i].failed /\ h[i].items = x.items}
<1>3. 0 \in T
  BY <1>1, <1>2
<1>4. ASSUME NEW i \in 1..n, i - 1 \in T PROVE i \in T
  <2> DEFINE z == h[i - 1]
  <2>1. z \in Arrays /\ ~ z.failed /\ z.items = x.items /\ needs[i] \in NeedSet
    <3>1. i - 1 \in 0..n
      BY <1>1
    <3> QED BY <1>1, <1>2, <1>4, <3>1
  <2>2. h[i] = ServeNeed(z, needs[i], most)
    BY <1>2
  <2> HIDE DEF z
  <2>3. Lacking(z, needs[i]) = 0
    <3>1. Lacking(x, needs[i]) = 0
      BY <1>4
    <3> QED BY <2>1, <3>1 DEF Lacking, Matching
  <2>4. ~ h[i].failed /\ h[i].items = x.items
    BY <2>1, <2>2, <2>3, ServedAlready
  <2> QED BY <1>1, <2>4
<1>5. \A i \in 0..n : i \in T
  <2> HIDE DEF T, n
  <2> QED BY <1>1, <1>3, <1>4, Climbing
<1>6. n \in 0..n
  BY <1>1
<1> QED BY <1>2, <1>5, <1>6 DEF y

\* Constraints for all of whose witnesses there is room are met by appending.
LEMMA BranchServed ==
  ASSUME NEW x \in Arrays, NEW needs \in Seq(NeedSet), NEW most \in Nat,
         ~ x.failed, Roled(x), Len(x.items) + Demand(needs) <= most
  PROVE  LET y == MergeArraySample(x, needs, most) IN
         /\ y \in Arrays /\ ~ y.failed /\ Roled(y)
         /\ Len(x.items) <= Len(y.items) /\ Len(y.items) <= Len(x.items) + Demand(needs)
         /\ \A j \in 1..Len(x.items) : y.items[j] = x.items[j]
         /\ \A k \in 1..Len(needs) : Cardinality(Matching(y, needs[k])) >= needs[k].least
         /\ (Single(needs) /\ IsInjective(x.items)) => IsInjective(y.items)
<1> DEFINE n == Len(needs)
           y == MergeArraySample(x, needs, most)
<1>1. n \in Nat /\ (\A k \in 1..n : needs[k] \in NeedSet) /\ Len(x.items) \in Nat
  BY ArrayFacts
<1>2. PICK h : /\ y = h[n] /\ h[0] = x
               /\ \A i \in 0..n : h[i] \in Arrays
               /\ \A i \in 1..n : h[i] = ServeNeed(h[i - 1], needs[i], most)
  BY MergeSteps
<1>3. PICK d : /\ Demand(needs) = d[n] /\ d[0] = 0
               /\ \A i \in 0..n : d[i] \in Nat
               /\ \A i \in 1..n : d[i] = d[i - 1] + needs[i].least
  BY DemandSteps
<1> HIDE DEF y, n
<1> DEFINE Good(z, e, i) ==
             /\ ~ z.failed /\ Roled(z)
             /\ Len(x.items) <= Len(z.items) /\ Len(z.items) <= Len(x.items) + e
             /\ \A j \in 1..Len(x.items) : z.items[j] = x.items[j]
             /\ \A k \in 1..i : Cardinality(Matching(z, needs[k])) >= needs[k].least
             /\ (Single(needs) /\ IsInjective(x.items)) => IsInjective(z.items)
           T == {i \in 0..n : Len(x.items) + d[i] <= most => Good(h[i], d[i], i)}
<1>4. 0 \in T
  <2>1. Len(x.items) <= Len(x.items) + 0 /\ Len(x.items) <= Len(x.items)
    BY <1>1
  <2>2. Good(x, 0, 0)
    BY <2>1
  <2> QED BY <1>1, <1>2, <1>3, <2>2
<1>5. ASSUME NEW i \in 1..n, i - 1 \in T PROVE i \in T
  <2> DEFINE z == h[i - 1]
             w == h[i]
             e == d[i - 1]
             l == needs[i].least
             a == Len(x.items)
  <2>1. i \in 0..n /\ i - 1 \in 0..n /\ i \in Nat /\ needs[i] \in NeedSet /\ l \in 1..2
    BY <1>1 DEF NeedSet
  <2>2. z \in Arrays /\ w \in Arrays /\ e \in Nat /\ d[i] = e + l
    BY <1>2, <1>3, <2>1
  <2>3. SUFFICES ASSUME a + d[i] <= most PROVE Good(w, d[i], i)
    BY <2>1
  <2>4. a + e <= most /\ a + e + l <= most
    <3>1. a \in Nat /\ a + d[i] <= most /\ d[i] = e + l
      BY <1>1, <2>2, <2>3
    <3> HIDE DEF e, l, a
    <3> QED BY <2>1, <2>2, <3>1
  <2>5. Good(z, e, i - 1)
    BY <1>5, <2>4
  <2>6. /\ ~ z.failed /\ Roled(z)
        /\ a <= Len(z.items) /\ Len(z.items) <= a + e
        /\ \A j \in 1..a : z.items[j] = x.items[j]
        /\ \A k \in 1..(i - 1) : Cardinality(Matching(z, needs[k])) >= needs[k].least
        /\ (Single(needs) /\ IsInjective(x.items)) => IsInjective(z.items)
    BY <2>5
  <2>7. Len(z.items) \in Nat /\ Len(w.items) \in Nat /\ a \in Nat
    BY <1>1, <2>2, ArrayFacts
  <2>8. Len(z.items) <= most /\ Len(z.items) + l <= most
    <3> DEFINE b == Len(z.items)
    <3>1. b \in Nat /\ b <= a + e
      BY <2>6, <2>7
    <3> HIDE DEF a, b, e, l
    <3>2. b <= most /\ b + l <= most
      BY <2>1, <2>2, <2>4, <2>7, <3>1
    <3> QED BY <3>2 DEF b
  <2>9. Served(z, needs[i], most, w)
    <3>1. Room(z, needs[i], most)
      BY <2>8 DEF Room
    <3>2. Served(z, needs[i], most, ServeNeed(z, needs[i], most))
      BY <2>1, <2>2, <2>6, <2>8, <3>1, NeedServed
    <3> QED BY <1>2, <3>2
  <2>10. /\ ~ w.failed /\ Roled(w) /\ Len(z.items) <= Len(w.items)
         /\ Len(w.items) <= Len(z.items) + l
         /\ \A j \in 1..Len(z.items) : w.items[j] = z.items[j]
         /\ Reserved(w, needs[i])
         /\ (l = 1 /\ IsInjective(z.items)) => IsInjective(w.items)
    BY <2>8, <2>9 DEF Served
  <2>11. \A k \in 1..i : Cardinality(Matching(w, needs[k])) >= needs[k].least
    <3> SUFFICES ASSUME NEW k \in 1..i PROVE Cardinality(Matching(w, needs[k])) >= needs[k].least
      OBVIOUS
    <3>1. k = i \/ (k \in 1..(i - 1) /\ k \in 1..n)
      BY <1>1, <2>1
    <3>2. CASE k \in 1..(i - 1) /\ k \in 1..n
      <4>1. Cardinality(Matching(z, needs[k])) >= needs[k].least /\ needs[k] \in NeedSet
        BY <1>1, <2>6, <3>2
      <4> HIDE DEF z, w
      <4> QED BY <2>2, <2>10, <4>1, MatchingStays
    <3>3. CASE k = i
      BY <2>1, <2>2, <2>10, <3>3, ReservedHolds
    <3> QED BY <3>1, <3>2, <3>3
  <2>12. (Single(needs) /\ IsInjective(x.items)) => IsInjective(w.items)
    <3>1. Single(needs) => l = 1
      BY DEF Single, n
    <3> QED BY <2>6, <2>10, <3>1
  <2>13. a <= Len(w.items) /\ Len(w.items) <= a + d[i]
    <3> HIDE DEF z, w, e, l, a
    <3> QED BY <2>1, <2>2, <2>6, <2>7, <2>10
  <2>14. \A j \in 1..a : w.items[j] = x.items[j]
    <3>1. \A j \in 1..a : j \in 1..Len(z.items)
      BY <2>6, <2>7
    <3> QED BY <2>6, <2>10, <3>1
  <2> QED BY <2>10, <2>11, <2>12, <2>13, <2>14
<1>6. Good(y, d[n], n)
  <2>1. \A i \in 0..n : i \in T
    <3> HIDE DEF T
    <3> QED BY <1>1, <1>4, <1>5, Climbing
  <2>2. n \in T
    BY <1>1, <2>1
  <2> QED BY <1>2, <1>3, <2>2
<1>7. y \in Arrays
  BY <1>1, <1>2
<1> QED BY <1>3, <1>6, <1>7 DEF y, n

-----------------------------------------------------------------------------
\* The passes.

ItemShapes == [least : Nat, most : Nat, unique : BOOLEAN]
ItemsMet(items, s) ==
  /\ Len(items) \in s.items.least..s.items.most
  /\ \A i \in DOMAIN items : items[i] \in 1..RoleCount
  /\ s.items.unique => IsInjective(items)
  /\ \A p \in Places : \A i \in DOMAIN s.needs[p] : Holds(s.needs[p][i], items)

\* An array with room for all its constraints, or with none in a branch.
Feasible(s) ==
  /\ Plain(s) /\ Satisfiable(s)
  /\ \/ s.needs["branch"] = <<>>
     \/ s.items.least + Demanded(s) <= s.items.most

LEMMA MatchingHolds ==
  ASSUME NEW x \in Arrays, NEW need, Cardinality(Matching(x, need)) >= need.least
  PROVE  Holds(need, x.items)
BY DEF Matching, Holds

LEMMA FirstSample ==
  ASSUME NEW items \in ItemShapes, items.least <= items.most,
         IF items.unique THEN items.least <= RoleCount ELSE RoleCount >= 1
  PROVE  LET x == Array(BaseItems(items), {}) IN
         /\ x \in Arrays /\ ~ x.failed /\ x.taken = {} /\ Len(x.items) = items.least /\ Roled(x)
         /\ items.unique => IsInjective(x.items)
<1> DEFINE l == items.least
           b == BaseItems(items)
           x == Array(b, {})
<1>1. l \in Nat /\ items.most \in Nat /\ items.unique \in BOOLEAN /\ RoleCount \in Nat
  BY CorpusAssumption DEF ItemShapes
<1>2. b = [i \in 1..l |-> IF items.unique THEN i ELSE 1]
  BY DEF BaseItems, VarySample
<1>3. \A i \in 1..l : b[i] \in 1..RoleCount /\ b[i] \in Nat
  <2> HIDE DEF b, l
  <2>1. CASE items.unique
    BY <1>1, <1>2, <2>1 DEF l
  <2>2. CASE ~ items.unique
    BY <1>1, <1>2, <2>2
  <2> QED BY <2>1, <2>2
<1>4. b \in Seq(Nat) /\ Len(b) = l /\ DOMAIN b = 1..l
  <2> HIDE DEF b, l
  <2>1. b \in [1..l -> Nat]
    BY <1>2, <1>3
  <2> QED BY <1>1, <2>1
<1>5. x.items = b /\ x.taken = {} /\ ~ x.failed
  BY DEF Array
<1>6. x \in Arrays
  BY <1>4 DEF Array, Arrays
<1>7. items.unique => IsInjective(b)
  <2> SUFFICES ASSUME items.unique PROVE IsInjective(b)
    OBVIOUS
  <2> HIDE DEF b, l
  <2>1. \A i, j \in DOMAIN b : b[i] = b[j] => i = j
    BY <1>2, <1>4
  <2> QED BY <2>1, Zenon DEF IsInjective
<1> HIDE DEF x, b
<1>8. Roled(x)
  BY <1>3, <1>4, <1>5 DEF Roled
<1> QED BY <1>4, <1>5, <1>6, <1>7, <1>8 DEF x, b

\* The array of a pass, whatever positions an earlier list at its address has reserved.
LEMMA PassItems ==
  ASSUME NEW s, s.items \in ItemShapes, s.needs \in [Places -> Seq(NeedSet)],
         NEW w \in SUBSET Nat, Feasible(s)
  PROVE  LET sampled == SampleArray(s)
             own == MergeOwnConstraints(Array(sampled.items, w), s)
             merged == MergeArraySample(own, s.needs["branch"], s.items.most)
         IN  ~ sampled.failed /\ ~ merged.failed /\ ItemsMet(merged.items, s)
<1> DEFINE most == s.items.most
           least == s.items.least
           unique == s.items.unique
           array == s.needs["array"]
           branch == s.needs["branch"]
           x == Array(BaseItems(s.items), {})
           y == MergeArraySample(x, array, most)
           sampled == SampleArray(s)
           a == Array(sampled.items, w)
           b == MergeArraySample(a, array, most)
           own == MergeOwnConstraints(a, s)
           merged == MergeArraySample(own, branch, most)
<1>1. /\ most \in Nat /\ least \in Nat /\ unique \in BOOLEAN
      /\ array \in Seq(NeedSet) /\ branch \in Seq(NeedSet)
  BY DEF ItemShapes, Places
<1>2. /\ least <= most /\ (IF unique THEN least <= RoleCount ELSE RoleCount >= 1)
      /\ Demand(array) + Demand(branch) <= most
      /\ unique => Single(array) /\ Single(branch)
      /\ branch = <<>> \/ least + (Demand(array) + Demand(branch)) <= most
  <2>1. unique => Single(array) /\ Single(branch)
    BY <1>1 DEF Feasible, Satisfiable, Places, Single
  <2> QED BY <2>1 DEF Feasible, Plain, Satisfiable, Demanded
<1>3. Demand(array) \in Nat /\ Demand(branch) \in Nat
  <2>1. \A needs \in Seq(NeedSet) : Demand(needs) \in Nat
    <3> SUFFICES ASSUME NEW needs \in Seq(NeedSet) PROVE Demand(needs) \in Nat
      OBVIOUS
    <3>1. Len(needs) \in 0..Len(needs)
      OBVIOUS
    <3> QED BY <3>1, DemandSteps
  <2> QED BY <1>1, <2>1
<1>4. Demand(array) <= most
  <2> HIDE DEF array, branch, most
  <2> QED BY <1>1, <1>2, <1>3
<1>5. /\ x \in Arrays /\ ~ x.failed /\ x.taken = {} /\ Len(x.items) = least /\ Roled(x)
      /\ unique => IsInjective(x.items)
  BY <1>2, FirstSample
<1> HIDE DEF x
<1>6. /\ y \in Arrays /\ ~ y.failed /\ Roled(y)
      /\ Len(x.items) <= Len(y.items) /\ Len(y.items) <= most
      /\ Len(y.items) <= Len(x.items) + Demand(array)
      /\ \A k \in 1..Len(array) : Lacking(y, array[k]) = 0
      /\ (Single(array) /\ IsInjective(x.items)) => IsInjective(y.items)
  <2> HIDE DEF array, most
  <2>1. Len(x.items) <= most
    BY <1>2, <1>5
  <2> QED BY <1>1, <1>4, <1>5, <2>1, OwnServed
<1>7. unique => IsInjective(y.items)
  BY <1>2, <1>5, <1>6
<1>8. sampled = [y EXCEPT !.failed = @ \/ (unique /\ ~ IsInjective(y.items))]
  BY DEF SampleArray, MergeOwnConstraints, x
<1> HIDE DEF sampled, y
<1>9. sampled = [items |-> y.items, taken |-> y.taken, failed |-> FALSE]
  BY <1>6, <1>7, <1>8 DEF Arrays
<1>10. sampled.items = y.items /\ ~ sampled.failed
  BY <1>9
<1>11. a \in Arrays /\ ~ a.failed /\ a.items = y.items
  <2>1. y.items \in Seq(Nat)
    BY <1>6 DEF Arrays
  <2> QED BY <1>10, <2>1 DEF Array, Arrays
<1> HIDE DEF a
<1>12. b \in Arrays /\ ~ b.failed /\ b.items = y.items
  <2>1. \A k \in 1..Len(array) : Lacking(a, array[k]) = 0
    BY <1>6, <1>11 DEF Lacking, Matching
  <2> HIDE DEF array, most
  <2>2. b \in Arrays /\ ~ b.failed /\ b.items = a.items
    BY <1>1, <1>11, <2>1, ServedAgain
  <2> QED BY <1>11, <2>2
<1>13. own = [b EXCEPT !.failed = @ \/ (unique /\ ~ IsInjective(b.items))]
  BY DEF MergeOwnConstraints
<1> HIDE DEF b, own
<1>14. own = [items |-> b.items, taken |-> b.taken, failed |-> FALSE]
  BY <1>7, <1>12, <1>13 DEF Arrays
<1>15. own \in Arrays /\ ~ own.failed /\ own.items = y.items
  BY <1>12, <1>14 DEF Arrays
<1>16. Roled(own) /\ (unique => IsInjective(own.items))
  BY <1>6, <1>7, <1>15 DEF Roled
<1>17. \A k \in 1..Len(array) : Cardinality(Matching(own, array[k])) >= array[k].least
  <2> SUFFICES ASSUME NEW k \in 1..Len(array)
               PROVE  Cardinality(Matching(own, array[k])) >= array[k].least
    OBVIOUS
  <2>1. array[k] \in NeedSet /\ Lacking(own, array[k]) = 0
    BY <1>1, <1>6, <1>15 DEF Lacking, Matching
  <2> HIDE DEF array
  <2> QED BY <1>15, <2>1, MatchingFacts
<1>18. Len(y.items) \in Nat /\ least <= Len(y.items) /\ Len(y.items) <= most
       /\ Len(y.items) <= least + Demand(array)
  BY <1>5, <1>6, ArrayFacts
<1>19. /\ merged \in Arrays /\ ~ merged.failed /\ Roled(merged)
       /\ least <= Len(merged.items) /\ Len(merged.items) <= most
       /\ \A k \in 1..Len(array) : Cardinality(Matching(merged, array[k])) >= array[k].least
       /\ \A k \in 1..Len(branch) : Cardinality(Matching(merged, branch[k])) >= branch[k].least
       /\ unique => IsInjective(merged.items)
  <2>1. CASE branch = <<>>
    <3>1. Len(branch) = 0
      BY <2>1
    <3>2. merged = own
      <4>1. PICK g : merged = g[Len(branch)] /\ g[0] = own
        <5> HIDE DEF branch, most
        <5> QED BY <1>1, <1>15, MergeSteps
      <4> QED BY <3>1, <4>1
    <3> HIDE DEF merged, array, branch, most, least, unique
    <3> QED BY <1>15, <1>16, <1>17, <1>18, <3>1, <3>2
  <2>2. CASE least + (Demand(array) + Demand(branch)) <= most
    <3> DEFINE c == Len(own.items)
    <3>1. c \in Nat /\ c + Demand(branch) <= most /\ least <= c
      <4>1. c \in Nat /\ least <= c /\ c <= least + Demand(array)
        BY <1>15, <1>18
      <4> HIDE DEF c, least, most, array, branch
      <4> QED BY <1>1, <1>3, <2>2, <4>1
    <3>2. /\ merged \in Arrays /\ ~ merged.failed /\ Roled(merged)
          /\ Len(own.items) <= Len(merged.items) /\ Len(merged.items) <= Len(own.items) + Demand(branch)
          /\ \A j \in 1..Len(own.items) : merged.items[j] = own.items[j]
          /\ \A k \in 1..Len(branch) : Cardinality(Matching(merged, branch[k])) >= branch[k].least
          /\ (Single(branch) /\ IsInjective(own.items)) => IsInjective(merged.items)
      <4> HIDE DEF branch, most
      <4> QED BY <1>1, <1>15, <1>16, <3>1, BranchServed
    <3> HIDE DEF merged
    <3>3. \A k \in 1..Len(array) : Cardinality(Matching(merged, array[k])) >= array[k].least
      <4> SUFFICES ASSUME NEW k \in 1..Len(array)
                   PROVE  Cardinality(Matching(merged, array[k])) >= array[k].least
        OBVIOUS
      <4>1. array[k] \in NeedSet /\ Cardinality(Matching(own, array[k])) >= array[k].least
        BY <1>1, <1>17
      <4> HIDE DEF array
      <4> QED BY <1>15, <3>2, <4>1, MatchingStays
    <3>4. least <= Len(merged.items) /\ Len(merged.items) <= most
      <4> DEFINE m == Len(merged.items)
      <4>1. m \in Nat /\ c <= m /\ m <= c + Demand(branch)
        BY <3>2, ArrayFacts
      <4> HIDE DEF m, c, least, most, branch
      <4>2. least <= m /\ m <= most
        BY <1>1, <1>3, <3>1, <4>1
      <4> QED BY <4>2 DEF m
    <3>5. unique => IsInjective(merged.items)
      BY <1>2, <1>16, <3>2
    <3> QED BY <3>2, <3>3, <3>4, <3>5
  <2> QED BY <1>2, <2>1, <2>2
<1> HIDE DEF merged
<1>20. ItemsMet(merged.items, s)
  <2>1. Len(merged.items) \in Nat /\ DOMAIN merged.items = 1..Len(merged.items)
    BY <1>19, ArrayFacts
  <2>2. Len(merged.items) \in least..most
    BY <1>1, <1>19, <2>1
  <2>3. \A i \in DOMAIN merged.items : merged.items[i] \in 1..RoleCount
    BY <1>19, <2>1 DEF Roled
  <2>4. \A p \in Places : \A i \in DOMAIN s.needs[p] : Holds(s.needs[p][i], merged.items)
    <3>1. \A i \in DOMAIN array : Holds(array[i], merged.items)
      <4>1. DOMAIN array = 1..Len(array)
        BY <1>1
      <4> HIDE DEF array
      <4> QED BY <1>19, <4>1, MatchingHolds
    <3>2. \A i \in DOMAIN branch : Holds(branch[i], merged.items)
      <4>1. DOMAIN branch = 1..Len(branch)
        BY <1>1
      <4> HIDE DEF branch
      <4> QED BY <1>19, <4>1, MatchingHolds
    <3> QED BY <3>1, <3>2 DEF Places
  <2> QED BY <1>19, <2>2, <2>3, <2>4 DEF ItemsMet
<1> QED BY <1>10, <1>19, <1>20 DEF sampled, merged, own, a, b

LEMMA MergeKeeps ==
  ASSUME NEW x \in Arrays, NEW needs \in Seq(NeedSet), NEW most \in Nat
  PROVE  MergeArraySample(x, needs, most) \in Arrays
<1>1. Len(needs) \in 0..Len(needs)
  OBVIOUS
<1> QED BY <1>1, MergeSteps

LEMMA OwnArrays ==
  ASSUME NEW s, s.items \in ItemShapes, s.needs \in [Places -> Seq(NeedSet)], NEW x \in Arrays
  PROVE  MergeOwnConstraints(x, s) \in Arrays
<1> DEFINE y == MergeArraySample(x, s.needs["array"], s.items.most)
<1>1. y \in Arrays
  <2>1. s.items.most \in Nat /\ s.needs["array"] \in Seq(NeedSet)
    BY DEF ItemShapes, Places
  <2> QED BY <2>1, MergeKeeps
<1>2. MergeOwnConstraints(x, s) = [y EXCEPT !.failed = @ \/ (s.items.unique /\ ~ IsInjective(y.items))]
  BY DEF MergeOwnConstraints
<1> HIDE DEF y
<1>3. (y.failed \/ (s.items.unique /\ ~ IsInjective(y.items))) \in BOOLEAN
  OBVIOUS
<1>4. y.items \in Seq(Nat) /\ y.taken \in SUBSET Nat
  BY <1>1 DEF Arrays
<1>5. MergeOwnConstraints(x, s) =
        [items |-> y.items, taken |-> y.taken,
         failed |-> y.failed \/ (s.items.unique /\ ~ IsInjective(y.items))]
  BY <1>1, <1>2 DEF Arrays
<1> QED BY <1>3, <1>4, <1>5 DEF Arrays

LEMMA SampledArrays ==
  ASSUME NEW s, s.items \in ItemShapes, s.needs \in [Places -> Seq(NeedSet)]
  PROVE  SampleArray(s) \in Arrays
<1> DEFINE b == BaseItems(s.items)
<1>1. b \in Seq(Nat)
  <2>1. b = [i \in 1..s.items.least |-> IF s.items.unique THEN i ELSE 1] /\ s.items.least \in Nat
    BY DEF BaseItems, VarySample, ItemShapes
  <2>2. b \in [1..s.items.least -> Nat]
    BY <2>1
  <2> HIDE DEF b
  <2> QED BY <2>1, <2>2
<1> HIDE DEF b
<1>2. Array(b, {}) \in Arrays
  BY <1>1 DEF Array, Arrays
<1> QED BY <1>2, OwnArrays DEF SampleArray, b

LEMMA RequiredStays ==
  ASSUME NEW cs \in Seq(ConditionSet), NEW p \in Documents, p[1] = 1, Independent(cs)
  PROVE  MergeConditions(p, cs)[1] = 1
BY ConditionsProgress

\* The schemas an author may write.
Schemas ==
  [text : {s.text : s \in Shapes}, items : ItemShapes, closed : {s.closed : s \in Shapes},
   about : {s.about : s \in Shapes}, conditions : Seq(ConditionSet), needs : [Places -> Seq(NeedSet)]]
Settles(s) == Len(s.conditions) <= 3 /\ Independent(s.conditions)

\* What the passes have come to.
Sampled ==
  /\ document.text = SampleString(schema.text)
  /\ Feasible(schema) => ItemsMet(document.items, schema)
  /\ Independent(schema.conditions) =>
       document.properties[1] = 1 /\ Progress(document.properties, schema.conditions, pass)

CorpusInv ==
  /\ schema \in Schemas /\ pass \in Nat /\ pass <= 3
  /\ reservations \in [Addresses -> SUBSET Nat]
  /\ document.properties \in Documents
  /\ pass > 0 => Sampled
  /\ (Feasible(schema) /\ Settles(schema)) => fixture \in {"none", "recorded"}

LEMMA CorpusStarts == CorpusInit => CorpusInv
<1> SUFFICES ASSUME CorpusInit PROVE CorpusInv
  OBVIOUS
<1>1. PICK s \in Shapes :
        schema = [text |-> s.text, items |-> s.items, closed |-> s.closed, about |-> s.about,
                  conditions |-> <<>>, needs |-> [p \in Places |-> <<>>]]
  BY DEF CorpusInit
<1>2. s.items \in ItemShapes
  BY CorpusAssumption DEF ItemShapes
<1>3. <<>> \in Seq(ConditionSet) /\ [p \in Places |-> <<>>] \in [Places -> Seq(NeedSet)]
  OBVIOUS
<1>4. schema \in Schemas
  BY <1>1, <1>2, <1>3 DEF Schemas
<1>5. document.properties \in Documents
  BY DEF CorpusInit, Unsampled, Documents, Unset
<1> QED BY <1>4, <1>5 DEF CorpusInit, CorpusInv

LEMMA ConditionWritten ==
  ASSUME CorpusInv, NEW c \in Conditions, WriteCondition(c)
  PROVE  CorpusInv'
<1>1. /\ schema' = [schema EXCEPT !.conditions = Append(@, c)] /\ pass = 0 /\ fixture = "none"
      /\ UNCHANGED <<pass, document, reservations, fixture>>
  BY DEF WriteCondition, Writing
<1>2. c \in ConditionSet /\ schema \in Schemas
  BY CorpusAssumption DEF ConditionSet, CorpusInv
<1>3. schema' \in Schemas
  <2>1. Append(schema.conditions, c) \in Seq(ConditionSet)
    BY <1>2 DEF Schemas
  <2> QED BY <1>1, <1>2, <2>1 DEF Schemas
<1> QED BY <1>1, <1>3 DEF CorpusInv

LEMMA NeedWritten ==
  ASSUME CorpusInv, NEW p \in Places, NEW n \in NeedSet, WriteNeed(p, n)
  PROVE  CorpusInv'
<1>1. /\ schema' = [schema EXCEPT !.needs[p] = Append(@, n)] /\ pass = 0 /\ fixture = "none"
      /\ UNCHANGED <<pass, document, reservations, fixture>>
  BY DEF WriteNeed, Writing
<1>2. schema \in Schemas
  BY DEF CorpusInv
<1>3. schema' \in Schemas
  <2>1. [schema.needs EXCEPT ![p] = Append(@, n)] \in [Places -> Seq(NeedSet)]
    BY <1>2 DEF Schemas
  <2>2. schema' = [schema EXCEPT !.needs = [schema.needs EXCEPT ![p] = Append(@, n)]]
    BY <1>1
  <2> QED BY <1>2, <2>1, <2>2 DEF Schemas
<1> QED BY <1>1, <1>3 DEF CorpusInv

LEMMA PassMade ==
  ASSUME CorpusInv, NEW next \in Addresses, Pass(next)
  PROVE  CorpusInv'
<1> DEFINE sampled == SampleArray(schema)
           own == MergeOwnConstraints(Array(sampled.items, reservations[next]), schema)
           merged == MergeArraySample(own, schema.needs["branch"], schema.items.most)
           required == [document.properties EXCEPT ![1] = 1]
           cs == schema.conditions
           q == MergeConditions(required, cs)
<1>1. /\ pass < Passes /\ pass' = pass + 1 /\ schema' = schema
      /\ document' = [text |-> SampleString(schema.text), properties |-> q, items |-> merged.items]
      /\ reservations' = [reservations EXCEPT ![next] = merged.taken]
      /\ fixture' = IF SampleString(schema.text) = 0 THEN "no text"
                    ELSE IF sampled.failed \/ merged.failed THEN "no items"
                    ELSE "none"
  BY DEF Pass
<1>2. /\ schema \in Schemas /\ pass \in Nat /\ reservations \in [Addresses -> SUBSET Nat]
      /\ document.properties \in Documents /\ (pass > 0 => Sampled)
  BY DEF CorpusInv
<1>3. schema.items \in ItemShapes /\ schema.needs \in [Places -> Seq(NeedSet)] /\ cs \in Seq(ConditionSet)
  BY <1>2 DEF Schemas
<1>4. reservations[next] \in SUBSET Nat
  BY <1>2
<1>5. Feasible(schema) => ~ sampled.failed /\ ~ merged.failed /\ ItemsMet(merged.items, schema)
  BY <1>3, <1>4, PassItems
<1>6. required \in Documents /\ required[1] = 1
      /\ (document.properties[1] = 1 => required = document.properties)
  <2>1. 1 \in 1..PropertyCount
    BY CorpusAssumption
  <2> QED BY <1>2, <2>1 DEF Documents
<1>7. merged.taken \in SUBSET Nat
  <2>1. sampled \in Arrays
    BY <1>3, SampledArrays
  <2>2. Array(sampled.items, reservations[next]) \in Arrays
    BY <1>4, <2>1 DEF Array, Arrays
  <2>3. own \in Arrays
    BY <1>3, <2>2, OwnArrays
  <2>4. schema.items.most \in Nat /\ schema.needs["branch"] \in Seq(NeedSet)
    BY <1>3 DEF ItemShapes, Places
  <2> HIDE DEF own
  <2>5. merged \in Arrays
    BY <2>3, <2>4, MergeKeeps
  <2> QED BY <2>5 DEF Arrays
<1> HIDE DEF sampled, own, merged, required, cs
<1>8. q \in Documents
  <2>1. PICK g : q = g[Len(cs)] /\ \A i \in 0..Len(cs) : g[i] \in Documents
    BY <1>3, <1>6, ConditionSteps
  <2>2. Len(cs) \in 0..Len(cs)
    BY <1>3
  <2> QED BY <2>1, <2>2
<1>9. Independent(cs) => q[1] = 1
  BY <1>3, <1>6, RequiredStays
<1>10. Independent(cs) => Progress(q, cs, pass + 1)
  <2> SUFFICES ASSUME Independent(cs) PROVE Progress(q, cs, pass + 1)
    OBVIOUS
  <2>1. Progress(required, cs, pass)
    <3>1. CASE pass = 0
      <4>1. Cardinality(Fired(required, cs)) \in Nat
        BY <1>3, FiredFinite
      <4> QED BY <3>1, <4>1 DEF Progress
    <3>2. CASE pass > 0
      BY <1>2, <1>6, <3>2 DEF Sampled, cs
    <3> QED BY <1>2, <3>1, <3>2
  <2> QED BY <1>2, <1>3, <1>6, <2>1, PassProgress
<1> HIDE DEF q
<1>11. reservations' \in [Addresses -> SUBSET Nat]
  BY <1>1, <1>2, <1>7
<1>12. pass' \in Nat /\ pass' <= 3
  <2>1. pass \in Nat /\ pass < 3 /\ pass' = pass + 1
    BY <1>1, <1>2, Zenon DEF Passes
  <2> QED BY <2>1
<1>13. document'.properties \in Documents
       /\ document'.text = SampleString(schema.text) /\ document'.items = merged.items
       /\ document'.properties = q
  BY <1>1, <1>8, <1>9
<1>14. Sampled'
  BY <1>1, <1>5, <1>9, <1>10, <1>13 DEF Sampled, cs
<1>15. Feasible(schema) => fixture' = "none"
  <2>1. Feasible(schema) => SampleString(schema.text) # 0
    BY DEF Feasible, Plain
  <2> QED BY <1>1, <1>5, <2>1, Zenon
<1> QED BY <1>1, <1>2, <1>11, <1>12, <1>13, <1>14, <1>15 DEF CorpusInv

\* What has come through the passes satisfies its schema.
LEMMA FixtureRecorded ==
  ASSUME CorpusInv, RecordFixture
  PROVE  CorpusInv'
<1>1. /\ pass = 3 /\ UNCHANGED <<schema, pass, document, reservations>>
      /\ fixture' = IF ~ SatisfiesSchema(document, schema) THEN "not valid"
                    ELSE IF ~ RefusesUnknownProperty(schema) THEN "not refused"
                    ELSE "recorded"
  BY DEF RecordFixture, Passes
<1>2. schema \in Schemas /\ Sampled
  <2>1. pass = 3
    BY <1>1, Zenon
  <2>2. pass > 0
    BY <2>1
  <2> QED BY <2>2, Zenon DEF CorpusInv
<1>3. ASSUME Feasible(schema), Settles(schema) PROVE fixture' = "recorded"
  <2>1. RefusesUnknownProperty(schema) /\ document.text # 0
    BY <1>2, <1>3 DEF Feasible, Plain, RefusesUnknownProperty, Sampled
  <2>2. schema.conditions \in Seq(ConditionSet)
    BY <1>2 DEF Schemas
  <2>3. Honoured(document.properties, schema.conditions)
    <3>1. Len(schema.conditions) <= pass /\ pass \in Nat
      BY <1>1, <1>3 DEF Settles
    <3>2. Progress(document.properties, schema.conditions, pass)
      BY <1>2, <1>3 DEF Sampled, Settles
    <3> QED BY <2>2, <3>1, <3>2, ProgressEnds
  <2>4. ItemsMet(document.items, schema)
    BY <1>2, <1>3 DEF Sampled
  <2>5. \A i \in DOMAIN schema.conditions :
          ConditionMatches(document.properties, schema.conditions[i]) =>
            document.properties[schema.conditions[i].target] = schema.conditions[i].becomes
    <3>1. DOMAIN schema.conditions = 1..Len(schema.conditions)
      BY <2>2
    <3> QED BY <2>3, <3>1, Zenon DEF Honoured, Fired
  <2>6. SatisfiesSchema(document, schema)
    BY <2>1, <2>4, <2>5, Zenon DEF SatisfiesSchema, ItemsMet
  <2> QED BY <1>1, <2>1, <2>6, Zenon
<1> QED BY <1>1, <1>3 DEF CorpusInv, Sampled

LEMMA CorpusKeeps == CorpusInv /\ [CorpusNext]_corpusVars => CorpusInv'
<1> SUFFICES ASSUME CorpusInv, [CorpusNext]_corpusVars PROVE CorpusInv'
  OBVIOUS
<1>1. CASE \E c \in Conditions : WriteCondition(c)
  BY <1>1, ConditionWritten
<1>2. CASE \E p \in Places, n \in NeedSet : WriteNeed(p, n)
  BY <1>2, NeedWritten
<1>3. CASE \E a \in Addresses : Pass(a)
  BY <1>3, PassMade
<1>4. CASE RecordFixture
  BY <1>4, FixtureRecorded
<1>5. CASE UNCHANGED corpusVars
  BY <1>5 DEF corpusVars, CorpusInv, Sampled
<1> QED BY <1>1, <1>2, <1>3, <1>4, <1>5 DEF CorpusNext

LEMMA CorpusHolds == CorpusSpec => []CorpusInv
BY CorpusStarts, CorpusKeeps, PTL DEF CorpusSpec

LEMMA EmptyNeeds ==
  ASSUME schema \in Schemas, NeedCount = 0, Plain(schema)
  PROVE  Feasible(schema)
<1> DEFINE array == schema.needs["array"]
           branch == schema.needs["branch"]
<1>1. array \in Seq(NeedSet) /\ branch \in Seq(NeedSet) /\ schema.items.most \in Nat
  BY DEF Schemas, Places, ItemShapes
<1>2. Len(array) = 0 /\ Len(branch) = 0
  <2>1. Len(array) \in Nat /\ Len(branch) \in Nat
    BY <1>1
  <2>2. Len(array) + Len(branch) = 0
    BY DEF NeedCount
  <2> HIDE DEF array, branch
  <2> QED BY <2>1, <2>2
<1>3. array = <<>> /\ branch = <<>>
  <2> HIDE DEF array, branch
  <2> QED BY <1>1, <1>2
<1>4. Demand(<<>>) = 0
  <2>1. <<>> \in Seq(NeedSet) /\ Len(<<>>) = 0
    OBVIOUS
  <2> QED BY <2>1, DemandSteps
<1>5. Demanded(schema) = 0
  BY <1>3, <1>4 DEF Demanded
<1>6. \A p \in Places : DOMAIN schema.needs[p] = {}
  BY <1>3 DEF Places
<1> QED BY <1>1, <1>3, <1>5, <1>6 DEF Feasible, Satisfiable

\* Chains of up to three independent conditions settle in the passes the synthesis makes,
\* however they are written and however many properties there are (_apply_sample_branches).
THEOREM ConditionChainsSettle == CorpusSpec => []ChainsSettle
<1>1. CorpusInv => ChainsSettle
  <2> SUFFICES ASSUME CorpusInv, fixture # "none", Plain(schema), NeedCount = 0,
                      Len(schema.conditions) <= 3, Independent(schema.conditions)
               PROVE  fixture = "recorded"
    BY DEF ChainsSettle
  <2>1. Feasible(schema) /\ Settles(schema)
    BY EmptyNeeds DEF CorpusInv, Settles
  <2> QED BY <2>1 DEF CorpusInv
<1> QED BY <1>1, CorpusHolds, PTL

\* Any number of `contains' constraints are met together where the array has room for them,
\* whatever an earlier list at the same address left in the reservations
\* (_merge_array_sample).
THEOREM ConstraintsAreMetTogether == CorpusSpec => []ConstraintsMetTogether
<1>1. CorpusInv => ConstraintsMetTogether
  <2> SUFFICES ASSUME CorpusInv, fixture # "none", Plain(schema), schema.conditions = <<>>,
                      Satisfiable(schema),
                      \/ schema.needs["branch"] = <<>>
                      \/ schema.items.least + Demanded(schema) <= schema.items.most
               PROVE  fixture = "recorded"
    BY DEF ConstraintsMetTogether
  <2>1. Feasible(schema)
    BY DEF Feasible
  <2>2. Settles(schema)
    <3>1. Len(schema.conditions) = 0 /\ DOMAIN schema.conditions = {}
      OBVIOUS
    <3> QED BY <3>1 DEF Settles, Independent, IsInjective
  <2> QED BY <2>1, <2>2 DEF CorpusInv
<1> QED BY <1>1, CorpusHolds, PTL

-----------------------------------------------------------------------------

(***************************************************************************)
(* The frames of a cell, for any fields of the message. The text is read   *)
(* in two passes, so the invariant says what each has come to: the members *)
(* the first has still to copy, each of the others under its one name in   *)
(* what it has copied, and then the value of every field there. A text     *)
(* refused on the way is one no frame is written as. What MarshalJSON      *)
(* writes has each name once and only payloads that read back.             *)
(***************************************************************************)

Spelled(member) == <<member.name, member.spelling>>

\* The members of the text, and those the decoding has not come to yet.
AllRead == object = {text[i] : i \in 1..Len(text)}
Left(i) == text[i] \in object

SpelledOnce(members, n) == \A i, j \in 1..n : Spelled(members[i]) = Spelled(members[j]) => i = j
NamedOnce == \A i, j \in 1..Len(text) : text[i].name = text[j].name => i = j
Names == {text[i].name : i \in 1..Len(text)}

\* The texts there are: any of a peer's, and those written from a frame.
TextInv ==
  /\ text \in Seq(Members) /\ Len(text) \in Nat /\ DOMAIN text = 1..Len(text)
  /\ trailing \in BOOLEAN
  /\ origin # EmptyFrame =>
       origin \in Frames /\ HasValidFrame(origin) /\ text = MarshalJSON(origin) /\ ~ trailing

\* Normalized holds, under its name, the payload of each member that is no longer in object.
NormalizeInv ==
  /\ ~ trailing /\ SpelledOnce(text, Len(text))
  /\ object \subseteq {text[i] : i \in 1..Len(text)}
  /\ \A i \in 1..Len(text) : ~ Left(i) =>
       /\ text[i].name \in Fields \cap DOMAIN normalized
       /\ normalized[text[i].name] = text[i].payload
  /\ \A name \in DOMAIN normalized : \E i \in 1..Len(text) : text[i].name = name /\ ~ Left(i)
  /\ \A i, j \in 1..Len(text) : text[i].name = text[j].name /\ ~ Left(i) /\ ~ Left(j) => i = j

\* The whole text is in normalized.
NormalizedWhole ==
  /\ ~ trailing /\ NamedOnce /\ Names \subseteq Fields /\ DOMAIN normalized = Names
  /\ \A i \in 1..Len(text) : normalized[text[i].name] = text[i].payload

FieldsDecoded ==
  /\ DOMAIN frame.values = Ordinary
  /\ \A i \in 1..Len(text) : text[i].name \in Ordinary =>
       /\ Decoded(text[i].name, text[i].payload) # "error"
       /\ frame.values[text[i].name] = Decoded(text[i].name, text[i].payload)
  /\ \A name \in Ordinary \ Names : frame.values[name] = EmptyFrame.values[name]

IsFrame(f) ==
  /\ f = [values |-> f.values, variant |-> f.variant, message |-> f.message]
  /\ f.values = [name \in DOMAIN f.values |-> f.values[name]]

\* What a text must be to be read.
Readable ==
  /\ ~ trailing /\ Cardinality(Names) = Len(text) /\ Names \subseteq Fields
  /\ \A i \in 1..Len(text) :
       IF text[i].name \in Variants THEN text[i].payload = "{}"
       ELSE Decoded(text[i].name, text[i].payload) # "error"
  /\ Cardinality(Names \cap Variants) = 1

JsonInv ==
  /\ TextInv
  /\ stage \in {"parse", "normalize", "variants", "done", "error"}
  /\ IsFrame(frame)
  /\ stage \in {"parse", "normalize"} => frame = EmptyFrame
  /\ stage = "parse" =>
       /\ IsFiniteSet(object) /\ Cardinality(object) \in 0..Len(text)
       /\ object = {text[i] : i \in 1..Cardinality(object)}
       /\ SpelledOnce(text, Cardinality(object)) /\ DOMAIN normalized = {}
  /\ stage = "normalize" => NormalizeInv
  /\ stage \in {"variants", "done"} => NormalizedWhole /\ FieldsDecoded
  /\ stage = "done" =>
       /\ frame.variant \in Variants \cap Names /\ frame.message = "{}"
       /\ Cardinality(Names \cap Variants) = 1
       /\ \A i \in 1..Len(text) : text[i].name \in Variants => text[i].payload = "{}"
  /\ stage = "error" => ~ Readable

-----------------------------------------------------------------------------

\* As many names as members: no name is there twice.
LEMMA NamesCounted ==
  ASSUME TextInv
  PROVE  Cardinality(Names) = Len(text) <=> NamedOnce
<1> DEFINE f == [i \in 1..Len(text) |-> text[i].name]
<1>1. IsFiniteSet(1..Len(text)) /\ Cardinality(1..Len(text)) = Len(text)
  <2>1. Len(text) \in Nat
    BY DEF TextInv
  <2>2. PICK n \in Nat : n = Len(text)
    BY <2>1
  <2>3. IsFiniteSet(1..n) /\ Cardinality(1..n) = IF 1 > n THEN 0 ELSE n - 1 + 1
    BY FS_Interval
  <2> QED BY <2>2, <2>3
<1>2. f \in Surjection(1..Len(text), Names)
  BY DEF Surjection, Names
<1>3. Cardinality(Names) = Cardinality(1..Len(text)) <=> f \in Injection(1..Len(text), Names)
  BY <1>1, <1>2, FS_Surjection
<1>4. f \in Injection(1..Len(text), Names) <=> NamedOnce
  BY DEF Injection, IsInjective, NamedOnce, Names
<1> QED BY <1>1, <1>3, <1>4

\* One element and no other.
LEMMA OneElement ==
  ASSUME NEW S, IsFiniteSet(S)
  PROVE  Cardinality(S) = 1 <=> \E x : S = {x}
BY FS_Singleton

\* A set is written as a sequence that holds each of its elements once.
LEMMA SetInSequence ==
  ASSUME NEW S, IsFiniteSet(S)
  PROVE  LET s == SetToSeq(S) IN
         /\ s \in Seq(S) /\ Len(s) \in Nat /\ DOMAIN s = 1..Len(s)
         /\ S = {s[i] : i \in 1..Len(s)}
         /\ \A i, j \in 1..Len(s) : s[i] = s[j] => i = j
<1> DEFINE n == Cardinality(S)
           s == SetToSeq(S)
<1>1. n \in Nat /\ ExistsBijection(1..n, S)
  BY FS_CardinalityType
<1>2. \E f \in [1..n -> S] : IsInjective(f)
  BY <1>1 DEF ExistsBijection, Bijection, Injection
<1>3. s \in [1..n -> S] /\ IsInjective(s)
  BY <1>2 DEF SetToSeq
<1>4. IsFiniteSet(1..n) /\ Cardinality(1..n) = n
  <2>1. IsFiniteSet(1..n) /\ Cardinality(1..n) = IF 1 > n THEN 0 ELSE n - 1 + 1
    BY <1>1, FS_Interval
  <2> QED BY <1>1, <2>1
<1>5. s \in Surjection(1..n, S)
  <2>1. s \in Injection(1..n, S)
    BY <1>3 DEF Injection
  <2> QED BY <1>4, <2>1, FS_Injection
<1> HIDE DEF s, n
<1>6. s \in Seq(S) /\ Len(s) = n
  BY <1>1, <1>3
<1> QED BY <1>1, <1>3, <1>5, <1>6 DEF Surjection, IsInjective, s

\* The members MarshalJSON writes.
Written(f) == {name \in Ordinary : f.values[name] \notin {"0", "nil"}}
MemberOf(f, name) == [name |-> name, spelling |-> "camel", payload |-> FieldPayload(name, f.values[name])]
VariantMember(f) == [name |-> f.variant, spelling |-> "camel", payload |-> f.message]
MembersOf(f) == {MemberOf(f, name) : name \in Written(f)} \cup {VariantMember(f)}

LEMMA MemberShapes ==
  ASSUME NEW f, NEW a \in MembersOf(f)
  PROVE  \/ a = VariantMember(f) /\ a.name = f.variant /\ a.payload = f.message
         \/ /\ a.name \in Written(f) /\ a.payload = FieldPayload(a.name, f.values[a.name])
            /\ a = MemberOf(f, a.name)
<1>1. CASE a = VariantMember(f)
  BY <1>1 DEF VariantMember
<1>2. CASE \E name \in Written(f) : a = MemberOf(f, name)
  <2>1. PICK name \in Written(f) : a = MemberOf(f, name)
    BY <1>2
  <2>2. a.name = name /\ a.payload = FieldPayload(name, f.values[name])
    BY <2>1 DEF MemberOf
  <2> QED BY <2>1, <2>2
<1> QED BY <1>1, <1>2 DEF MembersOf

\* One of each written field, and the variant, all of which can be read back.
LEMMA MarshalMembers ==
  ASSUME NEW f \in Frames, HasValidFrame(f)
  PROVE  /\ MembersOf(f) \subseteq Members /\ IsFiniteSet(MembersOf(f))
         /\ \A a, b \in MembersOf(f) : a.name = b.name => a = b
         /\ MarshalJSON(f) = SetToSeq(MembersOf(f))
         /\ f.variant \in Variants /\ f.message = "{}"
         /\ \A name \in Ordinary :
              /\ name \in Written(f) => Decoded(name, FieldPayload(name, f.values[name])) = f.values[name]
              /\ name \in Written(f) => f.values[name] # "error"
              /\ name \notin Written(f) => f.values[name] = EmptyFrame.values[name]
<1>1. f.variant \in Variants /\ f.message = "{}"
  BY DEF Frames, HasValidFrame
<1>2. \A name \in Ordinary : f.values[name] \in (IF name \in Nested THEN {"nil", "{}"} ELSE {"0", "1"})
  BY DEF Frames
<1>3. Ordinary \cap Variants = {} /\ Wides \cap Nested = {}
  BY JsonAssumption DEF Ordinary
<1>4. \A name \in Written(f) : f.values[name] = IF name \in Nested THEN "{}" ELSE "1"
  BY <1>2 DEF Written
<1>5. \A name \in Written(f) :
        FieldPayload(name, f.values[name]) = IF name \in Nested THEN "{}" ELSE IF name \in Wides THEN "'1'" ELSE "1"
  BY <1>3, <1>4 DEF FieldPayload
<1>6. \A name \in Written(f) : Decoded(name, FieldPayload(name, f.values[name])) = f.values[name]
  BY <1>3, <1>4, <1>5 DEF Decoded
<1>7. \A name \in Ordinary \ Written(f) : f.values[name] = EmptyFrame.values[name]
  BY <1>2 DEF Written, EmptyFrame
<1>8. MembersOf(f) \subseteq Members
  <2>1. VariantMember(f) \in Members
    BY <1>1 DEF VariantMember, Members, Fields, Payloads, Spellings
  <2>2. ASSUME NEW name \in Written(f) PROVE MemberOf(f, name) \in Members
    <3>1. FieldPayload(name, f.values[name]) \in Payloads /\ name \in Fields
      BY <1>5 DEF Payloads, Written, Fields
    <3> QED BY <3>1 DEF MemberOf, Members, Spellings
  <2> QED BY <2>1, <2>2 DEF MembersOf
<1>9. IsFiniteSet(MembersOf(f))
  <2>1. IsFiniteSet(Written(f))
    BY JsonAssumption, FS_Subset DEF Written, Ordinary
  <2>2. IsFiniteSet({MemberOf(f, name) : name \in Written(f)})
    <3> DEFINE write == [name \in Written(f) |-> MemberOf(f, name)]
    <3>1. write \in Surjection(Written(f), {MemberOf(f, name) : name \in Written(f)})
      BY DEF Surjection
    <3> QED BY <2>1, <3>1, FS_Surjection
  <2>3. IsFiniteSet({VariantMember(f)})
    BY FS_Singleton
  <2> QED BY <2>2, <2>3, FS_Union DEF MembersOf
<1>10. \A a, b \in MembersOf(f) : a.name = b.name => a = b
  <2>1. \A a \in MembersOf(f) :
          \/ a = VariantMember(f) /\ a.name \in Variants
          \/ a.name \in Ordinary /\ a = MemberOf(f, a.name)
    BY <1>1, MemberShapes DEF Written
  <2> QED BY <1>3, <2>1
<1>11. MarshalJSON(f) = SetToSeq(MembersOf(f))
  BY DEF MarshalJSON, MembersOf, MemberOf, VariantMember, Written
<1>12. \A name \in Written(f) : f.values[name] # "error"
  BY <1>4
<1> QED BY <1>1, <1>6, <1>7, <1>8, <1>9, <1>10, <1>11, <1>12

LEMMA JsonStarts == JsonInit => JsonInv
<1> SUFFICES ASSUME JsonInit PROVE JsonInv
  OBVIOUS
<1>1. TextInv
  <2>1. CASE \E f \in Frames : HasValidFrame(f) /\ origin = f /\ text = MarshalJSON(f) /\ trailing = FALSE
    <3>1. PICK f \in Frames : HasValidFrame(f) /\ origin = f /\ text = MarshalJSON(f) /\ trailing = FALSE
      BY <2>1
    <3>2. MembersOf(f) \subseteq Members /\ IsFiniteSet(MembersOf(f)) /\ text = SetToSeq(MembersOf(f))
      BY <3>1, MarshalMembers
    <3>3. text \in Seq(MembersOf(f)) /\ Len(text) \in Nat /\ DOMAIN text = 1..Len(text)
      BY <3>2, SetInSequence
    <3>4. text \in Seq(Members)
      BY <3>2, <3>3
    <3> QED BY <3>1, <3>3, <3>4 DEF TextInv
  <2>2. CASE /\ origin = EmptyFrame
             /\ text \in UNION {[1 .. n -> Members] : n \in 0 .. MaxMembers}
             /\ trailing \in BOOLEAN
    <3>1. PICK n \in 0 .. MaxMembers : text \in [1..n -> Members]
      BY <2>2
    <3>2. n \in Nat
      BY <3>1, JsonAssumption
    <3>3. text \in Seq(Members) /\ Len(text) = n
      BY <3>1, <3>2
    <3> QED BY <2>2, <3>1, <3>2, <3>3 DEF TextInv
  <2> QED BY <2>1, <2>2 DEF JsonInit
<1>2. IsFiniteSet({}) /\ Cardinality({}) = 0
  BY FS_EmptySet
<1>3. IsFrame(EmptyFrame)
  BY DEF IsFrame, EmptyFrame
<1> QED BY <1>1, <1>2, <1>3 DEF JsonInit, JsonInv, TextInv, SpelledOnce

\* The text of a valid frame can be read.
LEMMA MarshalReadable ==
  ASSUME TextInv, origin # EmptyFrame
  PROVE  Readable /\ Names = Written(origin) \cup {origin.variant}
<1>1. PICK f \in Frames : f = origin /\ HasValidFrame(f)
  BY DEF TextInv
<1>2. text = SetToSeq(MembersOf(f)) /\ IsFiniteSet(MembersOf(f)) /\ ~ trailing
  BY <1>1, MarshalMembers DEF TextInv
<1>3. /\ {text[i] : i \in 1..Len(text)} = MembersOf(f)
      /\ \A i, j \in 1..Len(text) : text[i] = text[j] => i = j
  BY <1>2, SetInSequence
<1>4. NamedOnce
  <2>1. \A a, b \in MembersOf(f) : a.name = b.name => a = b
    BY <1>1, MarshalMembers
  <2>2. \A i \in 1..Len(text) : text[i] \in MembersOf(f)
    BY <1>3
  <2> QED BY <1>3, <2>1, <2>2 DEF NamedOnce
<1>5. Names = {a.name : a \in MembersOf(f)}
  BY <1>3 DEF Names
<1>6. Names = Written(f) \cup {f.variant}
  <2>1. \A a \in MembersOf(f) : a.name \in Written(f) \cup {f.variant}
    BY MemberShapes
  <2>2. VariantMember(f) \in MembersOf(f) /\ VariantMember(f).name = f.variant
    BY DEF MembersOf, VariantMember
  <2>3. \A name \in Written(f) : MemberOf(f, name) \in MembersOf(f) /\ MemberOf(f, name).name = name
    BY DEF MembersOf, MemberOf
  <2> QED BY <1>5, <2>1, <2>2, <2>3
<1>7. /\ f.variant \in Variants /\ f.message = "{}" /\ Written(f) \subseteq Ordinary
      /\ Ordinary \cap Variants = {}
  BY <1>1, MarshalMembers, JsonAssumption DEF Written, Ordinary
<1>8. Names \cap Variants = {f.variant}
  BY <1>6, <1>7
<1>9. ASSUME NEW i \in 1..Len(text)
      PROVE  IF text[i].name \in Variants THEN text[i].payload = "{}"
             ELSE Decoded(text[i].name, text[i].payload) # "error"
  <2>1. PICK a \in MembersOf(f) : a = text[i]
    BY <1>3
  <2>2. CASE a.name = f.variant /\ a.payload = f.message
    BY <1>7, <2>1, <2>2
  <2>3. CASE a.name \in Written(f) /\ a.payload = FieldPayload(a.name, f.values[a.name])
    <3>1. Decoded(a.name, a.payload) # "error" /\ a.name \notin Variants
      <4>1. PICK name \in Written(f) : name = a.name
        BY <2>3
      <4>2. Decoded(name, FieldPayload(name, f.values[name])) = f.values[name] /\ f.values[name] # "error"
        BY <1>1, <1>7, MarshalMembers
      <4> QED BY <1>7, <2>3, <4>1, <4>2
    <3> QED BY <2>1, <3>1
  <2> QED BY <2>2, <2>3, MemberShapes
<1>10. Cardinality(Names \cap Variants) = 1
  BY <1>8, FS_Singleton
<1> QED BY <1>1, <1>2, <1>4, <1>6, <1>7, <1>9, <1>10, NamesCounted DEF Readable, Fields

\* An accepted text says everything of the frame, so a frame that was written is the frame read.
LEMMA ReadAsWritten ==
  ASSUME JsonInv, stage = "done", origin # EmptyFrame
  PROVE  frame = origin
<1>1. PICK f \in Frames : f = origin /\ HasValidFrame(f)
  BY DEF JsonInv, TextInv
<1>2. /\ Names = Written(f) \cup {f.variant} /\ Written(f) \subseteq Ordinary
      /\ f.variant \in Variants /\ f.message = "{}" /\ Ordinary \cap Variants = {}
  BY <1>1, MarshalReadable, MarshalMembers, JsonAssumption DEF JsonInv, Written, Ordinary
<1>3. frame.variant = f.variant /\ frame.message = f.message
  BY <1>2 DEF JsonInv
<1>4. \A a \in MembersOf(f) : a.name \in Ordinary => a.payload = FieldPayload(a.name, f.values[a.name])
  BY <1>2, MemberShapes
<1>5. \A i \in 1..Len(text) : text[i] \in MembersOf(f)
  <2>1. text = SetToSeq(MembersOf(f)) /\ IsFiniteSet(MembersOf(f))
    BY <1>1, MarshalMembers DEF JsonInv, TextInv
  <2> QED BY <2>1, SetInSequence
<1>6. ASSUME NEW name \in Ordinary PROVE frame.values[name] = f.values[name]
  <2>1. CASE name \in Written(f)
    <3>1. PICK i \in 1..Len(text) : text[i].name = name
      BY <1>2, <2>1 DEF Names
    <3>2. frame.values[name] = Decoded(name, text[i].payload)
      BY <3>1 DEF JsonInv, FieldsDecoded
    <3>3. text[i].payload = FieldPayload(name, f.values[name])
      BY <1>4, <1>5, <3>1
    <3> QED BY <1>1, <2>1, <3>2, <3>3, MarshalMembers
  <2>2. CASE name \notin Written(f)
    <3>1. frame.values[name] = EmptyFrame.values[name]
      BY <1>2, <2>2 DEF JsonInv, FieldsDecoded
    <3> QED BY <1>1, <2>2, <3>1, MarshalMembers
  <2> QED BY <2>1, <2>2
<1>7. /\ f.values = [name \in Ordinary |-> f.values[name]]
      /\ f = [values |-> f.values, variant |-> f.variant, message |-> f.message]
  BY DEF Frames
<1>8. /\ frame.values = [name \in Ordinary |-> frame.values[name]]
      /\ frame = [values |-> frame.values, variant |-> frame.variant, message |-> frame.message]
  BY DEF JsonInv, IsFrame, FieldsDecoded
<1>9. frame.values = f.values
  BY <1>6, <1>7, <1>8
<1> QED BY <1>1, <1>3, <1>7, <1>8, <1>9

-----------------------------------------------------------------------------

\* Decoding changes none of what the text is.
LEMMA TextKept ==
  ASSUME Stays
  PROVE  /\ TextInv => TextInv'
         /\ Names' = Names /\ (NamedOnce' <=> NamedOnce) /\ (Readable' <=> Readable)
         /\ text' = text
BY DEF Stays, TextInv, Names, NamedOnce, Readable

LEMMA ReadMemberStep ==
  ASSUME JsonInv, ReadMember
  PROVE  JsonInv'
<1> DEFINE n == Cardinality(object)
           member == text[n + 1]
<1>1. /\ stage = "parse" /\ n \in 0..Len(text) /\ n < Len(text) /\ Len(text) \in Nat
      /\ object = {text[i] : i \in 1..n} /\ SpelledOnce(text, n) /\ IsFiniteSet(object)
      /\ DOMAIN normalized = {} /\ frame = EmptyFrame /\ Stays
  BY DEF ReadMember, JsonInv, TextInv, Fail
<1>2. n + 1 \in 1..Len(text) /\ n + 1 \notin 1..n /\ 1..(n + 1) = 1..n \cup {n + 1} /\ 1..n \subseteq 1..Len(text)
  BY <1>1
<1> HIDE DEF n
<1>3. CASE \E read \in object : read.name = member.name /\ read.spelling = member.spelling
  <2>1. stage' = "error" /\ UNCHANGED <<object, normalized, frame>>
    BY <1>1, <1>3 DEF ReadMember, Fail, n
  <2>2. PICK i \in 1..n : text[i].name = member.name
    BY <1>1, <1>3
  <2>3. ~ NamedOnce
    BY <1>2, <2>2 DEF NamedOnce
  <2>4. ~ Readable
    BY <2>3, NamesCounted DEF JsonInv, Readable
  <2> QED BY <1>1, <2>1, <2>4, TextKept DEF JsonInv, IsFrame
<1>4. CASE ~ \E read \in object : read.name = member.name /\ read.spelling = member.spelling
  <2>1. object' = object \cup {member} /\ UNCHANGED <<stage, normalized, frame>>
    BY <1>1, <1>4 DEF ReadMember, n
  <2>2. member \notin object
    BY <1>4
  <2>3. IsFiniteSet(object') /\ Cardinality(object') = n + 1
    BY <1>1, <2>1, <2>2, FS_AddElement DEF n
  <2>4. object' = {text[i] : i \in 1..(n + 1)}
    BY <1>1, <1>2, <2>1
  <2>5. SpelledOnce(text, n + 1)
    BY <1>1, <1>2, <1>4 DEF SpelledOnce, Spelled
  <2>6. text' = text
    BY <1>1 DEF Stays
  <2>7. /\ Cardinality(object') \in 0..Len(text')
        /\ object' = {text'[i] : i \in 1..Cardinality(object')}
        /\ SpelledOnce(text', n + 1)
    BY <1>2, <2>3, <2>4, <2>5, <2>6
  <2>8. SpelledOnce(text', Cardinality(object'))
    BY <2>3, <2>7 DEF SpelledOnce, Spelled
  <2> QED BY <1>1, <2>1, <2>3, <2>7, <2>8, TextKept DEF JsonInv, IsFrame
<1> QED BY <1>3, <1>4

LEMMA EndObjectStep ==
  ASSUME JsonInv, EndObject
  PROVE  JsonInv'
<1>1. /\ stage = "parse" /\ Cardinality(object) = Len(text) /\ Len(text) \in Nat
      /\ UNCHANGED <<object, normalized, frame>> /\ Stays
  BY DEF EndObject, JsonInv, TextInv, Fail
<1>2. CASE trailing
  BY <1>1, <1>2, TextKept DEF EndObject, Fail, JsonInv, Readable, IsFrame
<1>3. CASE ~ trailing
  <2>1. stage' = "normalize"
    BY <1>3 DEF EndObject
  <2>2. /\ object = {text[i] : i \in 1..Len(text)} /\ SpelledOnce(text, Len(text)) /\ DOMAIN normalized = {}
    BY <1>1 DEF JsonInv
  <2>3. NormalizeInv
    BY <1>3, <2>2 DEF NormalizeInv, Left
  <2>4. NormalizeInv'
    BY <1>1, <2>3, TextKept DEF NormalizeInv, Left, Stays, SpelledOnce, Spelled
  <2> QED BY <1>1, <2>1, <2>4, TextKept DEF JsonInv, IsFrame
<1> QED BY <1>2, <1>3

LEMMA NormalizeStep ==
  ASSUME JsonInv, Normalize
  PROVE  JsonInv'
<1>1. PICK member \in object :
       \/ (member.name \notin Fields \/ SpellingTaken(member)) /\ Fail
       \/ /\ member.name \in Fields /\ ~ SpellingTaken(member)
          /\ object' = object \ {member}
          /\ normalized' =
               [name \in DOMAIN normalized \cup {member.name} |->
                  IF name = member.name THEN member.payload ELSE normalized[name]]
          /\ UNCHANGED <<stage, frame>> /\ Stays
  BY DEF Normalize
<1>2. stage = "normalize" /\ NormalizeInv /\ frame = EmptyFrame /\ TextInv
  BY DEF Normalize, JsonInv
<1>3. PICK m \in 1..Len(text) : text[m] = member /\ Left(m)
  BY <1>2 DEF NormalizeInv, Left
<1>4. CASE (member.name \notin Fields \/ SpellingTaken(member)) /\ Fail
  <2>1. CASE member.name \notin Fields
    BY <1>2, <1>3, <1>4, <2>1, TextKept DEF Fail, JsonInv, Readable, Names, IsFrame
  <2>2. CASE SpellingTaken(member)
    <3>1. PICK i \in 1..Len(text) : text[i].name = member.name /\ ~ Left(i)
      BY <1>2, <2>2 DEF SpellingTaken, NormalizeInv
    <3>2. ~ NamedOnce
      BY <1>3, <3>1 DEF NamedOnce
    <3>3. ~ Readable
      BY <1>2, <3>2, NamesCounted DEF Readable
    <3> QED BY <1>2, <1>4, <3>3, TextKept DEF Fail, JsonInv, IsFrame
  <2> QED BY <1>4, <2>1, <2>2
<1>5. CASE /\ member.name \in Fields /\ ~ SpellingTaken(member)
           /\ object' = object \ {member}
           /\ normalized' =
                [name \in DOMAIN normalized \cup {member.name} |->
                   IF name = member.name THEN member.payload ELSE normalized[name]]
           /\ UNCHANGED <<stage, frame>> /\ Stays
  <2>1. text' = text /\ trailing' = trailing /\ origin' = origin
    BY <1>5 DEF Stays
  <2>2. \A i \in 1..Len(text) : Left(i)' <=> Left(i) /\ i # m
    <3> SUFFICES ASSUME NEW i \in 1..Len(text) PROVE Left(i)' <=> Left(i) /\ i # m
      OBVIOUS
    <3>1. text[i] = member => i = m
      BY <1>2, <1>3 DEF NormalizeInv, SpelledOnce, Spelled
    <3> QED BY <1>3, <1>5, <2>1, <3>1 DEF Left
  <2>3. \A i \in 1..Len(text) : text[i].name = member.name /\ ~ Left(i) => FALSE
    BY <1>2, <1>5 DEF NormalizeInv, SpellingTaken
  <2>4. ASSUME NEW i \in 1..Len(text), ~ Left(i)'
        PROVE  /\ text[i].name \in Fields \cap DOMAIN normalized'
               /\ normalized'[text[i].name] = text[i].payload
    <3>1. CASE i = m
      BY <1>3, <1>5, <3>1
    <3>2. CASE i # m
      <4>1. ~ Left(i)
        BY <2>2, <2>4, <3>2
      <4>2. text[i].name # member.name /\ text[i].name \in Fields \cap DOMAIN normalized
            /\ normalized[text[i].name] = text[i].payload
        BY <1>2, <2>3, <4>1 DEF NormalizeInv
      <4> QED BY <1>5, <4>2
    <3> QED BY <3>1, <3>2
  <2>5. ASSUME NEW name \in DOMAIN normalized'
        PROVE  \E i \in 1..Len(text) : text[i].name = name /\ ~ Left(i)'
    <3>1. CASE name = member.name
      BY <1>3, <2>2, <3>1
    <3>2. CASE name \in DOMAIN normalized
      BY <1>2, <2>2, <3>2 DEF NormalizeInv
    <3> QED BY <1>5, <3>1, <3>2
  <2>6. \A i, j \in 1..Len(text) : text[i].name = text[j].name /\ ~ Left(i)' /\ ~ Left(j)' => i = j
    BY <1>2, <1>3, <2>2, <2>3 DEF NormalizeInv
  <2>7. object' \subseteq {text[i] : i \in 1..Len(text)} /\ ~ trailing /\ SpelledOnce(text, Len(text))
    BY <1>2, <1>5 DEF NormalizeInv
  <2>8. NormalizeInv'
    <3>1. SpelledOnce(text', Len(text'))
      BY <2>1, <2>7 DEF SpelledOnce, Spelled
    <3> QED BY <2>1, <2>4, <2>5, <2>6, <2>7, <3>1 DEF NormalizeInv
  <2> QED BY <1>2, <1>5, <2>8, TextKept DEF JsonInv, IsFrame
<1> QED BY <1>1, <1>4, <1>5

LEMMA DecodeFieldsStep ==
  ASSUME JsonInv, DecodeFields
  PROVE  JsonInv'
<1> DEFINE present == DOMAIN normalized \cap Ordinary
           values == [name \in Ordinary |-> IF name \in present THEN Decoded(name, normalized[name])
                                            ELSE frame.values[name]]
<1>1. stage = "normalize" /\ object = {} /\ NormalizeInv /\ frame = EmptyFrame /\ TextInv /\ Stays
      /\ UNCHANGED <<object, normalized>>
  BY DEF DecodeFields, JsonInv, Fail
<1>2. NormalizedWhole
  <2>1. \A i \in 1..Len(text) : ~ Left(i)
    BY <1>1 DEF Left
  <2>2. /\ ~ trailing
        /\ \A i \in 1..Len(text) :
             /\ text[i].name \in Fields \cap DOMAIN normalized
             /\ normalized[text[i].name] = text[i].payload
        /\ \A name \in DOMAIN normalized : \E i \in 1..Len(text) : text[i].name = name
        /\ NamedOnce
    BY <1>1, <2>1 DEF NormalizeInv, NamedOnce
  <2>3. DOMAIN normalized = Names /\ Names \subseteq Fields
    BY <2>2 DEF Names
  <2> QED BY <2>2, <2>3 DEF NormalizedWhole
<1>3. CASE (\E name \in present : Decoded(name, normalized[name]) = "error") /\ Fail
  <2>1. PICK name \in present : Decoded(name, normalized[name]) = "error"
    BY <1>3
  <2>2. PICK i \in 1..Len(text) : text[i].name = name
    BY <1>2, <2>1 DEF NormalizedWhole, Names
  <2>3. text[i].name \notin Variants /\ Decoded(text[i].name, text[i].payload) = "error"
    BY <1>2, <2>1, <2>2, JsonAssumption DEF NormalizedWhole, Ordinary
  <2>4. ~ Readable
    BY <2>3 DEF Readable
  <2> QED BY <1>1, <1>3, <2>4, TextKept DEF Fail, JsonInv, IsFrame
<1>4. CASE /\ \A name \in present : Decoded(name, normalized[name]) # "error"
           /\ frame' = [frame EXCEPT !.values = values]
           /\ stage' = "variants"
  <2>1. /\ IsFrame(EmptyFrame) /\ EmptyFrame.values = [name \in Ordinary |-> EmptyFrame.values[name]]
    BY DEF IsFrame, EmptyFrame
  <2>2. frame'.values = values /\ IsFrame(frame')
    BY <1>1, <1>4, <2>1 DEF IsFrame
  <2>3. FieldsDecoded'
    <3>1. DOMAIN frame'.values = Ordinary /\ text' = text
      BY <1>1, <2>2 DEF Stays
    <3>2. ASSUME NEW i \in 1..Len(text), text[i].name \in Ordinary
          PROVE  /\ Decoded(text[i].name, text[i].payload) # "error"
                 /\ frame'.values[text[i].name] = Decoded(text[i].name, text[i].payload)
      <4>1. text[i].name \in present /\ normalized[text[i].name] = text[i].payload
        BY <1>2, <3>2 DEF NormalizedWhole, Names
      <4> QED BY <1>4, <2>2, <3>2, <4>1
    <3>3. ASSUME NEW name \in Ordinary \ Names
          PROVE  frame'.values[name] = EmptyFrame.values[name]
      BY <1>1, <1>2, <2>2, <3>3 DEF NormalizedWhole
    <3>4. Names' = Names
      BY <3>1 DEF Names
    <3> HIDE DEF values
    <3> QED BY <3>1, <3>2, <3>3, <3>4 DEF FieldsDecoded
  <2>4. NormalizedWhole'
    BY <1>1, <1>2, TextKept DEF NormalizedWhole, Stays
  <2> QED BY <1>1, <1>4, <2>2, <2>3, <2>4, TextKept DEF JsonInv
<1> QED BY <1>1, <1>3, <1>4 DEF DecodeFields

LEMMA DecodeVariantsStep ==
  ASSUME JsonInv, DecodeVariants
  PROVE  JsonInv'
<1> DEFINE names == DOMAIN normalized \cap Variants
           selected == Selected(names)
<1>1. stage = "variants" /\ NormalizedWhole /\ FieldsDecoded /\ TextInv /\ Stays /\ IsFrame(frame)
      /\ UNCHANGED <<object, normalized>>
  BY DEF DecodeVariants, JsonInv, Fail
<1>2. names = Names \cap Variants /\ names \subseteq Variants
  BY <1>1 DEF NormalizedWhole
<1>3. IsFiniteSet(names)
  <2>1. IsFiniteSet(Variants)
    BY JsonAssumption, FS_Subset
  <2> QED BY <1>2, <2>1, FS_Subset
<1>4. CASE (selected = {} \/ \E name \in selected : normalized[name] # "{}") /\ Fail
  <2>1. ~ Readable
    <3>1. SUFFICES ASSUME Readable PROVE FALSE
      OBVIOUS
    <3>2. PICK v : names = {v}
      BY <1>2, <1>3, <3>1, OneElement DEF Readable
    <3>3. PICK i \in 1..Len(text) : text[i].name = v
      BY <1>2, <3>2 DEF Names
    <3>4. normalized[v] = "{}"
      BY <1>1, <1>2, <3>1, <3>2, <3>3 DEF Readable, NormalizedWhole
    <3>5. selected = {v}
      BY <1>2, <3>1, <3>2, <3>4 DEF Selected, Readable
    <3> QED BY <1>4, <3>4, <3>5
  <2> QED BY <1>1, <1>4, <2>1, TextKept DEF Fail, JsonInv
<1>5. CASE \E name \in selected :
             /\ normalized[name] = "{}"
             /\ frame' = [frame EXCEPT !.variant = name, !.message = "{}"]
             /\ stage' = "done"
  <2>1. PICK name \in selected :
             /\ normalized[name] = "{}"
             /\ frame' = [frame EXCEPT !.variant = name, !.message = "{}"]
             /\ stage' = "done"
    BY <1>5
  <2>2. name \in names /\ Cardinality(names) = 1
    BY <2>1 DEF Selected
  <2>3. names = {name}
    BY <1>3, <2>2, OneElement
  <2>4. \A i \in 1..Len(text) : text[i].name \in Variants => text[i].payload = "{}"
    BY <1>1, <1>2, <2>1, <2>3 DEF NormalizedWhole, Names
  <2>5. /\ IsFrame(frame') /\ frame'.values = frame.values
        /\ frame'.variant = name /\ frame'.message = "{}"
    BY <1>1, <2>1 DEF IsFrame
  <2>6. NormalizedWhole' /\ FieldsDecoded'
    BY <1>1, <2>5, TextKept DEF NormalizedWhole, FieldsDecoded, Stays
  <2>7. name \in Variants \cap Names /\ Cardinality(Names \cap Variants) = 1
    BY <1>2, <2>2
  <2> HIDE DEF names, selected
  <2> QED BY <1>1, <2>1, <2>4, <2>5, <2>6, <2>7, TextKept DEF JsonInv
<1> QED BY <1>1, <1>4, <1>5 DEF DecodeVariants

LEMMA JsonStep == JsonInv /\ [JsonNext]_jsonVars => JsonInv'
<1> SUFFICES ASSUME JsonInv, [JsonNext]_jsonVars PROVE JsonInv'
  OBVIOUS
<1>1. CASE UNCHANGED jsonVars
  <2>1. Stays /\ UNCHANGED <<stage, object, normalized, frame>>
    BY <1>1 DEF jsonVars, Stays
  <2>2. /\ NormalizeInv => NormalizeInv'
        /\ NormalizedWhole => NormalizedWhole'
        /\ FieldsDecoded => FieldsDecoded'
    BY <2>1 DEF Stays, NormalizeInv, Left, NormalizedWhole, FieldsDecoded, Names, NamedOnce
  <2>3. TextInv' /\ IsFrame(frame)' /\ (Readable' <=> Readable) /\ text' = text /\ Names' = Names
    BY <2>1, TextKept DEF JsonInv
  <2> QED BY <2>1, <2>2, <2>3 DEF JsonInv
<1> QED BY <1>1, ReadMemberStep, EndObjectStep, NormalizeStep, DecodeFieldsStep, DecodeVariantsStep
        DEF JsonNext

LEMMA ReadOnce == ASSUME JsonInv PROVE OneReading
<1>1. DOMAIN text = 1..Len(text) /\ {text[i].name : i \in DOMAIN text} = Names
  BY DEF JsonInv, TextInv, Names
<1>2. stage = "done" => Readable
  <2>1. SUFFICES ASSUME stage = "done" PROVE Readable
    OBVIOUS
  <2>2. NormalizedWhole /\ FieldsDecoded /\ Cardinality(Names) = Len(text)
    BY <2>1, NamesCounted DEF JsonInv, NormalizedWhole
  <2>3. ASSUME NEW i \in 1..Len(text), text[i].name \notin Variants
        PROVE  Decoded(text[i].name, text[i].payload) # "error"
    BY <2>2, <2>3 DEF NormalizedWhole, FieldsDecoded, Names, Fields
  <2> QED BY <2>1, <2>2, <2>3 DEF JsonInv, Readable, NormalizedWhole
<1>3. stage = "done" =>
        /\ frame.variant \in Names
        /\ \A i \in 1..Len(text) : text[i].name \in Ordinary =>
             frame.values[text[i].name] = Decoded(text[i].name, text[i].payload)
        /\ \A name \in Ordinary \ Names : frame.values[name] = EmptyFrame.values[name]
  BY DEF JsonInv, FieldsDecoded
<1>4. stage = "error" => ~ Readable
  BY DEF JsonInv
<1> QED BY <1>1, <1>2, <1>3, <1>4 DEF OneReading, Readable

\* For any message, and texts of any length: what Go writes it reads as the same frame, and a
\* text of a peer, in either spelling and any order of Go's map, has its one reading or none.
THEOREM FramesReadAlike == JsonSpec => []FramesAgree
<1>1. JsonInv => FramesAgree
  <2> SUFFICES ASSUME JsonInv PROVE FramesAgree
    OBVIOUS
  <2>1. RoundTrip
    <3>1. origin # EmptyFrame => stage # "error"
      BY MarshalReadable DEF JsonInv
    <3> QED BY <3>1, ReadAsWritten DEF RoundTrip
  <2> QED BY <2>1, ReadOnce DEF FramesAgree
<1> QED BY <1>1, JsonStarts, JsonStep, PTL DEF JsonSpec

=============================================================================
