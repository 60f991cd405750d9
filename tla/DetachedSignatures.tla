-------------------------- MODULE DetachedSignatures --------------------------
(***************************************************************************)
(* Detached signatures: SignDetached and VerifyDetached of                 *)
(* internal/contracts/canonical/signature.go, and the TypeScript verifier  *)
(* that client_templates.py writes for the browser.                        *)
(*                                                                         *)
(* An authority publishes key registries one after the other (a key is     *)
(* added, superseded or revoked; some are misprinted), holders of private  *)
(* keys sign what they like, envelopes are altered and replayed, and       *)
(* verifiers that trust some published registry look at them at any time.  *)
(*                                                                         *)
(* Digests are injective and signatures cannot be made without the key, so *)
(* a digest is what it digests, a registry's hash is its number, and a     *)
(* signature is the key and the claims that were signed.  Time is counted  *)
(* in ticks finer than the milliseconds of a JavaScript Date.              *)
(***************************************************************************)
EXTENDS Naturals, Sequences, FiniteSets

CONSTANTS
  Kids, FirstKid,        \* names of keys, and the first registry's
  Purposes, Payloads,
  KeyPurposes,           \* sets of purposes that an added key is given
  Algorithm,             \* kid -> algorithm of its key pair
  TicksPerMilli,
  MaxTime,               \* bound: ticks
  Lives,                 \* bound: [issued, expires] that signers write
  MaxRegistries,         \* bound: registries published
  MaxEnvelopes           \* bound: envelopes in circulation

ASSUME SignatureAssumption ==
  /\ FirstKid \in Kids /\ KeyPurposes \subseteq SUBSET Purposes
  /\ TicksPerMilli \in Nat \ {0} /\ MaxTime \in Nat
  /\ MaxRegistries \in Nat /\ MaxEnvelopes \in Nat

VARIABLES
  now,
  registries,  \* published so far
  signed,      \* [kid, claims] that were ever signed with the kid's private key
  envelopes    \* [claims, signature] in circulation

signatureVars == <<now, registries, signed, envelopes>>

None == "none"
Never == MaxTime + 1

\* A key that supersedes none names no key; times are numbers.
ASSUME ClaimsAssumption == None \notin Kids /\ Lives \subseteq [issued : Nat, expires : Nat]

\* A registry's entry for a kid; the kids it has no entry for are not in its keys.
ActiveKey(kid, from, until, purposes, supersedes) ==
  [algorithm |-> Algorithm[kid], purposes |-> purposes, from |-> from, until |-> until,
   status |-> "active", supersedes |-> supersedes, revokedAt |-> Never]

FirstRegistry ==
  [version |-> 1, previous |-> 0, issued |-> 0,
   keys |-> [k \in {FirstKid} |-> ActiveKey(k, 0, MaxTime, Purposes, None)]]

SignatureInit ==
  /\ now = 0
  /\ registries = <<FirstRegistry>>
  /\ signed = {} /\ envelopes = {}

-----------------------------------------------------------------------------
(* The authority.                                                            *)

Latest == registries[Len(registries)]
WithEntry(keys, kid, entry) == [k \in DOMAIN keys \cup {kid} |-> IF k = kid THEN entry ELSE keys[k]]

Tick == now < MaxTime /\ now' = now + 1 /\ UNCHANGED <<registries, signed, envelopes>>

Publish(keys) ==
  /\ Len(registries) < MaxRegistries
  /\ registries' = Append(registries,
       [version |-> Len(registries) + 1, previous |-> Len(registries), issued |-> now, keys |-> keys])
  /\ UNCHANGED <<now, signed, envelopes>>

\* A new key takes over from an active one.
Rotate(old, new, purposes) ==
  /\ old \in DOMAIN Latest.keys /\ new \notin DOMAIN Latest.keys
  /\ Latest.keys[old].status = "active"
  /\ Publish(WithEntry(WithEntry(Latest.keys, old, [Latest.keys[old] EXCEPT !.status = "superseded"]),
                       new, ActiveKey(new, now, MaxTime, purposes, old)))

Revoke(kid, at) ==
  /\ kid \in DOMAIN Latest.keys /\ Latest.keys[kid].status = "active"
  /\ Publish(WithEntry(Latest.keys, kid, [Latest.keys[kid] EXCEPT !.status = "revoked", !.revokedAt = at]))

\* A registry with a fault in one entry: validity turned round, revocation metadata that does
\* not fit the status, a broken supersession chain, an algorithm that is not the key's.
Misprint(kid) ==
  /\ kid \in DOMAIN Latest.keys
  /\ \E faulty \in {[Latest.keys[kid] EXCEPT !.supersedes = k] : k \in Kids}
         \cup {[Latest.keys[kid] EXCEPT !.status = s] : s \in {"superseded", "revoked", "retired"}}
         \cup {[Latest.keys[kid] EXCEPT !.from = 1, !.until = 0],
               [Latest.keys[kid] EXCEPT !.revokedAt = now],
               [Latest.keys[kid] EXCEPT !.algorithm = "other"]} :
       Publish(WithEntry(Latest.keys, kid, faulty))

-----------------------------------------------------------------------------
(* Signing.                                                                  *)

\* SignDetached: the expiry is not before the issuance and the algorithm is the key's;
\* neither registry nor clock is asked.
Sign(kid, c) ==
  /\ Cardinality(envelopes) < MaxEnvelopes
  /\ c.expires # Never => c.issued <= c.expires
  /\ c.algorithm = Algorithm[kid]
  /\ signed' = signed \cup {[kid |-> kid, claims |-> c]}
  /\ envelopes' = envelopes \cup {[claims |-> c, signature |-> [kid |-> kid, claims |-> c]]}
  /\ UNCHANGED <<now, registries>>

\* Somebody without a key changes the claims of an envelope, and its id with them.
Alter(e, c) ==
  /\ e.claims = e.signature.claims
  /\ envelopes' = (envelopes \ {e}) \cup {[e EXCEPT !.claims = c]}
  /\ UNCHANGED <<now, registries, signed>>

ClaimsOf(kid, payload, purpose, registry, life) ==
  [payload |-> payload, purpose |-> purpose, kid |-> kid, algorithm |-> Algorithm[kid],
   registry |-> registry, issued |-> life.issued, expires |-> life.expires]

\* Claims that differ from an envelope's in one member.
Altered(c) ==
  {[c EXCEPT !.payload = p] : p \in Payloads}
    \cup {[c EXCEPT !.purpose = p] : p \in Purposes}
    \cup {[c EXCEPT !.registry = r] : r \in DOMAIN registries}
    \cup {[c EXCEPT !.kid = k, !.algorithm = Algorithm[k]] : k \in Kids}
    \cup {[c EXCEPT !.expires = Never]}

SignatureNext ==
  \/ Tick
  \/ \E old, new \in Kids : \E purposes \in KeyPurposes : Rotate(old, new, purposes)
  \/ \E kid \in Kids : Misprint(kid) \/ \E at \in 0..now : Revoke(kid, at)
  \/ \E kid, named \in Kids, payload \in Payloads, purpose \in Purposes,
        registry \in DOMAIN registries, life \in Lives :
       Sign(kid, ClaimsOf(named, payload, purpose, registry, life))
  \/ \E e \in envelopes : \E c \in Altered(e.claims) : Alter(e, c)

SignatureSpec == SignatureInit /\ [][SignatureNext]_signatureVars

-----------------------------------------------------------------------------
(* Verification.                                                             *)

\* The chain of superseded keys above a kid, n steps up.
Above(keys, kid, n) ==
  LET up[i \in 0..n] ==
        IF i = 0 THEN kid
        ELSE IF up[i - 1] \in DOMAIN keys THEN keys[up[i - 1]].supersedes ELSE None
  IN up[n]
ChainsEnd(keys) == \A kid \in DOMAIN keys : Above(keys, kid, Cardinality(DOMAIN keys)) = None

\* Mutant: a key may supersede one that is still active.
RegistryValidOverlapping(r) ==
  /\ r.version > 0 /\ DOMAIN r.keys # {}
  /\ (r.version = 1) = (r.previous = 0)
  /\ \A kid \in DOMAIN r.keys :
       LET key == r.keys[kid] IN
       /\ key.from <= key.until
       /\ \/ key.status = "revoked" /\ key.revokedAt # Never /\ key.from <= key.revokedAt
          \/ key.status \in {"active", "superseded"} /\ key.revokedAt = Never
       /\ key.algorithm = Algorithm[kid]
       /\ key.supersedes # None => key.supersedes \in DOMAIN r.keys \ {kid}

\* validateRegistry.  The status of a superseded key is checked before the chains are walked.
RegistryValid(r) ==
  /\ r.version > 0 /\ DOMAIN r.keys # {}
  /\ (r.version = 1) = (r.previous = 0)
  /\ \A kid \in DOMAIN r.keys :
       LET key == r.keys[kid] IN
       /\ key.from <= key.until
       /\ \/ key.status = "revoked" /\ key.revokedAt # Never /\ key.from <= key.revokedAt
          \/ key.status \in {"active", "superseded"} /\ key.revokedAt = Never
       /\ key.algorithm = Algorithm[kid]
       /\ key.supersedes # None =>
            /\ key.supersedes # kid /\ key.supersedes \in DOMAIN r.keys
            /\ r.keys[key.supersedes].status = "superseded"
            /\ r.keys[key.supersedes].algorithm = key.algorithm
  /\ ChainsEnd(r.keys)

\* Mutant: eligibility by validity and revocation time alone.
EligibleByTime(r, c, at) ==
  /\ c.kid \in DOMAIN r.keys
  /\ LET key == r.keys[c.kid] IN
     /\ key.algorithm = c.algorithm /\ c.purpose \in key.purposes
     /\ key.from <= c.issued /\ c.issued <= key.until
     /\ key.from <= at /\ at <= key.until
     /\ at < key.revokedAt

\* findEligibleKey.
Eligible(r, c, at) ==
  /\ c.kid \in DOMAIN r.keys
  /\ LET key == r.keys[c.kid] IN
     /\ key.status = "active"
     /\ key.algorithm = c.algorithm /\ c.purpose \in key.purposes
     /\ key.from <= c.issued /\ c.issued <= key.until
     /\ key.from <= at /\ at <= key.until
     /\ at < key.revokedAt

\* VerifyDetached of the payload, for a purpose, under the registry with this hash.
GoVerifies(e, payload, purpose, supplied, trusted, at) ==
  LET c == e.claims
      r == registries[supplied] IN
  /\ RegistryValid(r)
  /\ c.purpose = purpose
  /\ c.registry = trusted /\ supplied = trusted
  /\ c.payload = payload
  /\ r.issued <= at /\ c.issued <= at
  /\ c.expires # Never => c.issued <= c.expires /\ at <= c.expires
  /\ Eligible(r, c, at)
  /\ e.signature = [kid |-> c.kid, claims |-> c]

\* validatePublicKeyRegistry of the TypeScript verifier, which checks each key in one pass
\* and then follows every chain until it ends or meets one already followed.
ScriptRegistryValid(r) ==
  /\ r.version >= 1 /\ DOMAIN r.keys # {}
  /\ IF r.version = 1 THEN r.previous = 0 ELSE r.previous # 0
  /\ \A kid \in DOMAIN r.keys :
       LET key == r.keys[kid] IN
       /\ key.from <= key.until
       /\ CASE key.status = "revoked" -> key.revokedAt # Never /\ key.revokedAt >= key.from
            [] key.status \in {"active", "superseded"} -> key.revokedAt = Never
            [] OTHER -> FALSE
       /\ key.algorithm = Algorithm[kid]
       /\ key.supersedes # None =>
            /\ key.supersedes \in DOMAIN r.keys \ {kid}
            /\ r.keys[key.supersedes].status = "superseded"
            /\ r.keys[key.supersedes].algorithm = key.algorithm
  /\ ~ \E ring \in (SUBSET DOMAIN r.keys) \ {{}} : \A kid \in ring : r.keys[kid].supersedes \in ring

\* verifyDetached of the TypeScript verifier: its time is a Date.
ScriptVerifies(e, payload, purpose, supplied, trusted, time) ==
  LET c == e.claims
      r == registries[supplied]
      at == time - (time % TicksPerMilli) IN
  /\ c.purpose = purpose
  /\ c.registry = trusted /\ trusted = supplied
  /\ c.payload = payload
  /\ ScriptRegistryValid(r)
  /\ r.issued <= at
  /\ c.kid \in DOMAIN r.keys
  /\ LET key == r.keys[c.kid] IN
     /\ key.status = "active" /\ c.algorithm = key.algorithm
     /\ c.purpose \in key.purposes
     /\ ~ (c.issued > at \/ c.issued < key.from \/ c.issued > key.until)
     /\ ~ (at < key.from \/ at > key.until)
     /\ key.revokedAt # Never => at < key.revokedAt
  /\ c.expires # Never => ~ (c.expires < c.issued \/ at > c.expires)
  /\ e.signature = [kid |-> c.kid, claims |-> c]

-----------------------------------------------------------------------------

\* The two verifiers, written apart, decide alike on every envelope under every published
\* registry and expectation: the script decides as Go does at the start of its millisecond.
VerifiersAgree ==
  \A e \in envelopes, payload \in Payloads, purpose \in Purposes,
     supplied, trusted \in DOMAIN registries :
    ScriptVerifies(e, payload, purpose, supplied, trusted, now)
      = GoVerifies(e, payload, purpose, supplied, trusted, now - (now % TicksPerMilli))

\* The registries up to a number in which a key is not, or no longer, in use.
Withdrawn(kid, upTo) ==
  {i \in 1..upTo : kid \in DOMAIN registries[i].keys /\ registries[i].keys[kid].status # "active"}

\* What is accepted was signed, to the letter, with a key that the trusted registry gives
\* for this purpose and that no valid registry before it had withdrawn: neither altered
\* claims nor an old registry's signature, a rotated key or a misprint gets through.
AcceptedIsVouched ==
  \A e \in envelopes, payload \in Payloads, purpose \in Purposes,
     supplied, trusted \in DOMAIN registries :
    GoVerifies(e, payload, purpose, supplied, trusted, now) =>
      /\ [kid |-> e.claims.kid, claims |-> e.claims] \in signed
      /\ e.claims.payload = payload /\ e.claims.registry = trusted
      /\ purpose \in registries[trusted].keys[e.claims.kid].purposes
      /\ \A i \in Withdrawn(e.claims.kid, trusted) : ~ RegistryValid(registries[i])
=============================================================================
