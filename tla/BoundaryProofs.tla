--------------------------- MODULE BoundaryProofs ---------------------------
(***************************************************************************)
(* Theorems about what is taken from the other side of a boundary: a       *)
(* signed package, the identity of a registered catalog, the canonical     *)
(* form of a text and the messages of a stream.                            *)
(***************************************************************************)
EXTENDS MCTrust, ConnectStream,
        SequenceTheorems, FiniteSetTheorems, WellFoundedInduction, TLAPS

-----------------------------------------------------------------------------

(***************************************************************************)
(* Detached signatures, for any keys, registries and times. A registry is  *)
(* trusted only as the successor of one that was, so a key withdrawn once  *)
(* stays withdrawn along the chain; and a kid names one key, so the        *)
(* signature that verifies was made by it over these very claims.          *)
(***************************************************************************)

Statuses == {"active", "superseded", "revoked", "retired"}
Entries ==
  [algorithm : {Algorithm[k] : k \in Kids} \cup {"other"}, purposes : SUBSET Purposes,
   from : Nat, until : Nat, status : Statuses, supersedes : Kids \cup {None}, revokedAt : Nat]
FiniteKids == {K \in SUBSET Kids : IsFiniteSet(K)}
KeySets == UNION {[K -> Entries] : K \in FiniteKids}
PublicRegistries == [version : Nat, previous : Nat, issued : Nat, keys : KeySets]
Claims ==
  [payload : Payloads, purpose : Purposes, kid : Kids, algorithm : {Algorithm[k] : k \in Kids},
   registry : Nat, issued : Nat, expires : Nat]
Signatures == [kid : Kids, claims : Claims]

\* No key comes back into use in a later registry.
Follows(keys, later) ==
  \A kid \in DOMAIN keys :
    kid \in DOMAIN later /\ (keys[kid].status # "active" => later[kid].status # "active")

SignatureTypes ==
  /\ now \in 0..MaxTime
  /\ registries \in Seq(PublicRegistries) /\ registries # <<>>
  /\ envelopes \subseteq [claims : Claims, signature : Signatures]

SignatureInv ==
  /\ SignatureTypes
  /\ \A i, j \in DOMAIN registries : i <= j => Follows(registries[i].keys, registries[j].keys)
  /\ \A e \in envelopes : e.signature \in signed

LEMMA NeverIsLate == MaxTime \in Nat /\ Never \in Nat /\ \A t \in 0..MaxTime : t < Never
BY SignatureAssumption DEF Never

LEMMA EntryFields ==
  ASSUME NEW keys \in KeySets, NEW kid \in DOMAIN keys
  PROVE  /\ DOMAIN keys \subseteq Kids /\ kid \in Kids /\ keys[kid] \in Entries
         /\ keys[kid].status \in Statuses /\ keys[kid].supersedes \in Kids \cup {None}
         /\ keys[kid].from \in Nat /\ keys[kid].until \in Nat /\ keys[kid].revokedAt \in Nat
<1>1. PICK K \in FiniteKids : keys \in [K -> Entries]
  BY DEF KeySets
<1>2. kid \in Kids /\ DOMAIN keys \subseteq Kids /\ keys[kid] \in Entries
  BY <1>1 DEF FiniteKids
<1>3. \A e \in Entries : /\ e.status \in Statuses /\ e.supersedes \in Kids \cup {None}
         /\ e.from \in Nat /\ e.until \in Nat /\ e.revokedAt \in Nat
  BY DEF Entries
<1> HIDE DEF Statuses
<1> QED BY <1>2, <1>3

\* Entering a key, or changing one, makes a set of keys.
LEMMA WithEntryKeys ==
  ASSUME NEW keys \in KeySets, NEW kid \in Kids, NEW entry \in Entries
  PROVE  /\ WithEntry(keys, kid, entry) \in KeySets
         /\ DOMAIN WithEntry(keys, kid, entry) = DOMAIN keys \cup {kid}
         /\ WithEntry(keys, kid, entry)[kid] = entry
         /\ \A k \in DOMAIN keys : k # kid => WithEntry(keys, kid, entry)[k] = keys[k]
<1>1. PICK K \in FiniteKids : keys \in [K -> Entries]
  BY DEF KeySets
<1>2. DOMAIN keys = K /\ K \cup {kid} \in FiniteKids
  BY <1>1, FS_AddElement DEF FiniteKids
<1>3. WithEntry(keys, kid, entry) \in [K \cup {kid} -> Entries]
  BY <1>1, <1>2 DEF WithEntry
<1>4. WithEntry(keys, kid, entry) \in KeySets
  BY <1>2, <1>3 DEF KeySets
<1> QED BY <1>4 DEF WithEntry

\* A change that leaves no withdrawn key in use is one the next registry may make.
LEMMA EntryFollows ==
  ASSUME NEW keys \in KeySets, NEW kid \in Kids, NEW entry \in Entries,
         kid \in DOMAIN keys /\ keys[kid].status # "active" => entry.status # "active"
  PROVE  Follows(keys, WithEntry(keys, kid, entry))
<1> DEFINE later == WithEntry(keys, kid, entry)
<1>1. /\ DOMAIN later = DOMAIN keys \cup {kid} /\ later[kid] = entry
      /\ \A k \in DOMAIN keys : k # kid => later[k] = keys[k]
  BY WithEntryKeys
<1> HIDE DEF later
<1>2. Follows(keys, later)
  BY <1>1 DEF Follows
<1> QED BY <1>2 DEF later

LEMMA PublishKeeps ==
  ASSUME SignatureInv, NEW keys \in KeySets, Follows(Latest.keys, keys), Publish(keys)
  PROVE  SignatureInv'
<1> DEFINE L == Len(registries)
           r == [version |-> L + 1, previous |-> L, issued |-> now, keys |-> keys]
<1>1. registries \in Seq(PublicRegistries) /\ registries # <<>> /\ now \in Nat /\ now \in 0..MaxTime
  BY NeverIsLate DEF SignatureInv, SignatureTypes
<1>2. L \in Nat /\ L # 0 /\ DOMAIN registries = 1..L
  BY <1>1, EmptySeq, LenProperties
<1>3. r \in PublicRegistries /\ r.keys = keys
  BY <1>1, <1>2 DEF PublicRegistries
<1>4. registries' = Append(registries, r) /\ UNCHANGED <<now, signed, envelopes>>
  BY DEF Publish
<1> HIDE DEF r
<1>5. /\ registries' \in Seq(PublicRegistries) /\ registries' # <<>> /\ DOMAIN registries' = 1..(L + 1)
      /\ registries'[L + 1] = r /\ \A i \in 1..L : registries'[i] = registries[i]
  <2>1. Len(Append(registries, r)) = L + 1
    BY <1>1, <1>3, AppendProperties
  <2> QED BY <1>1, <1>2, <1>3, <1>4, <2>1, AppendProperties, LenProperties, EmptySeq
<1>6. ASSUME NEW i \in DOMAIN registries', NEW j \in DOMAIN registries', i <= j
      PROVE  Follows(registries'[i].keys, registries'[j].keys)
  <2>1. CASE j \in 1..L
    <3>1. i \in 1..L
      BY <1>2, <1>5, <1>6, <2>1
    <3> QED BY <1>2, <1>5, <1>6, <2>1, <3>1 DEF SignatureInv
  <2>2. CASE j = L + 1 /\ i \in 1..L
    <3>1. Follows(registries[i].keys, registries[L].keys) /\ registries[L] = Latest
      BY <1>2, <2>2 DEF SignatureInv, Latest
    <3>2. Follows(registries[i].keys, keys)
      BY <3>1 DEF Follows
    <3> QED BY <1>3, <1>5, <2>2, <3>2
  <2>3. CASE j = L + 1 /\ i = L + 1
    BY <2>3 DEF Follows
  <2> QED BY <1>2, <1>5, <2>1, <2>2, <2>3
<1> QED BY <1>1, <1>4, <1>5, <1>6 DEF SignatureInv, SignatureTypes

LEMMA LatestKeys ==
  ASSUME SignatureInv
  PROVE  Latest.keys \in KeySets /\ now \in Nat
<1>1. registries \in Seq(PublicRegistries) /\ registries # <<>> /\ now \in Nat
  BY NeverIsLate DEF SignatureInv, SignatureTypes
<1>2. Len(registries) \in DOMAIN registries
  BY <1>1, EmptySeq, LenProperties
<1>3. Latest \in PublicRegistries
  BY <1>1, <1>2, ElementOfSeq, LenProperties DEF Latest
<1> QED BY <1>1, <1>3 DEF PublicRegistries

LEMMA ActiveKeyEntry ==
  ASSUME NEW kid \in Kids, NEW from \in Nat, NEW purposes \in SUBSET Purposes,
         NEW old \in Kids \cup {None}
  PROVE  ActiveKey(kid, from, MaxTime, purposes, old) \in Entries
BY NeverIsLate DEF ActiveKey, Entries, Statuses

LEMMA RotateKeeps ==
  ASSUME SignatureInv, NEW old \in Kids, NEW new \in Kids, NEW purposes \in KeyPurposes,
         Rotate(old, new, purposes)
  PROVE  SignatureInv'
<1> DEFINE keys == Latest.keys
           superseded == [keys[old] EXCEPT !.status = "superseded"]
           between == WithEntry(keys, old, superseded)
           entry == ActiveKey(new, now, MaxTime, purposes, old)
<1>1. /\ old \in DOMAIN keys /\ new \notin DOMAIN keys /\ keys[old].status = "active"
      /\ Publish(WithEntry(between, new, entry))
  BY DEF Rotate
<1>2. keys \in KeySets /\ now \in Nat
  BY LatestKeys
<1>3. keys[old] \in Entries
  BY <1>1, <1>2, EntryFields
<1>4. superseded \in Entries
  BY <1>3 DEF Entries, Statuses
<1>5. entry \in Entries
  BY <1>2, ActiveKeyEntry, SignatureAssumption
<1> HIDE DEF keys, superseded, entry
<1>6. between \in KeySets /\ Follows(keys, between) /\ DOMAIN between = DOMAIN keys
  <2>1. superseded.status # "active"
    BY <1>3 DEF superseded, Entries
  <2>2. Follows(keys, between)
    BY <1>2, <1>4, <2>1, EntryFollows
  <2>3. between \in KeySets /\ DOMAIN between = DOMAIN keys \cup {old}
    BY <1>1, <1>2, <1>4, WithEntryKeys
  <2>4. DOMAIN keys \cup {old} = DOMAIN keys
    BY <1>1
  <2> QED BY <2>2, <2>3, <2>4
<1> HIDE DEF between
<1>7. WithEntry(between, new, entry) \in KeySets /\ Follows(between, WithEntry(between, new, entry))
  BY <1>1, <1>5, <1>6, WithEntryKeys, EntryFollows
<1>8. Follows(keys, WithEntry(between, new, entry))
  BY <1>6, <1>7 DEF Follows
<1> QED BY <1>1, <1>7, <1>8, PublishKeeps DEF keys

LEMMA RevokeKeeps ==
  ASSUME SignatureInv, NEW kid \in Kids, NEW at \in 0..now, Revoke(kid, at)
  PROVE  SignatureInv'
<1> DEFINE keys == Latest.keys
           entry == [keys[kid] EXCEPT !.status = "revoked", !.revokedAt = at]
<1>1. kid \in DOMAIN keys /\ Publish(WithEntry(keys, kid, entry))
  BY DEF Revoke
<1>2. keys \in KeySets /\ at \in Nat
  BY LatestKeys
<1>3. keys[kid] \in Entries
  BY <1>1, <1>2, EntryFields
<1>4. entry \in Entries /\ entry.status = "revoked"
  BY <1>2, <1>3 DEF Entries, Statuses
<1> HIDE DEF keys, entry
<1>5. WithEntry(keys, kid, entry) \in KeySets /\ Follows(keys, WithEntry(keys, kid, entry))
  BY <1>2, <1>4, WithEntryKeys, EntryFollows
<1> QED BY <1>1, <1>5, PublishKeeps DEF keys

LEMMA MisprintKeeps ==
  ASSUME SignatureInv, NEW kid \in Kids, Misprint(kid)
  PROVE  SignatureInv'
<1> DEFINE keys == Latest.keys
<1>1. PICK faulty \in {[keys[kid] EXCEPT !.supersedes = k] : k \in Kids}
         \cup {[keys[kid] EXCEPT !.status = s] : s \in {"superseded", "revoked", "retired"}}
         \cup {[keys[kid] EXCEPT !.from = 1, !.until = 0],
               [keys[kid] EXCEPT !.revokedAt = now],
               [keys[kid] EXCEPT !.algorithm = "other"]} :
       Publish(WithEntry(keys, kid, faulty))
  BY DEF Misprint
<1>2. keys \in KeySets /\ now \in Nat /\ kid \in DOMAIN keys
  BY LatestKeys DEF Misprint
<1>3. keys[kid] \in Entries
  BY <1>2, EntryFields
<1> HIDE DEF keys
<1>4. faulty \in Entries /\ (keys[kid].status # "active" => faulty.status # "active")
  <2>1. CASE faulty \in {[keys[kid] EXCEPT !.supersedes = k] : k \in Kids}
    BY <1>3, <2>1 DEF Entries, Statuses
  <2>2. CASE faulty \in {[keys[kid] EXCEPT !.status = s] : s \in {"superseded", "revoked", "retired"}}
    BY <1>3, <2>2 DEF Entries, Statuses
  <2>3. CASE faulty = [keys[kid] EXCEPT !.from = 1, !.until = 0]
    BY <1>3, <2>3 DEF Entries, Statuses
  <2>4. CASE faulty = [keys[kid] EXCEPT !.revokedAt = now]
    BY <1>2, <1>3, <2>4 DEF Entries, Statuses
  <2>5. CASE faulty = [keys[kid] EXCEPT !.algorithm = "other"]
    BY <1>3, <2>5 DEF Entries, Statuses
  <2> QED BY <2>1, <2>2, <2>3, <2>4, <2>5
<1>5. WithEntry(keys, kid, faulty) \in KeySets /\ Follows(keys, WithEntry(keys, kid, faulty))
  BY <1>2, <1>4, WithEntryKeys, EntryFollows
<1> QED BY <1>1, <1>5, PublishKeeps DEF keys

LEMMA SignKeeps ==
  ASSUME SignatureInv, NEW kid \in Kids, NEW c \in Claims, Sign(kid, c)
  PROVE  SignatureInv'
<1> DEFINE s == [kid |-> kid, claims |-> c]
           e == [claims |-> c, signature |-> s]
<1>1. s \in Signatures /\ e \in [claims : Claims, signature : Signatures] /\ e.signature = s
  BY DEF Signatures
<1>2. signed' = signed \cup {s} /\ envelopes' = envelopes \cup {e} /\ UNCHANGED <<now, registries>>
  BY DEF Sign
<1> HIDE DEF e, s
<1> QED BY <1>1, <1>2 DEF SignatureInv, SignatureTypes

LEMMA AlterKeeps ==
  ASSUME SignatureInv, NEW e \in envelopes, NEW c \in Altered(e.claims), Alter(e, c)
  PROVE  SignatureInv'
<1>1. e \in [claims : Claims, signature : Signatures] /\ registries \in Seq(PublicRegistries)
  BY DEF SignatureInv, SignatureTypes
<1>2. e.claims \in Claims /\ DOMAIN registries \subseteq Nat
  BY <1>1, LenProperties
<1>3. c \in Claims
  <2>1. CASE c \in {[e.claims EXCEPT !.payload = p] : p \in Payloads}
    BY <1>2, <2>1 DEF Claims
  <2>2. CASE c \in {[e.claims EXCEPT !.purpose = p] : p \in Purposes}
    BY <1>2, <2>2 DEF Claims
  <2>3. CASE c \in {[e.claims EXCEPT !.registry = r] : r \in DOMAIN registries}
    BY <1>2, <2>3 DEF Claims
  <2>4. CASE c \in {[e.claims EXCEPT !.kid = k, !.algorithm = Algorithm[k]] : k \in Kids}
    BY <1>2, <2>4 DEF Claims
  <2>5. CASE c = [e.claims EXCEPT !.expires = Never]
    BY <1>2, <2>5, NeverIsLate DEF Claims
  <2> QED BY <2>1, <2>2, <2>3, <2>4, <2>5 DEF Altered
<1> DEFINE f == [e EXCEPT !.claims = c]
<1>4. f \in [claims : Claims, signature : Signatures] /\ f.signature = e.signature
  BY <1>1, <1>3
<1>5. envelopes' = (envelopes \ {e}) \cup {f} /\ UNCHANGED <<now, registries, signed>>
  BY DEF Alter
<1> HIDE DEF f
<1> QED BY <1>4, <1>5 DEF SignatureInv, SignatureTypes

LEMMA SignatureInitially == SignatureInit => SignatureInv
<1> SUFFICES ASSUME SignatureInit PROVE SignatureInv
  OBVIOUS
<1> DEFINE entry == ActiveKey(FirstKid, 0, MaxTime, Purposes, None)
           keys == [k \in {FirstKid} |-> ActiveKey(k, 0, MaxTime, Purposes, None)]
           r == FirstRegistry
<1>1. \A k \in {FirstKid} : ActiveKey(k, 0, MaxTime, Purposes, None) \in Entries
  BY ActiveKeyEntry, SignatureAssumption
<1>2. keys \in [{FirstKid} -> Entries] /\ {FirstKid} \in FiniteKids
  BY <1>1, SignatureAssumption, FS_Singleton DEF FiniteKids
<1>3. keys \in KeySets
  BY <1>2 DEF KeySets
<1> HIDE DEF keys
<1>4. r \in PublicRegistries
  BY <1>3 DEF FirstRegistry, PublicRegistries, keys
<1> HIDE DEF r
<1>5. /\ <<r>> \in Seq(PublicRegistries) /\ <<r>> # <<>> /\ DOMAIN <<r>> = {1} /\ registries = <<r>>
  BY <1>4 DEF SignatureInit, r
<1>6. \A i, j \in DOMAIN registries : Follows(registries[i].keys, registries[j].keys)
  BY <1>5 DEF Follows
<1> QED BY <1>5, <1>6, NeverIsLate DEF SignatureInit, SignatureInv, SignatureTypes

LEMMA SignatureStep == SignatureInv /\ [SignatureNext]_signatureVars => SignatureInv'
<1> SUFFICES ASSUME SignatureInv, [SignatureNext]_signatureVars PROVE SignatureInv'
  OBVIOUS
<1>1. CASE Tick
  BY <1>1, NeverIsLate DEF Tick, SignatureInv, SignatureTypes
<1>2. ASSUME NEW kid \in Kids, NEW named \in Kids, NEW payload \in Payloads, NEW purpose \in Purposes,
             NEW registry \in DOMAIN registries, NEW life \in Lives,
             Sign(kid, ClaimsOf(named, payload, purpose, registry, life))
      PROVE  SignatureInv'
  <2>1. registry \in Nat /\ life.issued \in Nat /\ life.expires \in Nat
    BY ClaimsAssumption, LenProperties DEF SignatureInv, SignatureTypes
  <2>2. ClaimsOf(named, payload, purpose, registry, life) \in Claims
    BY <2>1 DEF ClaimsOf, Claims
  <2>3. PICK c \in Claims : c = ClaimsOf(named, payload, purpose, registry, life)
    BY <2>2
  <2> QED BY <1>2, <2>3, SignKeeps
<1>3. CASE UNCHANGED signatureVars
  BY <1>3 DEF signatureVars, SignatureInv, SignatureTypes
<1> QED BY <1>1, <1>2, <1>3, RotateKeeps, RevokeKeeps, MisprintKeeps, AlterKeeps DEF SignatureNext

LEMMA SignatureInvariant == SignatureSpec => []SignatureInv
BY SignatureInitially, SignatureStep, PTL DEF SignatureSpec

\* For any keys, purposes, registries and times, and whoever alters or replays what: what
\* VerifyDetached accepts was signed to the letter with a key the trusted registry gives
\* for that purpose, and a key no earlier registry had withdrawn.
THEOREM AcceptedAreVouched == SignatureSpec => []AcceptedIsVouched
<1>1. ASSUME SignatureInv PROVE AcceptedIsVouched
  <2> SUFFICES ASSUME NEW e \in envelopes, NEW payload \in Payloads, NEW purpose \in Purposes,
                      NEW supplied \in DOMAIN registries, NEW trusted \in DOMAIN registries,
                      GoVerifies(e, payload, purpose, supplied, trusted, now)
               PROVE  /\ [kid |-> e.claims.kid, claims |-> e.claims] \in signed
                      /\ e.claims.payload = payload /\ e.claims.registry = trusted
                      /\ purpose \in registries[trusted].keys[e.claims.kid].purposes
                      /\ Withdrawn(e.claims.kid, trusted) = {}
    BY DEF AcceptedIsVouched
  <2>1. /\ e.claims.purpose = purpose /\ e.claims.registry = trusted /\ supplied = trusted
        /\ e.claims.payload = payload
        /\ Eligible(registries[supplied], e.claims, now)
        /\ e.signature = [kid |-> e.claims.kid, claims |-> e.claims]
    BY DEF GoVerifies
  <2>2. e.signature \in signed
    BY <1>1 DEF SignatureInv
  <2>3. /\ e.claims.kid \in DOMAIN registries[trusted].keys
        /\ registries[trusted].keys[e.claims.kid].status = "active"
        /\ purpose \in registries[trusted].keys[e.claims.kid].purposes
    BY <2>1 DEF Eligible
  <2>4. DOMAIN registries = 1..Len(registries) /\ Len(registries) \in Nat
    BY <1>1, LenProperties DEF SignatureInv, SignatureTypes
  <2>5. ASSUME NEW i \in Withdrawn(e.claims.kid, trusted) PROVE FALSE
    <3>1. i \in DOMAIN registries /\ i <= trusted
      BY <2>4 DEF Withdrawn
    <3>2. Follows(registries[i].keys, registries[trusted].keys)
      BY <1>1, <3>1 DEF SignatureInv
    <3> QED BY <2>3, <3>2 DEF Follows, Withdrawn
  <2> QED BY <2>1, <2>2, <2>3, <2>5
<1> QED BY <1>1, SignatureInvariant, PTL
-----------------------------------------------------------------------------
(***************************************************************************)
(* The two verifiers.  Go walks up each chain of superseded keys as many   *)
(* steps as there are keys; the script looks for a ring.                   *)
(***************************************************************************)
\* A set of naturals that is not empty has a least element.
LEMMA LeastNatural == ASSUME NEW S, S \subseteq Nat, S # {} PROVE \E m \in S : \A k \in S : m <= k
<1> DEFINE R == OpToRel(<, Nat)
<1>1. IsWellFoundedOn(R, Nat)
  BY NatLessThanWellFounded
<1>2. \A i, j \in Nat : <<i, j>> \in R <=> i < j
  BY DEF OpToRel
<1> HIDE DEF R
<1>3. PICK m \in S : \A k \in S : <<k, m>> \notin R
  BY <1>1, WFMin
<1>4. ASSUME NEW k \in S PROVE m <= k
  <2>1. m \in Nat /\ k \in Nat /\ ~(k < m)
    BY <1>2, <1>3
  <2> QED BY <2>1
<1> QED BY <1>4

SupersededBy(keys, x) == IF x \in DOMAIN keys THEN keys[x].supersedes ELSE None
Climb(keys, kid, n) ==
  LET up[i \in 0..n] ==
        IF i = 0 THEN kid
        ELSE IF up[i - 1] \in DOMAIN keys THEN keys[up[i - 1]].supersedes ELSE None
  IN up
IsClimb(up, keys, kid, n) ==
  up = [i \in 0..n |->
          IF i = 0 THEN kid
          ELSE IF up[i - 1] \in DOMAIN keys THEN keys[up[i - 1]].supersedes ELSE None]

\* What a climb is, step by step.
LEMMA ClimbSteps ==
  ASSUME NEW keys, NEW kid, NEW n \in Nat, NEW up, IsClimb(up, keys, kid, n)
  PROVE  up[0] = kid /\ \A i \in 1..n : up[i] = SupersededBy(keys, up[i - 1])
<1> DEFINE f == [i \in 0..n |->
          IF i = 0 THEN kid
          ELSE IF up[i - 1] \in DOMAIN keys THEN keys[up[i - 1]].supersedes ELSE None]
<1>1. up = f
  BY DEF IsClimb
<1>2. \A i \in 0..n : f[i] = IF i = 0 THEN kid ELSE SupersededBy(keys, up[i - 1])
  BY DEF SupersededBy
<1> HIDE DEF f
<1> QED BY <1>1, <1>2

LEMMA ClimbsExist == ASSUME NEW keys, NEW kid, NEW n \in Nat PROVE \E up : IsClimb(up, keys, kid, n)
<1> DEFINE S == {k \in Nat : ~\E up : IsClimb(up, keys, kid, k)}
<1> SUFFICES ASSUME n \in S PROVE FALSE
  OBVIOUS
<1>1. PICK m \in S : \A k \in S : m <= k
  <2> HIDE DEF S
  <2> QED BY LeastNatural DEF S
<1>2. m # 0
  <2> DEFINE g == [i \in 0..0 |-> kid]
  <2>1. \A i \in 0..0 : kid = IF i = 0 THEN kid
          ELSE IF g[i - 1] \in DOMAIN keys THEN keys[g[i - 1]].supersedes ELSE None
    OBVIOUS
  <2>2. g = [i \in 0..0 |-> IF i = 0 THEN kid
          ELSE IF g[i - 1] \in DOMAIN keys THEN keys[g[i - 1]].supersedes ELSE None]
    BY <2>1, Zenon
  <2> HIDE DEF g
  <2>3. IsClimb(g, keys, kid, 0)
    BY <2>2 DEF IsClimb
  <2> QED BY <2>3
<1>3. m - 1 \in Nat \ S
  BY <1>1, <1>2
<1>4. PICK g : IsClimb(g, keys, kid, m - 1)
  BY <1>3
<1> DEFINE h == [i \in 0..m |-> IF i = m THEN SupersededBy(keys, g[m - 1]) ELSE g[i]]
<1>5. g[0] = kid /\ \A i \in 1..(m - 1) : g[i] = SupersededBy(keys, g[i - 1])
  BY <1>3, <1>4, ClimbSteps
<1>6. \A i \in 0..m : (IF i = m THEN SupersededBy(keys, g[m - 1]) ELSE g[i])
         = IF i = 0 THEN kid
           ELSE IF h[i - 1] \in DOMAIN keys THEN keys[h[i - 1]].supersedes ELSE None
  <2> SUFFICES ASSUME NEW i \in 0..m
               PROVE (IF i = m THEN SupersededBy(keys, g[m - 1]) ELSE g[i])
                       = IF i = 0 THEN kid ELSE SupersededBy(keys, h[i - 1])
    BY DEF SupersededBy
  <2>1. i # 0 => h[i - 1] = g[i - 1]
    BY <1>2
  <2>2. i # m /\ i # 0 => i \in 1..(m - 1)
    BY <1>2
  <2> HIDE DEF h
  <2> QED BY <1>2, <1>5, <2>1, <2>2
<1>7. h = [i \in 0..m |-> IF i = 0 THEN kid
           ELSE IF h[i - 1] \in DOMAIN keys THEN keys[h[i - 1]].supersedes ELSE None]
  BY <1>6, Zenon
<1> HIDE DEF h
<1> QED BY <1>7 DEF IsClimb

\* Above is the last step of a climb.
LEMMA AboveIsClimb ==
  ASSUME NEW keys, NEW kid, NEW n \in Nat
  PROVE  \E up : /\ Above(keys, kid, n) = up[n] /\ up[0] = kid
                 /\ \A i \in 1..n : up[i] = SupersededBy(keys, up[i - 1])
<1> DEFINE P(up) == up = [i \in 0..n |->
          IF i = 0 THEN kid
          ELSE IF up[i - 1] \in DOMAIN keys THEN keys[up[i - 1]].supersedes ELSE None]
<1>1. \E up : P(up)
  <2>1. PICK up : IsClimb(up, keys, kid, n)
    BY ClimbsExist
  <2>2. P(up)
    BY <2>1, Zenon DEF IsClimb
  <2> QED BY <2>2, Zenon
<1>2. P(CHOOSE up : P(up))
  BY <1>1, Zenon
<1>3. Climb(keys, kid, n) = CHOOSE up : P(up)
  BY Zenon DEF Climb
<1>4. IsClimb(Climb(keys, kid, n), keys, kid, n)
  BY <1>2, <1>3, Zenon DEF IsClimb
<1>5. Above(keys, kid, n) = Climb(keys, kid, n)[n]
  BY Zenon DEF Above, Climb
<1> HIDE DEF P
<1> DEFINE up == Climb(keys, kid, n)
<1>6. up[0] = kid /\ \A i \in 1..n : up[i] = SupersededBy(keys, up[i - 1])
  BY <1>4, ClimbSteps
<1> QED BY <1>5, <1>6

Ring(keys, ring) == \A kid \in ring : keys[kid].supersedes \in ring

\* A climb that starts in a ring never ends.
LEMMA RingsNeverEnd ==
  ASSUME NEW keys, NEW ring, ring \subseteq DOMAIN keys, Ring(keys, ring), NEW kid \in ring,
         None \notin DOMAIN keys, NEW n \in Nat
  PROVE  Above(keys, kid, n) # None
<1>1. PICK up : /\ Above(keys, kid, n) = up[n] /\ up[0] = kid
                /\ \A i \in 1..n : up[i] = SupersededBy(keys, up[i - 1])
  BY AboveIsClimb
<1> DEFINE S == {i \in 0..n : up[i] \notin ring}
<1> SUFFICES ASSUME S # {} PROVE FALSE
  BY <1>1
<1>2. PICK m \in S : \A k \in S : m <= k
  <2>1. S \subseteq Nat
    OBVIOUS
  <2> HIDE DEF S
  <2> QED BY <2>1, LeastNatural
<1>3. m # 0 /\ m \in 1..n /\ m - 1 \in 0..n /\ m - 1 \notin S
  BY <1>1, <1>2
<1>4. up[m - 1] \in ring /\ up[m] = SupersededBy(keys, up[m - 1])
  BY <1>1, <1>3
<1>5. up[m] \in ring
  BY <1>4 DEF SupersededBy, Ring
<1> QED BY <1>2, <1>5

\* A climb of as many steps as there are keys that has not ended went round a ring.
LEMMA EndlessMeansRing ==
  ASSUME NEW keys, IsFiniteSet(DOMAIN keys), None \notin DOMAIN keys,
         \A k \in DOMAIN keys : keys[k].supersedes # None => keys[k].supersedes \in DOMAIN keys,
         NEW kid \in DOMAIN keys, Above(keys, kid, Cardinality(DOMAIN keys)) # None
  PROVE  \E ring \in (SUBSET DOMAIN keys) \ {{}} : Ring(keys, ring)
<1> DEFINE D == DOMAIN keys
           n == Cardinality(D)
<1>1. n \in Nat
  BY FS_CardinalityType
<1>2. PICK up : /\ Above(keys, kid, n) = up[n] /\ up[0] = kid
                /\ \A i \in 1..n : up[i] = SupersededBy(keys, up[i - 1])
  BY <1>1, AboveIsClimb
<1>3. up[n] # None
  BY <1>2
<1> HIDE DEF n
\* Every step is at a key: the last one is, and a step that is not stays so.
<1>4. \A i \in 0..n : up[i] \in D
  <2> DEFINE S == {d \in 0..n : up[n - d] = None}
             T == {i \in 0..n : up[i] \notin D \cup {None}}
  <2>1. T = {}
    <3> SUFFICES ASSUME T # {} PROVE FALSE
      OBVIOUS
    <3>1. PICK m \in T : \A k \in T : m <= k
      <4>1. T \subseteq Nat
        BY <1>1
      <4> HIDE DEF T
      <4> QED BY <4>1, LeastNatural
    <3>2. m # 0 /\ m \in 1..n /\ m - 1 \in 0..n /\ m - 1 \notin T
      BY <1>1, <1>2, <3>1
    <3>3. up[m - 1] \in D \cup {None} /\ up[m] = SupersededBy(keys, up[m - 1])
      BY <1>2, <3>2
    <3>4. up[m] \in D \cup {None}
      BY <3>3 DEF SupersededBy
    <3> QED BY <3>1, <3>4
  <2>2. S = {}
    <3> SUFFICES ASSUME S # {} PROVE FALSE
      OBVIOUS
    <3>1. PICK m \in S : \A k \in S : m <= k
      <4>1. S \subseteq Nat
        BY <1>1
      <4> HIDE DEF S
      <4> QED BY <4>1, LeastNatural
    <3>2. m # 0 /\ m \in 1..n
      BY <1>1, <1>3, <3>1
    <3>3. m - 1 \in 0..n /\ m - 1 \notin S /\ n - (m - 1) \in 1..n /\ (n - (m - 1)) - 1 = n - m
      BY <1>1, <3>1, <3>2
    <3>4. up[n - (m - 1)] = SupersededBy(keys, up[n - m])
      BY <1>2, <3>3
    <3>5. up[n - m] = None /\ up[n - (m - 1)] # None
      BY <3>1, <3>3
    <3> QED BY <3>4, <3>5 DEF SupersededBy
  <2>3. ASSUME NEW i \in 0..n, up[i] = None PROVE FALSE
    <3>1. n - i \in 0..n /\ n - (n - i) = i
      BY <1>1
    <3> QED BY <2>2, <2>3, <3>1
  <2> QED BY <2>1, <2>3
<1>5. PICK a \in 0..n, b \in 0..n : a < b /\ up[a] = up[b]
  <2> DEFINE f == [i \in 0..n |-> up[i]]
  <2>1. f \in [0..n -> D]
    BY <1>4
  <2>2. IsFiniteSet(0..n) /\ Cardinality(0..n) = n + 1
    BY <1>1, FS_Interval
  <2>3. \E x, y \in 0..n : x # y /\ f[x] = f[y]
    <3> HIDE DEF f
    <3> QED BY <1>1, <2>1, <2>2, FS_PigeonHole DEF n
  <2>4. PICK x \in 0..n, y \in 0..n : x # y /\ up[x] = up[y]
    BY <2>3
  <2>5. CASE x < y
    BY <2>4, <2>5
  <2>6. CASE y < x
    BY <2>4, <2>6
  <2> QED BY <1>1, <2>4, <2>5, <2>6
<1> DEFINE ring == {up[i] : i \in a..(b - 1)}
<1>6. ring \subseteq D /\ up[a] \in ring
  BY <1>1, <1>4, <1>5
<1>7. ASSUME NEW i \in a..(b - 1) PROVE keys[up[i]].supersedes \in ring
  <2>1. i \in 0..n /\ i + 1 \in 1..n /\ (i + 1) - 1 = i /\ (i + 1 = b \/ i + 1 \in a..(b - 1))
    BY <1>1, <1>5
  <2>2. up[i + 1] = SupersededBy(keys, up[i]) /\ up[i] \in D
    BY <1>2, <1>4, <2>1
  <2>3. keys[up[i]].supersedes = up[i + 1]
    BY <2>2 DEF SupersededBy
  <2> QED BY <1>5, <1>6, <2>1, <2>3
<1>8. Ring(keys, ring)
  BY <1>7 DEF Ring
<1> HIDE DEF ring
<1> QED BY <1>6, <1>8

\* What validateRegistry finds valid validatePublicKeyRegistry does, and the other way round.
LEMMA RegistriesDecidedAlike ==
  ASSUME NEW r \in PublicRegistries, IsFiniteSet(DOMAIN r.keys)
  PROVE  RegistryValid(r) <=> ScriptRegistryValid(r)
<1>1. r.keys \in KeySets /\ r.version \in Nat /\ r.previous \in Nat
  BY DEF PublicRegistries
<1>2. \A kid \in DOMAIN r.keys :
        /\ kid \in Kids /\ r.keys[kid].status \in Statuses /\ r.keys[kid].supersedes \in Kids \cup {None}
        /\ r.keys[kid].from \in Nat /\ r.keys[kid].until \in Nat /\ r.keys[kid].revokedAt \in Nat
  BY <1>1, EntryFields
<1>3. None \notin DOMAIN r.keys
  BY <1>2, ClaimsAssumption
<1> DEFINE Sound(kid) ==
             LET key == r.keys[kid] IN
             /\ key.from <= key.until
             /\ \/ key.status = "revoked" /\ key.revokedAt # Never /\ key.from <= key.revokedAt
                \/ key.status \in {"active", "superseded"} /\ key.revokedAt = Never
             /\ key.algorithm = Algorithm[kid]
             /\ key.supersedes # None =>
                  /\ key.supersedes # kid /\ key.supersedes \in DOMAIN r.keys
                  /\ r.keys[key.supersedes].status = "superseded"
                  /\ r.keys[key.supersedes].algorithm = key.algorithm
           ScriptSound(kid) ==
             LET key == r.keys[kid] IN
             /\ key.from <= key.until
             /\ CASE key.status = "revoked" -> key.revokedAt # Never /\ key.revokedAt >= key.from
                  [] key.status \in {"active", "superseded"} -> key.revokedAt = Never
                  [] OTHER -> FALSE
             /\ key.algorithm = Algorithm[kid]
             /\ key.supersedes # None =>
                  /\ key.supersedes \in DOMAIN r.keys \ {kid}
                  /\ r.keys[key.supersedes].status = "superseded"
                  /\ r.keys[key.supersedes].algorithm = key.algorithm
           Rings == \E ring \in (SUBSET DOMAIN r.keys) \ {{}} : Ring(r.keys, ring)
<1>4. ASSUME NEW kid \in DOMAIN r.keys PROVE Sound(kid) <=> ScriptSound(kid)
  BY <1>2 DEF Statuses
<1>5. RegistryValid(r) <=> /\ r.version > 0 /\ DOMAIN r.keys # {}
                           /\ (r.version = 1) = (r.previous = 0)
                           /\ \A kid \in DOMAIN r.keys : Sound(kid)
                           /\ ChainsEnd(r.keys)
  BY Zenon DEF RegistryValid
<1>6. ScriptRegistryValid(r) <=> /\ r.version >= 1 /\ DOMAIN r.keys # {}
                                 /\ IF r.version = 1 THEN r.previous = 0 ELSE r.previous # 0
                                 /\ \A kid \in DOMAIN r.keys : ScriptSound(kid)
                                 /\ ~ Rings
  BY Zenon DEF ScriptRegistryValid, Ring
<1>7. ASSUME \A kid \in DOMAIN r.keys : Sound(kid) PROVE ChainsEnd(r.keys) <=> ~ Rings
  <2>1. Cardinality(DOMAIN r.keys) \in Nat
    BY FS_CardinalityType
  <2>2. ASSUME Rings PROVE ~ ChainsEnd(r.keys)
    <3>1. PICK ring \in (SUBSET DOMAIN r.keys) \ {{}} : Ring(r.keys, ring)
      BY <2>2
    <3>2. PICK kid \in ring : TRUE
      BY <3>1
    <3>3. Above(r.keys, kid, Cardinality(DOMAIN r.keys)) # None
      BY <1>3, <2>1, <3>1, RingsNeverEnd
    <3> QED BY <3>1, <3>3 DEF ChainsEnd
  <2>3. ASSUME ~ ChainsEnd(r.keys) PROVE Rings
    <3>1. PICK kid \in DOMAIN r.keys : Above(r.keys, kid, Cardinality(DOMAIN r.keys)) # None
      BY <2>3 DEF ChainsEnd
    <3>2. \A k \in DOMAIN r.keys : r.keys[k].supersedes # None => r.keys[k].supersedes \in DOMAIN r.keys
      BY <1>7
    <3> HIDE DEF Sound, ScriptSound
    <3> QED BY <1>3, <3>1, <3>2, EndlessMeansRing
  <2> QED BY <2>2, <2>3
<1>8. (r.version > 0 <=> r.version >= 1)
      /\ (r.version > 0 => ((r.version = 1) = (r.previous = 0)
            <=> IF r.version = 1 THEN r.previous = 0 ELSE r.previous # 0))
  BY <1>1
<1> HIDE DEF Sound, ScriptSound, Rings
<1> QED BY <1>4, <1>5, <1>6, <1>7, <1>8

LEMMA FinitelyManyKeys == ASSUME NEW keys \in KeySets PROVE IsFiniteSet(DOMAIN keys)
<1>1. PICK K \in FiniteKids : keys \in [K -> Entries]
  BY DEF KeySets
<1> QED BY <1>1 DEF FiniteKids

LEMMA Milliseconds ==
  ASSUME NEW t \in 0..MaxTime
  PROVE  t - (t % TicksPerMilli) \in Int /\ t - (t % TicksPerMilli) < Never
<1>1. t \in Nat /\ TicksPerMilli \in Nat /\ TicksPerMilli > 0 /\ t < Never /\ Never \in Nat
  BY NeverIsLate, SignatureAssumption
<1>2. t % TicksPerMilli \in 0..(TicksPerMilli - 1)
  BY <1>1
<1> QED BY <1>1, <1>2

\* SignDetached's counterparts agree for any registries, keys and times: the script, whose
\* clock counts milliseconds, accepts what Go accepts at the start of the millisecond.
THEOREM VerifiersDecideAlike == SignatureSpec => []VerifiersAgree
<1>1. ASSUME SignatureInv PROVE VerifiersAgree
  <2> SUFFICES ASSUME NEW e \in envelopes, NEW payload \in Payloads, NEW purpose \in Purposes,
                      NEW supplied \in DOMAIN registries, NEW trusted \in DOMAIN registries
               PROVE  ScriptVerifies(e, payload, purpose, supplied, trusted, now)
                        = GoVerifies(e, payload, purpose, supplied, trusted, now - (now % TicksPerMilli))
    BY DEF VerifiersAgree
  <2> DEFINE c == e.claims
             r == registries[supplied]
             at == now - (now % TicksPerMilli)
             key == r.keys[c.kid]
  <2>1. at \in Int /\ at < Never /\ Never \in Nat
    BY <1>1, Milliseconds, NeverIsLate DEF SignatureInv, SignatureTypes
  <2>2. r \in PublicRegistries
    <3>1. registries \in Seq(PublicRegistries)
      BY <1>1 DEF SignatureInv, SignatureTypes
    <3> QED BY <3>1, ElementOfSeq, LenProperties
  <2>3. r.keys \in KeySets /\ r.issued \in Nat
    BY <2>2 DEF PublicRegistries
  <2>4. c \in Claims
    BY <1>1 DEF SignatureInv, SignatureTypes
  <2>5. c.issued \in Nat /\ c.expires \in Nat
    BY <2>4 DEF Claims
  <2>6. RegistryValid(r) <=> ScriptRegistryValid(r)
    BY <2>2, <2>3, FinitelyManyKeys, RegistriesDecidedAlike
  <2>7. c.kid \in DOMAIN r.keys => key.from \in Nat /\ key.until \in Nat /\ key.revokedAt \in Nat
    BY <2>3, EntryFields
  <2> DEFINE Go == /\ RegistryValid(r)
                   /\ c.purpose = purpose
                   /\ c.registry = trusted /\ supplied = trusted
                   /\ c.payload = payload
                   /\ r.issued <= at /\ c.issued <= at
                   /\ c.expires # Never => c.issued <= c.expires /\ at <= c.expires
                   /\ /\ c.kid \in DOMAIN r.keys
                      /\ key.status = "active"
                      /\ key.algorithm = c.algorithm /\ c.purpose \in key.purposes
                      /\ key.from <= c.issued /\ c.issued <= key.until
                      /\ key.from <= at /\ at <= key.until
                      /\ at < key.revokedAt
                   /\ e.signature = [kid |-> c.kid, claims |-> c]
             Script == /\ c.purpose = purpose
                       /\ c.registry = trusted /\ trusted = supplied
                       /\ c.payload = payload
                       /\ ScriptRegistryValid(r)
                       /\ r.issued <= at
                       /\ c.kid \in DOMAIN r.keys
                       /\ /\ key.status = "active" /\ c.algorithm = key.algorithm
                          /\ c.purpose \in key.purposes
                          /\ ~ (c.issued > at \/ c.issued < key.from \/ c.issued > key.until)
                          /\ ~ (at < key.from \/ at > key.until)
                          /\ key.revokedAt # Never => at < key.revokedAt
                       /\ c.expires # Never => ~ (c.expires < c.issued \/ at > c.expires)
                       /\ e.signature = [kid |-> c.kid, claims |-> c]
  <2>8. GoVerifies(e, payload, purpose, supplied, trusted, at) = Go
    BY Zenon DEF GoVerifies, Eligible
  <2>9. ScriptVerifies(e, payload, purpose, supplied, trusted, now) = Script
    BY Zenon DEF ScriptVerifies
  <2> HIDE DEF at, r, c, key
  <2>10. Go = Script
    BY <2>1, <2>3, <2>5, <2>6, <2>7
  <2> HIDE DEF Go, Script
  <2>11. GoVerifies(e, payload, purpose, supplied, trusted, at)
           = ScriptVerifies(e, payload, purpose, supplied, trusted, now)
    BY <2>8, <2>9, <2>10, Zenon
  <2> QED BY <2>11 DEF at
<1> QED BY <1>1, SignatureInvariant, PTL

-----------------------------------------------------------------------------

(***************************************************************************)
(* Content identity, for any catalogs, registries and projections. Both    *)
(* registrars keep what they registered under the identity of its content, *)
(* and the digest covers every member a projection does not exclude, hence *)
(* equal identities have equal content.                                    *)
(***************************************************************************)

\* A document is the record of its type, projection and members, and these are a function.
IsFunction(f) == f = [m \in DOMAIN f |-> f[m]]
IsDoc(d) ==
  /\ d = [type |-> d.type, projection |-> d.projection, members |-> d.members]
  /\ IsFunction(d.members)

Computed(projection) == {"id", "logical_payload_sha256"} \cup projection.equivalent

LEMMA IdentifiedIsDoc ==
  ASSUME NEW type, NEW projection, NEW members
  PROVE  LET d == Identified(type, projection, members) IN
         /\ IsDoc(d) /\ d.type = type /\ d.projection = projection
         /\ DOMAIN d.members = Computed(projection) \cup DOMAIN members
         /\ \A m \in DOMAIN members \ Computed(projection) : d.members[m] = members[m]
<1> DEFINE digest == [type |-> type, covered |-> [m \in DOMAIN members \ projection.excluded |-> members[m]]]
           f == [m \in Computed(projection) \cup DOMAIN members |->
                  IF m \in Computed(projection) THEN digest ELSE members[m]]
           d == [type |-> type, projection |-> projection, members |-> f]
<1>1. Identified(type, projection, members) = d
  BY Zenon DEF Identified, Computed
<1>2. DOMAIN f = Computed(projection) \cup DOMAIN members
      /\ \A m \in DOMAIN members \ Computed(projection) : f[m] = members[m]
  OBVIOUS
<1>3. IsFunction(f)
  BY DEF IsFunction
<1> HIDE DEF f
<1>4. d.type = type /\ d.projection = projection /\ d.members = f
      /\ d = [type |-> d.type, projection |-> d.projection, members |-> d.members]
  OBVIOUS
<1> HIDE DEF d
<1>5. IsDoc(d)
  BY <1>3, <1>4 DEF IsDoc
<1> QED BY <1>1, <1>2, <1>4, <1>5

LEMMA TamperedIsDoc ==
  ASSUME NEW d, IsDoc(d), NEW field \in DOMAIN d.members, NEW value
  PROVE  LET t == Tampered(d, field, value) IN
         /\ IsDoc(t) /\ t.type = d.type /\ t.projection = d.projection
         /\ DOMAIN t.members = DOMAIN d.members
         /\ t.members[field] = value
         /\ \A m \in DOMAIN d.members \ {field} : t.members[m] = d.members[m]
<1> DEFINE f == [d.members EXCEPT ![field] = value]
           t == [type |-> d.type, projection |-> d.projection, members |-> f]
<1>1. Tampered(d, field, value) = t
  <2>1. [d EXCEPT !.members = f] = t
    BY DEF IsDoc
  <2> QED BY <2>1 DEF Tampered
<1>2. DOMAIN f = DOMAIN d.members /\ f[field] = value
      /\ \A m \in DOMAIN d.members \ {field} : f[m] = d.members[m]
  OBVIOUS
<1>3. IsFunction(f)
  BY DEF IsFunction
<1> HIDE DEF f
<1>4. t.type = d.type /\ t.projection = d.projection /\ t.members = f
      /\ t = [type |-> t.type, projection |-> t.projection, members |-> t.members]
  OBVIOUS
<1> HIDE DEF t
<1>5. IsDoc(t)
  BY <1>3, <1>4 DEF IsDoc
<1> QED BY <1>1, <1>2, <1>4, <1>5

LEMMA DocsEqual ==
  ASSUME NEW c, NEW d, IsDoc(c), IsDoc(d), c.type = d.type, c.projection = d.projection,
         DOMAIN c.members = DOMAIN d.members, \A m \in DOMAIN c.members : c.members[m] = d.members[m]
  PROVE  c = d /\ c.members = d.members
<1>1. c.members = d.members
  BY DEF IsDoc, IsFunction
<1> QED BY <1>1 DEF IsDoc

\* Documents with one digest agree on what is covered.
LEMMA DigestCovers ==
  ASSUME NEW c, NEW d, Digest(c) = Digest(d), c.projection = d.projection
  PROVE  \A m : m \in DOMAIN c.members /\ m \in DOMAIN d.members /\ m \notin c.projection.excluded
                 => c.members[m] = d.members[m]
<1> DEFINE f == [k \in DOMAIN c.members \ c.projection.excluded |-> c.members[k]]
           g == [k \in DOMAIN d.members \ d.projection.excluded |-> d.members[k]]
<1>1. f = g
  BY DEF Digest
<1> TAKE m
<1> HAVE m \in DOMAIN c.members /\ m \in DOMAIN d.members /\ m \notin c.projection.excluded
<1>2. f[m] = c.members[m] /\ g[m] = d.members[m]
  OBVIOUS
<1> HIDE DEF f, g
<1> QED BY <1>1, <1>2

CatalogMembers == {"id", "hash", "logical_payload_sha256", "source_registry_hash", "items"}
UnitMembers == {"id", "logical_payload_sha256", "catalog_hash", "members", "catalog_registry_hash"}

\* What is kept: documents the verifiers looked at, and the unit in its frozen schema.
Kept(a) ==
  /\ IsDoc(a[1]) /\ IsDoc(a[3])
  /\ Associated(a[1], a[2], a[3]) /\ UnitSchemaValid(a[3]) /\ DOMAIN a[3].members = UnitMembers

\* One identity of a catalog, one catalog.
LEMMA CatalogsEqual ==
  ASSUME NEW c, NEW d, IsDoc(c), IsDoc(d), CatalogHolds(c), CatalogHolds(d),
         c.members.id = d.members.id
  PROVE  c = d
<1>1. /\ DOMAIN c.members = CatalogMembers /\ DOMAIN d.members = CatalogMembers
      /\ c.type = d.type /\ c.projection = d.projection /\ c.projection = FrozenOf("catalog")
      /\ IdentityHolds(c) /\ IdentityHolds(d)
  BY DEF CatalogHolds, CatalogMembers
<1>2. /\ c.projection.equivalent = {"hash"}
      /\ "items" \notin c.projection.excluded /\ "source_registry_hash" \notin c.projection.excluded
  BY <1>1 DEF FrozenOf, Stored
<1>3. /\ c.members["id"] = Digest(c) /\ d.members["id"] = Digest(d)
      /\ c.members["hash"] = Digest(c) /\ d.members["hash"] = Digest(d)
      /\ c.members["logical_payload_sha256"] = Digest(c) /\ d.members["logical_payload_sha256"] = Digest(d)
  BY <1>1, <1>2 DEF IdentityHolds
<1>4. Digest(c) = Digest(d)
  BY <1>3
<1>5. c.members["items"] = d.members["items"]
      /\ c.members["source_registry_hash"] = d.members["source_registry_hash"]
  <2>1. \A m : m \in DOMAIN c.members /\ m \in DOMAIN d.members /\ m \notin c.projection.excluded
                 => c.members[m] = d.members[m]
    BY <1>1, <1>4, DigestCovers
  <2>2. \A m \in {"items", "source_registry_hash"} :
           m \in DOMAIN c.members /\ m \in DOMAIN d.members /\ m \notin c.projection.excluded
    BY <1>1, <1>2 DEF CatalogMembers
  <2> QED BY <2>1, <2>2
<1>6. \A m \in DOMAIN c.members : c.members[m] = d.members[m]
  BY <1>1, <1>3, <1>4, <1>5 DEF CatalogMembers
<1> QED BY <1>1, <1>6, DocsEqual

LEMMA UnitDocsEqual ==
  ASSUME NEW u, NEW v, IsDoc(u), IsDoc(v), UnitSchemaValid(u), UnitSchemaValid(v),
         IdentityHolds(u), IdentityHolds(v), DOMAIN u.members = UnitMembers,
         DOMAIN v.members = UnitMembers, u.members.id = v.members.id
  PROVE  u.members = v.members
<1>1. u.type = v.type /\ u.projection = v.projection /\ u.projection = FrozenOf("release_unit")
  BY DEF UnitSchemaValid
<1>2. /\ u.projection.equivalent = {}
      /\ {"catalog_hash", "members", "catalog_registry_hash"} \cap u.projection.excluded = {}
  BY <1>1 DEF FrozenOf, Stored
<1>3. /\ u.members["id"] = Digest(u) /\ v.members["id"] = Digest(v)
      /\ u.members["logical_payload_sha256"] = Digest(u) /\ v.members["logical_payload_sha256"] = Digest(v)
  BY <1>1 DEF IdentityHolds
<1>4. Digest(u) = Digest(v)
  BY <1>3
<1>5. \A m \in {"catalog_hash", "members", "catalog_registry_hash"} : u.members[m] = v.members[m]
  <2>1. \A m : m \in DOMAIN u.members /\ m \in DOMAIN v.members /\ m \notin u.projection.excluded
                 => u.members[m] = v.members[m]
    BY <1>1, <1>4, DigestCovers
  <2>2. \A m \in {"catalog_hash", "members", "catalog_registry_hash"} :
           m \in DOMAIN u.members /\ m \in DOMAIN v.members /\ m \notin u.projection.excluded
    BY <1>2 DEF UnitMembers
  <2> QED BY <2>1, <2>2
<1>6. \A m \in DOMAIN u.members : u.members[m] = v.members[m]
  BY <1>3, <1>4, <1>5 DEF UnitMembers
<1> QED BY <1>1, <1>6, DocsEqual

\* One identity of a unit, one unit and the catalog it names.
LEMMA UnitsEqual ==
  ASSUME NEW a, NEW b, Kept(a), Kept(b), a[3].members.id = b[3].members.id
  PROVE  a[1] = b[1] /\ a[3].members = b[3].members
<1>1. a[3].members = b[3].members
  BY UnitDocsEqual DEF Kept, Associated
<1>2. a[1].members.hash = b[1].members.hash
  BY <1>1 DEF Kept, Associated
<1>3. CatalogHolds(a[1]) /\ CatalogHolds(b[1]) /\ IsDoc(a[1]) /\ IsDoc(b[1])
  BY DEF Kept, Associated
<1>4. /\ IdentityHolds(a[1]) /\ a[1].projection.equivalent = {"hash"}
       /\ IdentityHolds(b[1]) /\ b[1].projection.equivalent = {"hash"}
  BY <1>3 DEF CatalogHolds, FrozenOf
<1>5. a[1].members["id"] = a[1].members["hash"] /\ b[1].members["id"] = b[1].members["hash"]
  BY <1>4 DEF IdentityHolds
<1> QED BY <1>1, <1>2, <1>3, <1>5, CatalogsEqual

-----------------------------------------------------------------------------
\* The two verifiers of a catalog, and of an association.
LEMMA AscendingAlike ==
  ASSUME NEW items \in Seq(Nat)
  PROVE  /\ items # <<>> <=> Len(items) >= 1
         /\ Ascending(items) <=> ~ \E i \in 2..Len(items) : items[i] <= items[i - 1]
<1>1. Len(items) \in Nat /\ DOMAIN items = 1..Len(items) /\ \A i \in 1..Len(items) : items[i] \in Nat
  BY LenProperties, ElementOfSeq
<1>2. items # <<>> <=> Len(items) >= 1
  BY <1>1, EmptySeq
<1>3. ASSUME Ascending(items), NEW i \in 2..Len(items), items[i] <= items[i - 1] PROVE FALSE
  <2>1. i - 1 \in 1..(Len(items) - 1) /\ (i - 1) + 1 = i /\ i \in 1..Len(items) /\ i - 1 \in 1..Len(items)
    BY <1>1
  <2>2. items[i - 1] < items[i]
    BY <1>3, <2>1 DEF Ascending
  <2> QED BY <1>1, <1>3, <2>1, <2>2
<1>4. ASSUME \A i \in 2..Len(items) : ~ items[i] <= items[i - 1], NEW j \in 1..(Len(items) - 1)
      PROVE  items[j] < items[j + 1]
  <2>1. j + 1 \in 2..Len(items) /\ (j + 1) - 1 = j /\ j \in 1..Len(items) /\ j + 1 \in 1..Len(items)
    BY <1>1
  <2>2. ~ items[j + 1] <= items[j]
    BY <1>4, <2>1
  <2> QED BY <1>1, <2>1, <2>2
<1>5. Ascending(items) <=> ~ \E i \in 2..Len(items) : items[i] <= items[i - 1]
  BY <1>3, <1>4 DEF Ascending
<1> QED BY <1>2, <1>5

LEMMA IdentitiesAlike == ASSUME NEW d PROVE IdentityHolds(d) <=> ScriptIdentityHolds(d)
BY DEF IdentityHolds, ScriptIdentityHolds

LEMMA CatalogsAlike ==
  ASSUME NEW d, d.members.items \in Seq(Nat)
  PROVE  CatalogHolds(d) <=> ScriptCatalogHolds(d)
BY AscendingAlike, IdentitiesAlike DEF CatalogHolds, ScriptCatalogHolds

\* A unit's members of the catalog's kind: one, twice the same, or none.
Named(members, object, content) ==
  LET entry == [object |-> object, content |-> content] IN
  members \in {<<entry>>, <<entry, entry>>, <<>>}

LEMMA AssociationsAlike ==
  ASSUME NEW c, NEW b, NEW u, c.members.items \in Seq(Nat), NEW object, NEW content,
         Named(u.members.members, object, content)
  PROVE  Associated(c, b, u) <=> ScriptAssociated(c, b, u)
<1> DEFINE entry == [object |-> object, content |-> content]
           named == u.members.members
           Go == Len(named) = 1 /\ named[1] = [object |-> c.members.id, content |-> c.members.hash]
           Script == \E only \in DOMAIN named :
                       /\ DOMAIN named = {only}
                       /\ named[only].object = c.members.id
                       /\ named[only].content = c.members.hash
<1>1. \A x, y : entry = [object |-> x, content |-> y] <=> entry.object = x /\ entry.content = y
  OBVIOUS
<1> HIDE DEF entry
<1>2. Go <=> Script
  <2>1. CASE named = <<entry>>
    <3>1. DOMAIN named = {1} /\ named[1] = entry /\ Len(named) = 1
      BY <2>1
    <3> HIDE DEF named
    <3>2. Go <=> entry.object = c.members.id /\ entry.content = c.members.hash
      BY <1>1, <3>1
    <3>3. Script <=> entry.object = c.members.id /\ entry.content = c.members.hash
      BY <3>1
    <3> HIDE DEF Go, Script
    <3> QED BY <3>2, <3>3
  <2>2. CASE named = <<entry, entry>>
    <3>1. DOMAIN named = {1, 2} /\ Len(named) = 2
      BY <2>2
    <3> HIDE DEF named
    <3>2. ~ Go
      BY <3>1
    <3>3. ASSUME NEW only, {1, 2} = {only} PROVE FALSE
      <4>1. 1 \in {only} /\ 2 \in {only}
        BY <3>3
      <4> QED BY <4>1
    <3>4. ~ Script
      BY <3>1, <3>3
    <3> HIDE DEF Go, Script
    <3> QED BY <3>2, <3>4
  <2>3. CASE named = <<>>
    <3>1. DOMAIN named = {} /\ Len(named) = 0
      BY <2>3
    <3> HIDE DEF named
    <3>2. ~ Go
      BY <3>1
    <3>3. ~ Script
      BY <3>1
    <3> HIDE DEF Go, Script
    <3> QED BY <3>2, <3>3
  <2> HIDE DEF Go, Script
  <2> QED BY <2>1, <2>2, <2>3 DEF Named, entry
<1>3. CatalogHolds(c) <=> ScriptCatalogHolds(c)
  BY CatalogsAlike
<1>4. IdentityHolds(u) <=> ScriptIdentityHolds(u)
  BY IdentitiesAlike
<1> QED BY <1>2, <1>3, <1>4, Zenon DEF Associated, ScriptAssociated

-----------------------------------------------------------------------------
\* What is asked: the documents the verifiers look at.

LEMMA CatalogsAsked ==
  ASSUME NEW catalog \in Catalogs
  PROVE  /\ IsDoc(catalog) /\ "items" \in DOMAIN catalog.members
         /\ catalog.members.items \in Seq(Nat)
<1>1. PICK projection \in CatalogProjections, items \in Items, registry \in Registries :
        catalog = Identified("catalog", projection, [items |-> items, source_registry_hash |-> registry])
  BY DEF Catalogs
<1> DEFINE members == [items |-> items, source_registry_hash |-> registry]
<1>2. DOMAIN members = {"items", "source_registry_hash"} /\ members["items"] = items
  OBVIOUS
<1>3. projection.equivalent = {"hash"}
  BY DEF CatalogProjections, FrozenOf
<1>4. catalog = Identified("catalog", projection, members)
  BY <1>1
<1> HIDE DEF members
<1>5. "items" \in DOMAIN members \ Computed(projection)
  BY <1>2, <1>3 DEF Computed
<1>6. IsDoc(catalog) /\ "items" \in DOMAIN catalog.members /\ catalog.members["items"] = members["items"]
  BY <1>4, <1>5, IdentifiedIsDoc
<1> QED BY <1>2, <1>6, IdentityAssumption

LEMMA UnitsAsked ==
  ASSUME NEW catalog, NEW unit \in ReleaseUnits(catalog)
  PROVE  /\ IsDoc(unit) /\ "catalog_hash" \in DOMAIN unit.members
         /\ UnitSchemaValid(unit) =>
              /\ DOMAIN unit.members = UnitMembers
              /\ Named(unit.members.members, catalog.members.id, catalog.members.hash)
<1> DEFINE entry == [object |-> catalog.members.id, content |-> catalog.members.hash]
<1>1. PICK projection \in Projections, named \in {<<entry>>, <<entry, entry>>, <<>>} :
        unit = Identified("release_unit", projection,
                 [catalog_hash |-> catalog.members.hash, members |-> named,
                  catalog_registry_hash |-> catalog.members.source_registry_hash])
  BY DEF ReleaseUnits
<1> HIDE DEF entry
<1> DEFINE members == [catalog_hash |-> catalog.members.hash, members |-> named,
                       catalog_registry_hash |-> catalog.members.source_registry_hash]
<1>2. DOMAIN members = {"catalog_hash", "members", "catalog_registry_hash"} /\ members["members"] = named
  OBVIOUS
<1>3. unit = Identified("release_unit", projection, members)
  BY <1>1
<1> HIDE DEF members
<1>4. /\ IsDoc(unit) /\ unit.projection = projection
      /\ DOMAIN unit.members = Computed(projection) \cup DOMAIN members
      /\ \A m \in DOMAIN members \ Computed(projection) : unit.members[m] = members[m]
  BY <1>3, IdentifiedIsDoc
<1>5. ASSUME UnitSchemaValid(unit)
      PROVE  DOMAIN unit.members = UnitMembers /\ unit.members["members"] = named
  <2>1. Computed(projection) = {"id", "logical_payload_sha256"}
    BY <1>4, <1>5 DEF UnitSchemaValid, FrozenOf, Computed
  <2>2. "members" \in DOMAIN members \ Computed(projection)
    BY <1>2, <2>1
  <2> QED BY <1>2, <1>4, <2>1, <2>2 DEF UnitMembers
<1>6. Named(named, catalog.members.id, catalog.members.hash)
  BY <1>1 DEF Named, entry
<1> QED BY <1>2, <1>4, <1>5, <1>6

-----------------------------------------------------------------------------
IdentityInv ==
  /\ \A a \in registered : Kept(a)
  /\ registered = scriptRegistered

LEMMA AskStep ==
  ASSUME NEW c, NEW b, NEW u, IdentityInv, Ask(c, b, u),
         IsDoc(c), IsDoc(u), c.members.items \in Seq(Nat),
         DOMAIN u.members = UnitMembers, NEW object, NEW content,
         Named(u.members.members, object, content)
  PROVE  IdentityInv'
<1> DEFINE asked == <<c, b, u>>
<1>1. asked[1] = c /\ asked[2] = b /\ asked[3] = u
  OBVIOUS
<1>2. Associated(c, b, u) <=> ScriptAssociated(c, b, u)
  BY AssociationsAlike
<1>3. /\ UnitSchemaValid(u)
      /\ registered' = registered \cup {a \in {asked} : Associated(c, b, u)}
      /\ scriptRegistered' = scriptRegistered \cup {a \in {asked} : ScriptAssociated(c, b, u)}
  BY DEF Ask
<1> HIDE DEF asked
<1>4. registered' = scriptRegistered'
  BY <1>2, <1>3 DEF IdentityInv
<1>5. ASSUME NEW a \in registered' PROVE Kept(a)
  <2>1. a \in registered \/ (a = asked /\ Associated(c, b, u))
    BY <1>3
  <2>2. CASE a = asked /\ Associated(c, b, u)
    BY <1>1, <1>3, <2>2 DEF Kept
  <2> QED BY <2>1, <2>2 DEF IdentityInv
<1> QED BY <1>4, <1>5 DEF IdentityInv

LEMMA IdentityInvariant == IdentitySpec => []IdentityInv
<1>1. IdentityInit => IdentityInv
  BY DEF IdentityInit, IdentityInv
<1>2. IdentityInv /\ [IdentityNext]_identityVars => IdentityInv'
  <2> SUFFICES ASSUME IdentityInv, [IdentityNext]_identityVars PROVE IdentityInv'
    OBVIOUS
  <2>1. CASE IdentityNext
    <3>1. PICK catalog \in Catalogs, other \in Catalogs : \E unit \in ReleaseUnits(other) :
            \E binding \in Bindings(other, unit) :
              \/ Ask(catalog, binding, unit)
              \/ \E items \in Items : Ask(Tampered(catalog, "items", items), binding, unit)
              \/ Ask(catalog, binding, Tampered(unit, "catalog_hash", catalog.members.hash))
      BY <2>1 DEF IdentityNext
    <3>2. PICK unit \in ReleaseUnits(other) : \E binding \in Bindings(other, unit) :
              \/ Ask(catalog, binding, unit)
              \/ \E items \in Items : Ask(Tampered(catalog, "items", items), binding, unit)
              \/ Ask(catalog, binding, Tampered(unit, "catalog_hash", catalog.members.hash))
      BY <3>1
    <3>3. PICK binding \in Bindings(other, unit) :
              \/ Ask(catalog, binding, unit)
              \/ \E items \in Items : Ask(Tampered(catalog, "items", items), binding, unit)
              \/ Ask(catalog, binding, Tampered(unit, "catalog_hash", catalog.members.hash))
      BY <3>2
    <3>4. /\ IsDoc(catalog) /\ "items" \in DOMAIN catalog.members /\ catalog.members.items \in Seq(Nat)
          /\ IsDoc(unit) /\ "catalog_hash" \in DOMAIN unit.members
      BY CatalogsAsked, UnitsAsked
    <3>5. UnitSchemaValid(unit) =>
            /\ DOMAIN unit.members = UnitMembers
            /\ Named(unit.members.members, other.members.id, other.members.hash)
      BY UnitsAsked
    <3>6. CASE Ask(catalog, binding, unit)
      <4>1. UnitSchemaValid(unit)
        BY <3>6 DEF Ask
      <4> QED BY <3>4, <3>5, <3>6, <4>1, AskStep
    <3>7. ASSUME NEW items \in Items, Ask(Tampered(catalog, "items", items), binding, unit)
          PROVE  IdentityInv'
      <4> DEFINE altered == Tampered(catalog, "items", items)
      <4>1. IsDoc(altered) /\ altered.members["items"] = items
        BY <3>4, TamperedIsDoc
      <4>2. UnitSchemaValid(unit) /\ Ask(altered, binding, unit)
        BY <3>7 DEF Ask
      <4> HIDE DEF altered
      <4>3. altered.members.items \in Seq(Nat)
        BY <4>1, IdentityAssumption
      <4> QED BY <3>4, <3>5, <4>1, <4>2, <4>3, AskStep
    <3>8. CASE Ask(catalog, binding, Tampered(unit, "catalog_hash", catalog.members.hash))
      <4> DEFINE altered == Tampered(unit, "catalog_hash", catalog.members.hash)
      <4>1. /\ IsDoc(altered) /\ altered.type = unit.type /\ altered.projection = unit.projection
            /\ DOMAIN altered.members = DOMAIN unit.members
            /\ \A m \in DOMAIN unit.members \ {"catalog_hash"} : altered.members[m] = unit.members[m]
        BY <3>4, TamperedIsDoc
      <4>2. UnitSchemaValid(altered) /\ Ask(catalog, binding, altered)
        BY <3>8 DEF Ask
      <4> HIDE DEF altered
      <4>3. UnitSchemaValid(unit)
        BY <4>1, <4>2 DEF UnitSchemaValid
      <4>4. "members" \in DOMAIN unit.members \ {"catalog_hash"}
        BY <3>5, <4>3 DEF UnitMembers
      <4>5. altered.members["members"] = unit.members["members"]
        BY <4>1, <4>4
      <4> QED BY <3>4, <3>5, <4>1, <4>2, <4>3, <4>5, AskStep
    <3> QED BY <3>3, <3>6, <3>7, <3>8
  <2>2. CASE UNCHANGED identityVars
    BY <2>2 DEF identityVars, IdentityInv
  <2> QED BY <2>1, <2>2
<1> QED BY <1>1, <1>2, PTL DEF IdentitySpec

LEMMA KeptApart ==
  ASSUME IdentityInv
  PROVE  OneCatalogPerIdentity
<1>1. ASSUME NEW a \in registered, NEW b \in registered, a[1].members.id = b[1].members.id
      PROVE  a[1].members.items = b[1].members.items
  <2>1. CatalogHolds(a[1]) /\ CatalogHolds(b[1]) /\ IsDoc(a[1]) /\ IsDoc(b[1])
    BY DEF IdentityInv, Kept, Associated
  <2> QED BY <1>1, <2>1, CatalogsEqual
<1>2. ASSUME NEW a \in registered, NEW b \in registered, a[3].members.id = b[3].members.id
      PROVE  a[1] = b[1] /\ a[3].members = b[3].members
  BY <1>2, UnitsEqual DEF IdentityInv
<1> QED BY <1>1, <1>2 DEF OneCatalogPerIdentity

\* An identity names one content for every catalog, registry and projection.
THEOREM IdentitiesNameOneCatalog == IdentitySpec => []OneCatalogPerIdentity
<1>1. IdentityInv => OneCatalogPerIdentity
  BY KeptApart
<1> QED BY <1>1, IdentityInvariant, PTL

\* The Go and the TypeScript registrars keep the same associations.
THEOREM RegistrarsAgree == IdentitySpec => []RuntimesAgree
<1>1. IdentityInv => RuntimesAgree
  BY DEF IdentityInv, RuntimesAgree
<1> QED BY <1>1, IdentityInvariant, PTL

-----------------------------------------------------------------------------

(***************************************************************************)
(* Canonical JSON, for any text. Both canonicalizers are shown to write    *)
(* one form, and to accept the same texts.                                 *)
(*                                                                         *)
(* What they fold over a string is followed one character at a time: a     *)
(* lone surrogate is seen in the text exactly when it is seen among the    *)
(* units, and the units of an accepted string are restored from its runes, *)
(* the units of what is written for them being the same. The order of the  *)
(* names is total on units, so the rank of a name is its place, whether    *)
(* counted on runes or on units. A number is written out by both or by     *)
(* neither. The form then means what the text means, and from the meaning  *)
(* alone the form can be written again.                                    *)
(***************************************************************************)

\* A set that holds 0, and each number up to n with the one before it, holds them all.
LEMMA Climbing ==
  ASSUME NEW S, NEW n \in Nat, 0 \in S, \A i \in 1..n : i - 1 \in S => i \in S
  PROVE  \A i \in 0..n : i \in S
<1> DEFINE Missing == {i \in 0..n : i \notin S}
<1> SUFFICES ASSUME Missing # {} PROVE FALSE
  OBVIOUS
<1>1. PICK m \in Missing : \A k \in Missing : m <= k
  <2> Missing \subseteq Nat
    OBVIOUS
  <2> HIDE DEF Missing
  <2> QED BY LeastNatural
<1>2. m # 0 /\ m \in 1..n /\ m - 1 \in 0..n
  BY <1>1
<1>3. m - 1 \notin Missing
  BY <1>1, <1>2
<1> QED BY <1>1, <1>2, <1>3

\* A set that holds the empty sequence, and with a sequence each that is one longer, holds all.
LEMMA Lengthening ==
  ASSUME NEW T, NEW S, <<>> \in S, \A s \in Seq(T) \cap S : \A x \in T : Append(s, x) \in S
  PROVE  Seq(T) \subseteq S
<1> SUFFICES ASSUME NEW t \in Seq(T) PROVE t \in S
  OBVIOUS
<1> DEFINE Lengths == {k \in Nat : \A s \in Seq(T) : Len(s) = k => s \in S}
<1>1. 0 \in Lengths
  <2>1. \A s \in Seq(T) : Len(s) = 0 => s = <<>>
    OBVIOUS
  <2> QED BY <2>1
<1>2. \A i \in 1..Len(t) : i - 1 \in Lengths => i \in Lengths
  <2> SUFFICES ASSUME NEW i \in 1..Len(t), i - 1 \in Lengths, NEW s \in Seq(T), Len(s) = i
               PROVE s \in S
    OBVIOUS
  <2>1. s # <<>>
    OBVIOUS
  <2>2. PICK r \in Seq(T), x \in T : s = Append(r, x)
    BY <2>1, SequenceEmptyOrAppend
  <2>3. Len(r) = i - 1
    BY <2>2
  <2>4. r \in S
    BY <2>3
  <2> QED BY <2>2, <2>4
<1> HIDE DEF Lengths
<1>3. Len(t) \in Lengths
  BY <1>1, <1>2, Climbing
<1> QED BY <1>3 DEF Lengths

-----------------------------------------------------------------------------
(* Strings.                                                                  *)

Unit == {c \in Nat : c < 65536}
Points == {c \in Nat : c <= 1114111}
LEMMA SurrogateRanges ==
  ASSUME NEW c
  PROVE  /\ c \in High <=> c \in Int /\ 55296 <= c /\ c <= 56319
         /\ c \in Low <=> c \in Int /\ 56320 <= c /\ c <= 57343
BY SMT DEF High, Low

\* A character above the basic plane is a high surrogate and a low one.
LEMMA SurrogateUnits ==
  ASSUME NEW code \in Int, 65536 <= code, code <= 1114111
  PROVE  /\ 55296 + ((code - 65536) \div 1024) \in High
         /\ 56320 + ((code - 65536) % 1024) \in Low
<1> DEFINE n == code - 65536
<1>1. n \in Int /\ 0 <= n /\ n <= 1048575
  BY SMT
<1> HIDE DEF n
<1>2. PICK d \in Int, m \in Int : d = n \div 1024 /\ m = n % 1024 /\ 0 <= d /\ d <= 1023 /\ 0 <= m /\ m <= 1023
  BY <1>1, SMT
<1>3. 55296 + d \in High /\ 56320 + m \in Low
  BY <1>2, SurrogateRanges, SMT
<1> QED BY <1>2, <1>3 DEF n

\* A high and a low one stand for a character, whose units they are.
LEMMA Pairs ==
  ASSUME NEW h \in High, NEW l \in Low, NEW code,
         code = PairPoint(h, l)
  PROVE  /\ code \in Int /\ 65536 <= code /\ code <= 1114111
         /\ PointUnits(code) = <<h, l>>
<1>1. /\ h \in Int /\ 55296 <= h /\ h <= 56319
      /\ l \in Int /\ 56320 <= l /\ l <= 57343
  BY SurrogateRanges
<1>2. PICK a \in Int, b \in Int : h = 55296 + a /\ l = 56320 + b /\ 0 <= a /\ a <= 1023 /\ 0 <= b /\ b <= 1023
  <2>1. h = 55296 + (h - 55296) /\ l = 56320 + (l - 56320) /\ h - 55296 \in Int /\ l - 56320 \in Int
    BY <1>1, SMT
  <2>2. 0 <= h - 55296 /\ h - 55296 <= 1023 /\ 0 <= l - 56320 /\ l - 56320 <= 1023
    BY <1>1, SMT
  <2> QED BY <2>1, <2>2, SMT
<1>3. code = 65536 + 1024 * a + b
  BY <1>2, SMT DEF PairPoint
<1>4. (code - 65536) \div 1024 = a /\ (code - 65536) % 1024 = b
  BY <1>2, <1>3, SMT
<1>5. code \in Int /\ 65536 <= code /\ code <= 1114111 /\ ~(code < 65536)
  BY <1>2, <1>3, SMT
<1>6. PointUnits(code) = <<55296 + a, 56320 + b>>
  BY <1>4, <1>5, SMT DEF PointUnits
<1> QED BY <1>2, <1>5, <1>6, SMT

LEMMA ChunkShape ==
  ASSUME NEW x \in Characters
  PROVE  /\ x.escape \in BOOLEAN
         /\ \/ /\ PointUnits(x.code) = <<x.code>> /\ x.code \in Unit
               /\ x.code \in High \cup Low => x.escape
            \/ /\ ~ x.escape /\ x.code \in Int /\ 65536 <= x.code /\ x.code <= 1114111
               /\ \E h \in High, l \in Low : PointUnits(x.code) = <<h, l>>
BY SurrogateUnits, SMT DEF PointUnits, Characters, Unit

-----------------------------------------------------------------------------
(* What Units is, from its recursive function.                               *)

Longer(units, point) == units \o PointUnits(point)
UnitsOf(s, n) ==
  LET units[i \in 0..n] == IF i = 0 THEN <<>> ELSE Longer(units[i - 1], s[i].code)
  IN units
IsUnits(g, s, n) == g = [i \in 0..n |-> IF i = 0 THEN <<>> ELSE Longer(g[i - 1], s[i].code)]

\* What it says of each place.
LEMMA UnitsSteps ==
  ASSUME NEW s, NEW n \in Nat, NEW g, IsUnits(g, s, n)
  PROVE  g[0] = <<>> /\ \A i \in 1..n : g[i] = Longer(g[i - 1], s[i].code)
<1> DEFINE f == [i \in 0..n |-> IF i = 0 THEN <<>> ELSE Longer(g[i - 1], s[i].code)]
<1>1. \A i \in 0..n : f[i] = IF i = 0 THEN <<>> ELSE Longer(g[i - 1], s[i].code)
  OBVIOUS
<1>2. g = f
  BY Zenon DEF IsUnits
<1> HIDE DEF f
<1>3. 0 \in 0..n /\ \A i \in 1..n : i \in 0..n /\ i # 0
  OBVIOUS
<1> QED BY <1>1, <1>2, <1>3, Zenon

LEMMA UnitsExist == ASSUME NEW s, NEW n \in Nat PROVE \E g : IsUnits(g, s, n)
<1> DEFINE S == {k \in Nat : \E g : IsUnits(g, s, k)}
<1>1. 0 \in S
  <2> DEFINE g == [i \in 0..0 |-> <<>>]
  <2>1. \A i \in 0..0 : <<>> = IF i = 0 THEN <<>> ELSE Longer(g[i - 1], s[i].code)
    OBVIOUS
  <2>2. g = [i \in 0..0 |-> IF i = 0 THEN <<>> ELSE Longer(g[i - 1], s[i].code)]
    BY <2>1, Zenon
  <2> HIDE DEF g
  <2>3. IsUnits(g, s, 0)
    BY <2>2 DEF IsUnits
  <2> QED BY <2>3
<1>2. ASSUME NEW m \in 1..n, m - 1 \in S PROVE m \in S
  <2>1. PICK g : IsUnits(g, s, m - 1)
    BY <1>2
  <2>2. m - 1 \in Nat
    OBVIOUS
  <2>3. g[0] = <<>> /\ \A i \in 1..(m - 1) : g[i] = Longer(g[i - 1], s[i].code)
    BY <2>1, <2>2, UnitsSteps
  <2> DEFINE h == [i \in 0..m |-> IF i = m THEN Longer(g[m - 1], s[m].code) ELSE g[i]]
  <2>4. \A i \in 0..m : (IF i = m THEN Longer(g[m - 1], s[m].code) ELSE g[i])
          = IF i = 0 THEN <<>> ELSE Longer(h[i - 1], s[i].code)
    <3> SUFFICES ASSUME NEW i \in 0..m
                 PROVE (IF i = m THEN Longer(g[m - 1], s[m].code) ELSE g[i])
                         = IF i = 0 THEN <<>> ELSE Longer(h[i - 1], s[i].code)
      OBVIOUS
    <3>1. i # 0 => h[i - 1] = g[i - 1]
      BY <2>2
    <3>2. i # m /\ i # 0 => i \in 1..(m - 1)
      BY <2>2
    <3> HIDE DEF h
    <3> QED BY <2>2, <2>3, <3>1, <3>2
  <2>5. h = [i \in 0..m |-> IF i = 0 THEN <<>> ELSE Longer(h[i - 1], s[i].code)]
    BY <2>4, Zenon
  <2> HIDE DEF h
  <2>6. IsUnits(h, s, m)
    BY <2>5 DEF IsUnits
  <2> QED BY <2>6
<1> HIDE DEF S
<1>3. n \in S
  BY <1>1, <1>2, Climbing
<1> QED BY <1>3 DEF S

LEMMA UnitsFunction ==
  ASSUME NEW s, Len(s) \in Nat
  PROVE  \E g : /\ Units(s) = g[Len(s)] /\ g[0] = <<>>
                /\ \A i \in 1..Len(s) : g[i] = Longer(g[i - 1], s[i].code)
<1> DEFINE n == Len(s)
           P(g) == g = [i \in 0..n |-> IF i = 0 THEN <<>> ELSE Longer(g[i - 1], s[i].code)]
<1>1. \E g : P(g)
  <2>1. PICK g : IsUnits(g, s, n)
    BY UnitsExist
  <2>2. P(g)
    BY <2>1, Zenon DEF IsUnits
  <2> QED BY <2>2, Zenon
<1>2. P(CHOOSE g : P(g))
  BY <1>1, Zenon
<1>3. UnitsOf(s, n) = CHOOSE g : P(g)
  BY Zenon DEF UnitsOf
<1>4. IsUnits(UnitsOf(s, n), s, n)
  BY <1>2, <1>3, Zenon DEF IsUnits
<1>5. Units(s) = UnitsOf(s, n)[n]
  BY Zenon DEF Units, UnitsOf, Longer
<1>6. n \in Nat
  OBVIOUS
<1> DEFINE g == UnitsOf(s, n)
<1>7. g[0] = <<>> /\ \A i \in 1..n : g[i] = Longer(g[i - 1], s[i].code)
  BY <1>4, <1>6, UnitsSteps
<1> QED BY <1>5, <1>7, Zenon

\* Each character adds its units.
LEMMA UnitsAppend ==
  /\ Units(<<>>) = <<>>
  /\ \A s \in Seq(Characters), x \in Characters : Units(Append(s, x)) = Longer(Units(s), x.code)
<1>1. Units(<<>>) = <<>>
  <2>1. Len(<<>>) = 0
    OBVIOUS
  <2>2. \E g : Units(<<>>) = g[Len(<<>>)] /\ g[0] = <<>>
    BY <2>1, UnitsFunction
  <2> QED BY <2>1, <2>2, Zenon
<1>2. ASSUME NEW s \in Seq(Characters), NEW x \in Characters
      PROVE  Units(Append(s, x)) = Longer(Units(s), x.code)
  <2> DEFINE t == Append(s, x)
             n == Len(s)
  <2>1. n \in Nat /\ Len(t) = n + 1 /\ t[n + 1] = x /\ \A i \in 1..n : t[i] = s[i]
    OBVIOUS
  <2> HIDE DEF t
  <2>2. PICK g : Units(s) = g[n] /\ g[0] = <<>> /\ \A i \in 1..n : g[i] = Longer(g[i - 1], s[i].code)
    BY <2>1, UnitsFunction
  <2>3. PICK h : /\ Units(t) = h[n + 1] /\ h[0] = <<>>
                 /\ \A i \in 1..(n + 1) : h[i] = Longer(h[i - 1], t[i].code)
    <3>1. Len(t) \in Nat
      BY <2>1
    <3>2. PICK h : Units(t) = h[Len(t)] /\ h[0] = <<>>
                   /\ \A i \in 1..Len(t) : h[i] = Longer(h[i - 1], t[i].code)
      BY <3>1, UnitsFunction
    <3> QED BY <2>1, <3>2, Zenon
  <2> DEFINE S == {i \in 0..n : h[i] = g[i]}
  <2>4. 0 \in S
    <3>1. h[0] = g[0]
      BY <2>2, <2>3, Zenon
    <3> QED BY <2>1, <3>1
  <2>5. ASSUME NEW i \in 1..n, i - 1 \in S PROVE i \in S
    <3>1. i \in 1..(n + 1) /\ i \in 0..n
      BY <2>1
    <3>2. h[i - 1] = g[i - 1]
      BY <2>5
    <3>3. h[i] = Longer(h[i - 1], t[i].code) /\ g[i] = Longer(g[i - 1], s[i].code) /\ t[i] = s[i]
      BY <2>1, <2>2, <2>3, <3>1
    <3>4. h[i] = g[i]
      BY <3>2, <3>3, Zenon
    <3> QED BY <3>1, <3>4
  <2> HIDE DEF S
  <2>6. n \in S
    <3>1. \A i \in 1..n : i - 1 \in S => i \in S
      BY <2>5
    <3>2. n \in Nat /\ n \in 0..n
      BY <2>1
    <3> HIDE DEF n
    <3>3. \A i \in 0..n : i \in S
      BY <2>4, <3>1, <3>2, Climbing
    <3> QED BY <3>2, <3>3
  <2>7. h[n] = g[n]
    BY <2>6 DEF S
  <2>8. h[n + 1] = Longer(h[n], x.code)
    <3>1. n + 1 \in 1..(n + 1) /\ n + 1 - 1 = n
      BY <2>1
    <3> QED BY <2>1, <2>3, <3>1
  <2>9. Units(t) = Longer(Units(s), x.code)
    BY <2>2, <2>3, <2>7, <2>8, Zenon
  <2> QED BY <2>9, Zenon DEF t
<1> QED BY <1>1, <1>2

LEMMA LongerShape ==
  ASSUME NEW u \in Seq(Unit), NEW x \in Characters
  PROVE  /\ Longer(u, x.code) \in Seq(Unit)
         /\ \/ /\ Longer(u, x.code) = Append(u, x.code) /\ x.code \in Unit
               /\ x.code \in High \cup Low => x.escape
            \/ /\ ~ x.escape /\ x.code \in Int /\ 65536 <= x.code
               /\ \E h \in High, l \in Low : Longer(u, x.code) = Append(Append(u, h), l)
<1>1. High \subseteq Unit /\ Low \subseteq Unit
  BY SMT DEF High, Low, Unit
<1>2. CASE PointUnits(x.code) = <<x.code>> /\ x.code \in Unit /\ (x.code \in High \cup Low => x.escape)
  <2>1. u \o <<x.code>> = Append(u, x.code)
    BY <1>2
  <2>2. Append(u, x.code) \in Seq(Unit)
    BY <1>2
  <2> QED BY <1>2, <2>1, <2>2 DEF Longer
<1>3. CASE /\ ~ x.escape /\ x.code \in Int /\ 65536 <= x.code
           /\ \E h \in High, l \in Low : PointUnits(x.code) = <<h, l>>
  <2>1. PICK h \in High, l \in Low : PointUnits(x.code) = <<h, l>>
    BY <1>3
  <2>2. u \o <<h, l>> = Append(Append(u, h), l)
    BY <1>1
  <2>3. Append(Append(u, h), l) \in Seq(Unit)
    BY <1>1
  <2> QED BY <1>3, <2>1, <2>2, <2>3, SMT DEF Longer
<1> QED BY <1>2, <1>3, ChunkShape

LEMMA UnitsType == ASSUME NEW s \in Seq(Characters) PROVE Units(s) \in Seq(Unit)
<1> DEFINE S == {t \in Seq(Characters) : Units(t) \in Seq(Unit)}
<1>1. <<>> \in S
  <2>1. <<>> \in Seq(Characters) /\ <<>> \in Seq(Unit)
    OBVIOUS
  <2>2. Units(<<>>) \in Seq(Unit)
    BY <2>1, UnitsAppend, Zenon
  <2> QED BY <2>1, <2>2, Zenon
<1>2. ASSUME NEW t \in Seq(Characters) \cap S, NEW x \in Characters PROVE Append(t, x) \in S
  <2>1. Units(t) \in Seq(Unit)
    OBVIOUS
  <2>2. Longer(Units(t), x.code) \in Seq(Unit)
    BY <2>1, LongerShape
  <2>3. Units(Append(t, x)) = Longer(Units(t), x.code)
    BY UnitsAppend
  <2> QED BY <2>2, <2>3
<1> HIDE DEF S
<1>3. Seq(Characters) \subseteq S
  BY <1>1, <1>2, Lengthening
<1> QED BY <1>3 DEF S

-----------------------------------------------------------------------------
(* Lone surrogates.                                                          *)

\* A surrogate is lone inside when what stands next to it is not its other half; one at the
\* end is open until more comes.
InnerLone(u) ==
  \E i \in 1..Len(u) :
    \/ u[i] \in High /\ i < Len(u) /\ u[i + 1] \notin Low
    \/ u[i] \in Low /\ (i = 1 \/ u[i - 1] \notin High)
Open(u) == Len(u) > 0 /\ u[Len(u)] \in High

EscapedHigh(x) == x.escape /\ x.code \in High
EscapedLow(x) == x.escape /\ x.code \in Low
InnerLoneEscape(s) ==
  \E i \in 1..Len(s) :
    \/ EscapedHigh(s[i]) /\ i < Len(s) /\ ~ EscapedLow(s[i + 1])
    \/ EscapedLow(s[i]) /\ (i = 1 \/ ~ EscapedHigh(s[i - 1]))
OpenEscape(s) == Len(s) > 0 /\ EscapedHigh(s[Len(s)])

LEMMA HalvesApart == High \cap Low = {} /\ High \subseteq Unit /\ Low \subseteq Unit
BY SMT DEF High, Low, Unit

LEMMA LoneParts ==
  /\ \A u \in Seq(Unit) : LoneUnit(u) <=> InnerLone(u) \/ Open(u)
  /\ \A s \in Seq(Characters) : LoneEscape(s) <=> InnerLoneEscape(s) \/ OpenEscape(s)
<1>1. ASSUME NEW u \in Seq(Unit) PROVE LoneUnit(u) <=> InnerLone(u) \/ Open(u)
  <2>1. PICK n \in Nat : n = Len(u) /\ DOMAIN u = 1..n
    OBVIOUS
  <2>2. ASSUME LoneUnit(u) PROVE InnerLone(u) \/ Open(u)
    <3>1. PICK i \in 1..n : \/ u[i] \in High /\ (i = n \/ u[i + 1] \notin Low)
                            \/ u[i] \in Low /\ (i = 1 \/ u[i - 1] \notin High)
      BY <2>1, <2>2 DEF LoneUnit
    <3>2. (i = n \/ i < n) /\ n > 0
      BY <2>1
    <3> QED BY <2>1, <3>1, <3>2 DEF InnerLone, Open
  <2>3. ASSUME InnerLone(u) PROVE LoneUnit(u)
    BY <2>1, <2>3 DEF LoneUnit, InnerLone
  <2>4. ASSUME Open(u) PROVE LoneUnit(u)
    <3>1. n \in 1..n /\ u[n] \in High
      BY <2>1, <2>4 DEF Open
    <3> QED BY <2>1, <3>1 DEF LoneUnit
  <2> QED BY <2>2, <2>3, <2>4
<1>2. ASSUME NEW s \in Seq(Characters) PROVE LoneEscape(s) <=> InnerLoneEscape(s) \/ OpenEscape(s)
  <2>1. PICK n \in Nat : n = Len(s) /\ DOMAIN s = 1..n
    OBVIOUS
  <2>2. LoneEscape(s) <=> \E i \in 1..n :
          \/ EscapedHigh(s[i]) /\ ~ (i < n /\ EscapedLow(s[i + 1]))
          \/ EscapedLow(s[i]) /\ ~ (i > 1 /\ EscapedHigh(s[i - 1]))
    <3>1. LoneEscape(s) <=> \E i \in 1..n :
            /\ s[i].escape
            /\ \/ s[i].code \in High /\ ~ (i < n /\ s[i + 1].escape /\ s[i + 1].code \in Low)
               \/ s[i].code \in Low /\ ~ (i > 1 /\ s[i - 1].escape /\ s[i - 1].code \in High)
      BY <2>1, Zenon DEF LoneEscape
    <3> QED BY <3>1, Zenon DEF EscapedHigh, EscapedLow
  <2>3. ASSUME LoneEscape(s) PROVE InnerLoneEscape(s) \/ OpenEscape(s)
    <3>1. PICK i \in 1..n : \/ EscapedHigh(s[i]) /\ ~ (i < n /\ EscapedLow(s[i + 1]))
                            \/ EscapedLow(s[i]) /\ ~ (i > 1 /\ EscapedHigh(s[i - 1]))
      BY <2>2, <2>3
    <3>2. (i = n \/ i < n) /\ (i = 1 \/ i > 1) /\ n > 0
      BY <2>1
    <3> QED BY <2>1, <3>1, <3>2 DEF InnerLoneEscape, OpenEscape
  <2>4. ASSUME InnerLoneEscape(s) PROVE LoneEscape(s)
    <3>1. PICK i \in 1..n : \/ EscapedHigh(s[i]) /\ i < n /\ ~ EscapedLow(s[i + 1])
                            \/ EscapedLow(s[i]) /\ (i = 1 \/ ~ EscapedHigh(s[i - 1]))
      BY <2>1, <2>4 DEF InnerLoneEscape
    <3> QED BY <2>2, <3>1
  <2>5. ASSUME OpenEscape(s) PROVE LoneEscape(s)
    <3>1. n \in 1..n /\ EscapedHigh(s[n]) /\ ~ (n < n)
      BY <2>1, <2>5 DEF OpenEscape
    <3> QED BY <2>2, <3>1
  <2> QED BY <2>3, <2>4, <2>5
<1> QED BY <1>1, <1>2

\* What one more unit makes of them.
LEMMA LoneAppend ==
  ASSUME NEW u \in Seq(Unit), NEW x \in Unit
  PROVE  /\ Open(Append(u, x)) <=> x \in High
         /\ InnerLone(Append(u, x)) <=> InnerLone(u) \/ ~ (Open(u) <=> x \in Low)
<1> DEFINE t == Append(u, x)
           n == Len(u)
<1>1. n \in Nat /\ Len(t) = n + 1 /\ t[n + 1] = x /\ \A i \in 1..n : t[i] = u[i]
  OBVIOUS
<1> HIDE DEF t
<1>2. Open(t) <=> x \in High
  BY <1>1 DEF Open
<1>3. Open(u) <=> n > 0 /\ t[n] \in High
  BY <1>1 DEF Open
<1>4. ASSUME InnerLone(u) PROVE InnerLone(t)
  <2>1. PICK i \in 1..n : \/ u[i] \in High /\ i < n /\ u[i + 1] \notin Low
                          \/ u[i] \in Low /\ (i = 1 \/ u[i - 1] \notin High)
    BY <1>4 DEF InnerLone
  <2>2. i \in 1..(n + 1) /\ t[i] = u[i] /\ (i < n => i < n + 1 /\ t[i + 1] = u[i + 1])
        /\ (i # 1 => t[i - 1] = u[i - 1])
    BY <1>1
  <2> QED BY <1>1, <2>1, <2>2 DEF InnerLone
<1>5. ASSUME ~ (Open(u) <=> x \in Low) PROVE InnerLone(t)
  <2>1. CASE Open(u)
    <3>1. n \in 1..(n + 1) /\ n < n + 1 /\ t[n] \in High /\ t[n + 1] \notin Low
      BY <1>1, <1>3, <1>5, <2>1
    <3> QED BY <1>1, <3>1 DEF InnerLone
  <2>2. CASE ~ Open(u)
    <3>1. n + 1 \in 1..(n + 1) /\ t[n + 1] \in Low /\ n + 1 - 1 = n /\ (n + 1 = 1 \/ t[n] \notin High)
      BY <1>1, <1>3, <1>5, <2>2
    <3> QED BY <1>1, <3>1 DEF InnerLone
  <2> QED BY <2>1, <2>2
<1>6. ASSUME InnerLone(t), Open(u) <=> x \in Low PROVE InnerLone(u)
  <2>1. PICK i \in 1..(n + 1) : \/ t[i] \in High /\ i < n + 1 /\ t[i + 1] \notin Low
                                \/ t[i] \in Low /\ (i = 1 \/ t[i - 1] \notin High)
    BY <1>1, <1>6 DEF InnerLone
  <2>2. CASE i = n + 1
    <3>1. x \in Low /\ (n = 0 \/ t[n] \notin High)
      BY <1>1, <2>1, <2>2
    <3> QED BY <1>1, <1>3, <1>6, <3>1
  <2>3. CASE i = n /\ t[i] \in High
    <3>1. t[n + 1] \notin Low \/ (t[i] \in Low /\ (i = 1 \/ t[i - 1] \notin High))
      BY <2>1, <2>3
    <3>2. t[i] \notin Low
      BY <2>3, HalvesApart
    <3> QED BY <1>1, <1>3, <1>6, <2>3, <3>1, <3>2
  <2>4. CASE i \in 1..n /\ (i < n \/ t[i] \notin High)
    <3>1. t[i] = u[i] /\ (i < n => t[i + 1] = u[i + 1]) /\ (i # 1 => t[i - 1] = u[i - 1])
      BY <1>1, <2>4
    <3> QED BY <2>1, <2>4, <3>1 DEF InnerLone
  <2> QED BY <1>1, <2>2, <2>3, <2>4
<1>7. InnerLone(t) <=> InnerLone(u) \/ ~ (Open(u) <=> x \in Low)
  BY <1>4, <1>5, <1>6
<1> QED BY <1>2, <1>7 DEF t

\* The same, of one more character of the text.
LEMMA LoneEscapeAppend ==
  ASSUME NEW s \in Seq(Characters), NEW x \in Characters
  PROVE  /\ OpenEscape(Append(s, x)) <=> EscapedHigh(x)
         /\ InnerLoneEscape(Append(s, x)) <=> InnerLoneEscape(s) \/ ~ (OpenEscape(s) <=> EscapedLow(x))
<1> DEFINE t == Append(s, x)
           n == Len(s)
<1>1. n \in Nat /\ Len(t) = n + 1 /\ t[n + 1] = x /\ \A i \in 1..n : t[i] = s[i]
  OBVIOUS
<1> HIDE DEF t
<1>2. OpenEscape(t) <=> EscapedHigh(x)
  BY <1>1 DEF OpenEscape
<1>3. OpenEscape(s) <=> n > 0 /\ EscapedHigh(t[n])
  BY <1>1 DEF OpenEscape
<1>4. ASSUME InnerLoneEscape(s) PROVE InnerLoneEscape(t)
  <2>1. PICK i \in 1..n : \/ EscapedHigh(s[i]) /\ i < n /\ ~ EscapedLow(s[i + 1])
                          \/ EscapedLow(s[i]) /\ (i = 1 \/ ~ EscapedHigh(s[i - 1]))
    BY <1>4 DEF InnerLoneEscape
  <2>2. i \in 1..(n + 1) /\ t[i] = s[i] /\ (i < n => i < n + 1 /\ t[i + 1] = s[i + 1])
        /\ (i # 1 => t[i - 1] = s[i - 1])
    BY <1>1
  <2> QED BY <1>1, <2>1, <2>2 DEF InnerLoneEscape
<1>5. ASSUME ~ (OpenEscape(s) <=> EscapedLow(x)) PROVE InnerLoneEscape(t)
  <2>1. CASE OpenEscape(s)
    <3>1. n \in 1..(n + 1) /\ n < n + 1 /\ EscapedHigh(t[n]) /\ ~ EscapedLow(t[n + 1])
      BY <1>1, <1>3, <1>5, <2>1
    <3> QED BY <1>1, <3>1 DEF InnerLoneEscape
  <2>2. CASE ~ OpenEscape(s)
    <3>1. n + 1 \in 1..(n + 1) /\ EscapedLow(t[n + 1]) /\ n + 1 - 1 = n
          /\ (n + 1 = 1 \/ ~ EscapedHigh(t[n]))
      BY <1>1, <1>3, <1>5, <2>2
    <3> QED BY <1>1, <3>1 DEF InnerLoneEscape
  <2> QED BY <2>1, <2>2
<1>6. ASSUME InnerLoneEscape(t), OpenEscape(s) <=> EscapedLow(x) PROVE InnerLoneEscape(s)
  <2>1. PICK i \in 1..(n + 1) : \/ EscapedHigh(t[i]) /\ i < n + 1 /\ ~ EscapedLow(t[i + 1])
                                \/ EscapedLow(t[i]) /\ (i = 1 \/ ~ EscapedHigh(t[i - 1]))
    BY <1>1, <1>6 DEF InnerLoneEscape
  <2>2. CASE i = n + 1
    <3>1. EscapedLow(x) /\ (n = 0 \/ ~ EscapedHigh(t[n]))
      BY <1>1, <2>1, <2>2
    <3> QED BY <1>1, <1>3, <1>6, <3>1
  <2>3. CASE i = n /\ EscapedHigh(t[i])
    <3>1. ~ EscapedLow(t[n + 1]) \/ (EscapedLow(t[i]) /\ (i = 1 \/ ~ EscapedHigh(t[i - 1])))
      BY <2>1, <2>3
    <3>2. ~ EscapedLow(t[i])
      BY <2>3, HalvesApart DEF EscapedHigh, EscapedLow
    <3> QED BY <1>1, <1>3, <1>6, <2>3, <3>1, <3>2
  <2>4. CASE i \in 1..n /\ (i < n \/ ~ EscapedHigh(t[i]))
    <3>1. t[i] = s[i] /\ (i < n => t[i + 1] = s[i + 1]) /\ (i # 1 => t[i - 1] = s[i - 1])
      BY <1>1, <2>4
    <3> QED BY <2>1, <2>4, <3>1 DEF InnerLoneEscape
  <2> QED BY <1>1, <2>2, <2>3, <2>4
<1>7. InnerLoneEscape(t) <=> InnerLoneEscape(s) \/ ~ (OpenEscape(s) <=> EscapedLow(x))
  BY <1>4, <1>5, <1>6
<1> QED BY <1>2, <1>7 DEF t

\* The escapes of a text are lone where the units of what it decodes to are.
LEMMA LoneAlike == ASSUME NEW s \in Seq(Characters) PROVE LoneEscape(s) <=> LoneUnit(Units(s))
<1> DEFINE Alike(t) == (InnerLoneEscape(t) <=> InnerLone(Units(t))) /\ (OpenEscape(t) <=> Open(Units(t)))
           S == {t \in Seq(Characters) : Alike(t)}
<1>1. <<>> \in S
  <2>1. <<>> \in Seq(Characters) /\ Len(<<>>) = 0 /\ 1..0 = {}
    OBVIOUS
  <2>2. ~ InnerLoneEscape(<<>>) /\ ~ InnerLone(<<>>) /\ ~ OpenEscape(<<>>) /\ ~ Open(<<>>)
    BY <2>1 DEF InnerLoneEscape, InnerLone, OpenEscape, Open
  <2>3. Alike(<<>>)
    BY <2>2, UnitsAppend, Zenon
  <2> QED BY <2>1, <2>3
<1>2. ASSUME NEW t \in Seq(Characters) \cap S, NEW x \in Characters PROVE Append(t, x) \in S
  <2> DEFINE u == Units(t)
             a == Append(t, x)
  <2>1. Alike(t) /\ u \in Seq(Unit) /\ a \in Seq(Characters)
    BY UnitsType
  <2>2. Units(a) = Longer(u, x.code)
    BY UnitsAppend
  <2>3. /\ OpenEscape(a) <=> EscapedHigh(x)
        /\ InnerLoneEscape(a) <=> InnerLoneEscape(t) \/ ~ (OpenEscape(t) <=> EscapedLow(x))
    BY LoneEscapeAppend
  <2>4. CASE Longer(u, x.code) = Append(u, x.code) /\ x.code \in Unit /\ (x.code \in High \cup Low => x.escape)
    <3>1. (EscapedHigh(x) <=> x.code \in High) /\ (EscapedLow(x) <=> x.code \in Low)
      BY <2>4 DEF EscapedHigh, EscapedLow
    <3>2. /\ Open(Append(u, x.code)) <=> x.code \in High
          /\ InnerLone(Append(u, x.code)) <=> InnerLone(u) \/ ~ (Open(u) <=> x.code \in Low)
      BY <2>1, <2>4, LoneAppend
    <3>3. Alike(a)
      <4> HIDE DEF a, u
      <4> QED BY <2>1, <2>2, <2>3, <2>4, <3>1, <3>2 DEF u
    <3> QED BY <2>1, <3>3
  <2>5. CASE ~ x.escape /\ \E h \in High, l \in Low : Longer(u, x.code) = Append(Append(u, h), l)
    <3>1. PICK h \in High, l \in Low : Longer(u, x.code) = Append(Append(u, h), l)
      BY <2>5
    <3>2. h \in Unit /\ l \in Unit /\ h \notin Low /\ l \notin High /\ Append(u, h) \in Seq(Unit)
      BY <2>1, HalvesApart
    <3>3. Open(Append(u, h)) /\ (InnerLone(Append(u, h)) <=> InnerLone(u) \/ Open(u))
      BY <2>1, <3>2, LoneAppend
    <3>4. /\ ~ Open(Append(Append(u, h), l))
          /\ InnerLone(Append(Append(u, h), l)) <=> InnerLone(Append(u, h))
      BY <3>2, <3>3, LoneAppend
    <3>5. ~ EscapedHigh(x) /\ ~ EscapedLow(x)
      BY <2>5 DEF EscapedHigh, EscapedLow
    <3>6. Alike(a)
      <4> HIDE DEF a, u
      <4> QED BY <2>1, <2>2, <2>3, <3>1, <3>3, <3>4, <3>5 DEF u
    <3> QED BY <2>1, <3>6
  <2> QED BY <2>1, <2>4, <2>5, LongerShape
<1> HIDE DEF S
<1>3. s \in S
  BY <1>1, <1>2, Lengthening
<1>4. Alike(s)
  BY <1>3 DEF S
<1> QED BY <1>4, LoneParts, UnitsType

-----------------------------------------------------------------------------
(* What Runes is, from its recursive function, which looks two places back.  *)

RuneAt(runes, units, i) ==
  IF units[i] \in Low THEN Append(runes[i - 2], PairPoint(units[i - 1], units[i]))
  ELSE IF units[i] \in High THEN runes[i - 1]
  ELSE Append(runes[i - 1], units[i])
RunesOf(u, n) ==
  LET runes[i \in 0..n] == IF i = 0 THEN <<>> ELSE RuneAt(runes, u, i)
  IN runes
IsRunes(g, u, n) == g = [i \in 0..n |-> IF i = 0 THEN <<>> ELSE RuneAt(g, u, i)]

LEMMA RunesSteps ==
  ASSUME NEW u, NEW n \in Nat, NEW g, IsRunes(g, u, n)
  PROVE  g[0] = <<>> /\ \A i \in 1..n : g[i] = RuneAt(g, u, i)
<1> DEFINE f == [i \in 0..n |-> IF i = 0 THEN <<>> ELSE RuneAt(g, u, i)]
<1>1. \A i \in 0..n : f[i] = IF i = 0 THEN <<>> ELSE RuneAt(g, u, i)
  OBVIOUS
<1>2. g = f
  BY Zenon DEF IsRunes
<1> HIDE DEF f
<1>3. 0 \in 0..n /\ \A i \in 1..n : i \in 0..n /\ i # 0
  OBVIOUS
<1> QED BY <1>1, <1>2, <1>3, Zenon

\* Only the places before it matter to one.
LEMMA RuneAtSame ==
  ASSUME NEW g, NEW h, NEW u, NEW v, NEW i,
         u[i] = v[i], h[i - 1] = g[i - 1],
         u[i] \in Low => u[i - 1] = v[i - 1] /\ h[i - 2] = g[i - 2]
  PROVE  RuneAt(h, u, i) = RuneAt(g, v, i)
<1>1. CASE u[i] \in Low
  <2>1. v[i] \in Low
    BY <1>1
  <2> QED BY <1>1, <2>1, Zenon DEF RuneAt
<1>2. CASE u[i] \notin Low
  <2>1. v[i] \notin Low
    BY <1>2
  <2>2. CASE u[i] \in High
    <3>1. v[i] \in High
      BY <2>2
    <3>2. RuneAt(h, u, i) = h[i - 1] /\ RuneAt(g, v, i) = g[i - 1]
      BY <1>2, <2>1, <2>2, <3>1, Zenon DEF RuneAt
    <3> QED BY <3>2, Zenon
  <2>3. CASE u[i] \notin High
    <3>1. v[i] \notin High
      BY <2>3
    <3>2. RuneAt(h, u, i) = Append(h[i - 1], u[i]) /\ RuneAt(g, v, i) = Append(g[i - 1], v[i])
      BY <1>2, <2>1, <2>3, <3>1, Zenon DEF RuneAt
    <3> QED BY <3>2, Zenon
  <2> QED BY <2>2, <2>3
<1> QED BY <1>1, <1>2

LEMMA RuneCases ==
  ASSUME NEW g, NEW u, NEW i
  PROVE  /\ u[i] \in Low => RuneAt(g, u, i) = Append(g[i - 2], PairPoint(u[i - 1], u[i]))
         /\ u[i] \in High => RuneAt(g, u, i) = g[i - 1]
         /\ u[i] \notin Low /\ u[i] \notin High => RuneAt(g, u, i) = Append(g[i - 1], u[i])
<1>1. u[i] \in High => u[i] \notin Low
  BY HalvesApart
<1> QED BY <1>1, Zenon DEF RuneAt

LEMMA RunesExist ==
  ASSUME NEW u, NEW n \in Nat, n = 0 \/ u[1] \notin Low
  PROVE  \E g : IsRunes(g, u, n)
<1> DEFINE S == {k \in Nat : \E g : IsRunes(g, u, k)}
<1>1. 0 \in S
  <2> DEFINE g == [i \in 0..0 |-> <<>>]
  <2>1. \A i \in 0..0 : <<>> = IF i = 0 THEN <<>> ELSE RuneAt(g, u, i)
    OBVIOUS
  <2>2. g = [i \in 0..0 |-> IF i = 0 THEN <<>> ELSE RuneAt(g, u, i)]
    BY <2>1, Zenon
  <2> HIDE DEF g
  <2>3. IsRunes(g, u, 0)
    BY <2>2 DEF IsRunes
  <2> QED BY <2>3
<1>2. ASSUME NEW m \in 1..n, m - 1 \in S PROVE m \in S
  <2>1. PICK g : IsRunes(g, u, m - 1)
    BY <1>2
  <2>2. m - 1 \in Nat
    OBVIOUS
  <2>3. g[0] = <<>> /\ \A i \in 1..(m - 1) : g[i] = RuneAt(g, u, i)
    BY <2>1, <2>2, RunesSteps
  <2> DEFINE h == [i \in 0..m |-> IF i = m THEN RuneAt(g, u, m) ELSE g[i]]
  <2>4. \A i \in 0..m : (IF i = m THEN RuneAt(g, u, m) ELSE g[i])
          = IF i = 0 THEN <<>> ELSE RuneAt(h, u, i)
    <3> SUFFICES ASSUME NEW i \in 0..m
                 PROVE (IF i = m THEN RuneAt(g, u, m) ELSE g[i])
                         = IF i = 0 THEN <<>> ELSE RuneAt(h, u, i)
      OBVIOUS
    <3>1. i # 0 => h[i - 1] = g[i - 1]
      BY <2>2
    <3>2. i # m /\ i # 0 => i \in 1..(m - 1)
      BY <2>2
    <3>3. i # 0 /\ u[i] \in Low => h[i - 2] = g[i - 2]
      <4>0. u[1] \notin Low
        OBVIOUS
      <4>1. i # 0 /\ u[i] \in Low => i - 2 \in 0..m /\ i - 2 # m
        BY <2>2, <4>0
      <4> QED BY <4>1
    <3> HIDE DEF h
    <3>4. i # 0 => RuneAt(h, u, i) = RuneAt(g, u, i)
      BY <3>1, <3>3, RuneAtSame
    <3>5. CASE i = 0
      <4>1. i # m
        BY <2>2, <3>5
      <4> QED BY <2>3, <3>5, <4>1, Zenon
    <3>6. CASE i # 0 /\ i = m
      BY <3>4, <3>6, Zenon
    <3>7. CASE i # 0 /\ i # m
      BY <2>3, <3>2, <3>4, <3>7, Zenon
    <3> QED BY <3>5, <3>6, <3>7
  <2>5. h = [i \in 0..m |-> IF i = 0 THEN <<>> ELSE RuneAt(h, u, i)]
    BY <2>4, Zenon
  <2> HIDE DEF h
  <2>6. IsRunes(h, u, m)
    BY <2>5 DEF IsRunes
  <2> QED BY <2>6
<1> HIDE DEF S
<1>3. n \in S
  BY <1>1, <1>2, Climbing
<1> QED BY <1>3 DEF S

LEMMA RunesFunction ==
  ASSUME NEW u, Len(u) \in Nat, Len(u) = 0 \/ u[1] \notin Low
  PROVE  \E g : /\ Runes(u) = g[Len(u)] /\ g[0] = <<>>
                /\ \A i \in 1..Len(u) : g[i] = RuneAt(g, u, i)
<1> DEFINE n == Len(u)
           P(g) == g = [i \in 0..n |-> IF i = 0 THEN <<>> ELSE RuneAt(g, u, i)]
<1>1. \E g : P(g)
  <2>1. PICK g : IsRunes(g, u, n)
    BY RunesExist
  <2>2. P(g)
    BY <2>1, Zenon DEF IsRunes
  <2> QED BY <2>2, Zenon
<1>2. P(CHOOSE g : P(g))
  BY <1>1, Zenon
<1>3. RunesOf(u, n) = CHOOSE g : P(g)
  BY Zenon DEF RunesOf
<1>4. IsRunes(RunesOf(u, n), u, n)
  BY <1>2, <1>3, Zenon DEF IsRunes
<1>5. Runes(u) = RunesOf(u, n)[n]
  BY Zenon DEF Runes, RunesOf, RuneAt
<1> HIDE DEF P
<1>6. n \in Nat
  OBVIOUS
<1> DEFINE g == RunesOf(u, n)
<1>7. g[0] = <<>> /\ \A i \in 1..n : g[i] = RuneAt(g, u, i)
  BY <1>4, <1>6, RunesSteps
<1> QED BY <1>5, <1>7, Zenon

\* Each unit adds a character, or none yet, or with the one before it a character.
LEMMA RunesAppend ==
  ASSUME NEW u \in Seq(Unit), NEW x \in Unit, Append(u, x)[1] \notin Low
  PROVE  /\ x \notin High \cup Low => Runes(Append(u, x)) = Append(Runes(u), x)
         /\ x \in High => Runes(Append(u, x)) = Runes(u)
         /\ x \in Low /\ Open(u) => Runes(Append(u, x)) = Append(Runes(u), PairPoint(u[Len(u)], x))
<1> DEFINE t == Append(u, x)
           n == Len(u)
<1>1. n \in Nat /\ Len(t) = n + 1 /\ t[n + 1] = x /\ \A i \in 1..n : t[i] = u[i]
  OBVIOUS
<1>0. t[1] \notin Low
  OBVIOUS
<1> HIDE DEF t
<1>2. n = 0 \/ u[1] \notin Low
  BY <1>0, <1>1
<1>3. PICK h : Runes(t) = h[n + 1] /\ h[0] = <<>> /\ \A i \in 1..(n + 1) : h[i] = RuneAt(h, t, i)
  <2>1. Len(t) \in Nat
    BY <1>1
  <2>2. PICK h : Runes(t) = h[Len(t)] /\ h[0] = <<>> /\ \A i \in 1..Len(t) : h[i] = RuneAt(h, t, i)
    BY <1>0, <2>1, RunesFunction
  <2> QED BY <1>1, <2>2, Zenon
<1>4. Runes(u) = h[n]
    <2>2. PICK g : Runes(u) = g[n] /\ g[0] = <<>> /\ \A i \in 1..n : g[i] = RuneAt(g, u, i)
    BY <1>1, <1>2, RunesFunction
  <2> DEFINE S == {i \in 0..n : \A j \in 0..i : h[j] = g[j]}
  <2>3. 0 \in S
    <3>1. h[0] = g[0]
      BY <1>3, <2>2, Zenon
    <3> QED BY <1>1, <3>1
  <2>4. ASSUME NEW i \in 1..n, i - 1 \in S PROVE i \in S
    <3>1. i \in 1..(n + 1) /\ i \in 0..n /\ i - 1 \in 0..(i - 1)
      BY <1>1
    <3>2. \A j \in 0..(i - 1) : h[j] = g[j]
      BY <2>4
    <3>3. t[i] = u[i] /\ h[i - 1] = g[i - 1]
      BY <1>1, <3>1, <3>2
    <3>4. t[i] \in Low => t[i - 1] = u[i - 1] /\ h[i - 2] = g[i - 2]
      <4>1. t[i] \in Low => i - 1 \in 1..n /\ i - 2 \in 0..(i - 1)
        BY <1>0, <1>1
      <4> QED BY <1>1, <3>2, <4>1
    <3>5. RuneAt(h, t, i) = RuneAt(g, u, i)
      BY <3>3, <3>4, RuneAtSame
    <3>6. h[i] = g[i]
      BY <1>3, <2>2, <3>1, <3>5, Zenon
    <3>7. \A j \in 0..i : j = i \/ j \in 0..(i - 1)
      OBVIOUS
    <3> QED BY <3>1, <3>2, <3>6, <3>7
  <2> HIDE DEF S
  <2>5. n \in S
    <3>1. \A i \in 1..n : i - 1 \in S => i \in S
      BY <2>4
    <3>2. n \in Nat /\ n \in 0..n
      BY <1>1
    <3> HIDE DEF n
    <3>3. \A i \in 0..n : i \in S
      BY <2>3, <3>1, <3>2, Climbing
    <3> QED BY <3>2, <3>3
  <2>6. h[n] = g[n]
    <3>1. n \in 0..n
      BY <1>1
    <3> QED BY <2>5, <3>1 DEF S
  <2> QED BY <2>2, <2>6, Zenon
<1>5. h[n + 1] = RuneAt(h, t, n + 1) /\ n + 1 - 1 = n /\ n + 1 - 2 = n - 1
  <2>1. n + 1 \in 1..(n + 1)
    BY <1>1
  <2> QED BY <1>1, <1>3, <2>1
<1>6. x \notin High \cup Low => Runes(t) = Append(Runes(u), x)
  <2> SUFFICES ASSUME x \notin High, x \notin Low PROVE Runes(t) = Append(Runes(u), x)
    OBVIOUS
  <2>1. RuneAt(h, t, n + 1) = Append(h[n + 1 - 1], t[n + 1])
    BY <1>1, RuneCases
  <2> QED BY <1>1, <1>3, <1>4, <1>5, <2>1, Zenon
<1>7. x \in High => Runes(t) = Runes(u)
  <2> SUFFICES ASSUME x \in High PROVE Runes(t) = Runes(u)
    OBVIOUS
  <2>1. x \notin Low
    BY HalvesApart
  <2>2. RuneAt(h, t, n + 1) = h[n + 1 - 1]
    BY <1>1, RuneCases
  <2> QED BY <1>3, <1>4, <1>5, <2>2, Zenon
<1>8. x \in Low /\ Open(u) => Runes(t) = Append(Runes(u), PairPoint(u[n], x))
  <2> SUFFICES ASSUME x \in Low, Open(u) PROVE Runes(t) = Append(Runes(u), PairPoint(u[n], x))
    OBVIOUS
  <2>1. n \in 1..n /\ n \in 1..(n + 1) /\ t[n] = u[n] /\ u[n] \in High /\ u[n] \notin Low
    BY <1>1, HalvesApart DEF Open
  <2>2. RuneAt(h, t, n + 1) = Append(h[n + 1 - 2], PairPoint(t[n + 1 - 1], t[n + 1]))
    BY <1>1, RuneCases
  <2>3. h[n] = h[n - 1]
    <3>1. h[n] = RuneAt(h, t, n)
      BY <1>3, <2>1
    <3>2. RuneAt(h, t, n) = h[n - 1]
      BY <2>1, Zenon DEF RuneAt
    <3> QED BY <3>1, <3>2, Zenon
  <2> QED BY <1>1, <1>3, <1>4, <1>5, <2>1, <2>2, <2>3, Zenon
<1> QED BY <1>6, <1>7, <1>8 DEF t

-----------------------------------------------------------------------------
(* Units and characters.                                                     *)

Point == {c \in Points : c \notin High \cup Low}
Letter(point) == IF point < 32 THEN Escape(point) ELSE Raw(point)

LEMMA Letters == ASSUME NEW p \in Point PROVE Letter(p) \in Characters /\ Letter(p).code = p
<1>1. p \in Nat /\ p <= 1114111 /\ p \notin High \cup Low
  BY DEF Point, Points
<1>2. CASE p < 32
  BY <1>1, <1>2, SMT DEF Letter, Escape, Characters
<1>3. CASE ~ (p < 32)
  BY <1>1, <1>3, SMT DEF Letter, Raw, Characters
<1> QED BY <1>2, <1>3

LEMMA WrittenAppend ==
  /\ Written(<<>>) = <<>>
  /\ \A r \in Seq(Point) :
       /\ Written(r) \in Seq(Characters)
       /\ \A p \in Point : Written(Append(r, p)) = Append(Written(r), Letter(p))
<1>1. Written(<<>>) = <<>>
  BY DEF Written
<1>2. ASSUME NEW r \in Seq(Point) PROVE Written(r) = [i \in 1..Len(r) |-> Letter(r[i])]
  <2>1. DOMAIN r = 1..Len(r)
    OBVIOUS
  <2> QED BY <2>1, Zenon DEF Written, Letter
<1>3. ASSUME NEW r \in Seq(Point)
      PROVE  /\ Written(r) \in Seq(Characters) /\ Len(Written(r)) = Len(r)
             /\ \A i \in 1..Len(r) : Written(r)[i] = Letter(r[i])
  <2>1. \A i \in 1..Len(r) : Letter(r[i]) \in Characters
    BY Letters
  <2>2. Written(r) \in [1..Len(r) -> Characters] /\ \A i \in 1..Len(r) : Written(r)[i] = Letter(r[i])
    BY <1>2, <2>1
  <2>3. Len(r) \in Nat
    OBVIOUS
  <2> QED BY <2>2, <2>3
<1>4. ASSUME NEW r \in Seq(Point), NEW p \in Point
      PROVE  Written(Append(r, p)) = Append(Written(r), Letter(p))
  <2> DEFINE t == Append(r, p)
             a == Written(t)
             b == Append(Written(r), Letter(p))
  <2>1. t \in Seq(Point) /\ Len(t) = Len(r) + 1 /\ t[Len(r) + 1] = p /\ \A i \in 1..Len(r) : t[i] = r[i]
    OBVIOUS
  <2>2. Letter(p) \in Characters /\ Written(r) \in Seq(Characters) /\ Len(Written(r)) = Len(r)
    BY <1>3, Letters
  <2>3. /\ b \in Seq(Characters) /\ Len(b) = Len(r) + 1 /\ b[Len(r) + 1] = Letter(p)
        /\ \A i \in 1..Len(r) : b[i] = Written(r)[i]
    BY <2>2
  <2> HIDE DEF t, b
  <2>4. a \in Seq(Characters) /\ Len(a) = Len(r) + 1 /\ \A i \in 1..(Len(r) + 1) : a[i] = Letter(t[i])
    BY <1>3, <2>1
  <2> HIDE DEF a
  <2>5. \A i \in 1..Len(a) : a[i] = b[i]
    <3> SUFFICES ASSUME NEW i \in 1..(Len(r) + 1) PROVE a[i] = b[i]
      BY <2>4
    <3>1. Len(r) \in Nat
      OBVIOUS
    <3>2. CASE i = Len(r) + 1
      BY <2>1, <2>3, <2>4, <3>2
    <3>3. CASE i \in 1..Len(r)
      <4>1. Written(r)[i] = Letter(r[i])
        BY <1>3, <3>3
      <4> QED BY <2>1, <2>3, <2>4, <3>3, <4>1
    <3> QED BY <3>1, <3>2, <3>3
  <2>6. a = b
    BY <2>3, <2>4, <2>5, SeqEqual
  <2> QED BY <2>6 DEF a, b, t
<1> QED BY <1>1, <1>3, <1>4

\* The units of what is written from characters.
Rewrites(r) == Units(Written(r))

LEMMA RewritesAppend ==
  /\ Rewrites(<<>>) = <<>>
  /\ \A r \in Seq(Point) :
       /\ Rewrites(r) \in Seq(Unit)
       /\ \A p \in Point : Rewrites(Append(r, p)) = Longer(Rewrites(r), p)
<1>1. Rewrites(<<>>) = <<>>
  BY WrittenAppend, UnitsAppend, Zenon DEF Rewrites
<1>2. ASSUME NEW r \in Seq(Point) PROVE Rewrites(r) \in Seq(Unit)
  BY WrittenAppend, UnitsType DEF Rewrites
<1>3. ASSUME NEW r \in Seq(Point), NEW p \in Point PROVE Rewrites(Append(r, p)) = Longer(Rewrites(r), p)
  <2>1. Written(r) \in Seq(Characters) /\ Letter(p) \in Characters /\ Letter(p).code = p
    BY WrittenAppend, Letters
  <2>2. Units(Append(Written(r), Letter(p))) = Longer(Units(Written(r)), Letter(p).code)
    BY <2>1, UnitsAppend
  <2>3. Written(Append(r, p)) = Append(Written(r), Letter(p))
    BY WrittenAppend
  <2> QED BY <2>1, <2>2, <2>3, Zenon DEF Rewrites
<1> QED BY <1>1, <1>2, <1>3

\* Units with no lone surrogate are those of the characters they stand for.
RunesWhole(u) ==
  /\ Runes(u) \in Seq(Point)
  /\ Open(u) => Append(Rewrites(Runes(u)), u[Len(u)]) = u
  /\ ~ Open(u) => Rewrites(Runes(u)) = u

LEMMA NoneFirst ==
  ASSUME NEW u \in Seq(Unit), u # <<>>, ~ InnerLone(u)
  PROVE  u[1] \notin Low
<1>1. 1 \in 1..Len(u)
  OBVIOUS
<1> QED BY <1>1 DEF InnerLone

LEMMA UnitsRestored ==
  ASSUME NEW s \in Seq(Unit), ~ InnerLone(s)
  PROVE  RunesWhole(s)
<1> DEFINE S == {u \in Seq(Unit) : InnerLone(u) \/ RunesWhole(u)}
<1>1. <<>> \in S
  <2>1. <<>> \in Seq(Unit) /\ <<>> \in Seq(Point) /\ Len(<<>>) = 0
    OBVIOUS
  <2>2. Runes(<<>>) = <<>>
    <3>1. \E g : Runes(<<>>) = g[Len(<<>>)] /\ g[0] = <<>>
      BY <2>1, RunesFunction
    <3> QED BY <2>1, <3>1, Zenon
  <2>3. ~ Open(<<>>)
    BY <2>1 DEF Open
  <2>4. RunesWhole(<<>>)
    BY <2>1, <2>2, <2>3, RewritesAppend, Zenon DEF RunesWhole
  <2> QED BY <2>1, <2>4
<1>2. ASSUME NEW u \in Seq(Unit) \cap S, NEW x \in Unit PROVE Append(u, x) \in S
  <2> DEFINE t == Append(u, x)
             n == Len(u)
  <2>1. t \in Seq(Unit) /\ t # <<>> /\ n \in Nat /\ Len(t) = n + 1 /\ t[n + 1] = x
    OBVIOUS
  <2> SUFFICES ASSUME ~ InnerLone(t) PROVE RunesWhole(t)
    BY <2>1
  <2>2. ~ InnerLone(u) /\ (Open(u) <=> x \in Low) /\ (Open(t) <=> x \in High)
    BY LoneAppend
  <2>3. RunesWhole(u)
    BY <2>2
  <2>4. t[1] \notin Low
    BY <2>1, NoneFirst
  <2>5. CASE x \in High
    <3>1. ~ Open(u) /\ Open(t) /\ Runes(t) = Runes(u)
      BY <2>2, <2>4, <2>5, RunesAppend, HalvesApart
    <3>2. Rewrites(Runes(t)) = u
      BY <2>3, <3>1, Zenon DEF RunesWhole
    <3>3. Append(Rewrites(Runes(t)), t[Len(t)]) = t
      <4>1. t[Len(t)] = x
        BY <2>1
      <4> QED BY <3>2, <4>1, Zenon
    <3> QED BY <2>3, <3>1, <3>3, Zenon DEF RunesWhole
  <2>6. CASE x \in Low
    <3> DEFINE p == PairPoint(u[n], x)
    <3>1. Open(u) /\ ~ Open(t) /\ u[n] \in High
      BY <2>2, <2>6, HalvesApart DEF Open
    <3>2. Runes(t) = Append(Runes(u), p)
      BY <2>4, <2>6, <3>1, RunesAppend
    <3>3. p \in Point /\ PointUnits(p) = <<u[n], x>>
      <4>1. /\ p \in Int /\ 65536 <= p /\ p <= 1114111
            /\ PointUnits(p) = <<u[n], x>>
        BY <2>6, <3>1, Pairs
      <4> HIDE DEF p
      <4>2. p \notin High /\ p \notin Low
        BY <4>1, SMT DEF High, Low
      <4> QED BY <4>1, <4>2, SMT DEF Point, Points
    <3>4. Runes(u) \in Seq(Point) /\ Append(Rewrites(Runes(u)), u[n]) = u
      BY <2>3, <3>1 DEF RunesWhole
    <3> HIDE DEF p
    <3>5. Append(Runes(u), p) \in Seq(Point)
      BY <3>3, <3>4
    <3>6. Rewrites(Append(Runes(u), p)) = Longer(Rewrites(Runes(u)), p)
      BY <3>3, <3>4, RewritesAppend
    <3>7. Longer(Rewrites(Runes(u)), p) = Append(Append(Rewrites(Runes(u)), u[n]), x)
      <4>1. Rewrites(Runes(u)) \in Seq(Unit) /\ u[n] \in Unit
        BY <3>1, <3>4, RewritesAppend, HalvesApart
      <4> DEFINE v == Rewrites(Runes(u))
                 h == u[n]
      <4>2. v \in Seq(Unit) /\ h \in Unit
        BY <4>1
      <4> HIDE DEF v, h
      <4>3. v \o <<h, x>> = Append(Append(v, h), x)
        BY <4>2
      <4> QED BY <3>3, <4>3, Zenon DEF Longer, v, h
    <3>8. Rewrites(Runes(t)) = t
      BY <3>2, <3>4, <3>6, <3>7, Zenon
    <3> QED BY <3>1, <3>2, <3>5, <3>8, Zenon DEF RunesWhole
  <2>7. CASE x \notin High /\ x \notin Low
    <3>1. ~ Open(u) /\ ~ Open(t)
      BY <2>2, <2>7
    <3>2. Runes(t) = Append(Runes(u), x)
      BY <2>4, <2>7, RunesAppend
    <3>3. Runes(u) \in Seq(Point) /\ Rewrites(Runes(u)) = u
      BY <2>3, <3>1 DEF RunesWhole
    <3>4. x \in Point /\ PointUnits(x) = <<x>>
      <4>1. x \in Nat /\ x < 65536
        BY DEF Unit
      <4> QED BY <2>7, <4>1, SMT DEF Point, Points, PointUnits
    <3>5. Append(Runes(u), x) \in Seq(Point)
      BY <3>3, <3>4
    <3>6. Rewrites(Append(Runes(u), x)) = Longer(Rewrites(Runes(u)), x)
      BY <3>3, <3>4, RewritesAppend
    <3>7. Longer(u, x) = t
      <4>1. u \o <<x>> = Append(u, x)
        OBVIOUS
      <4> QED BY <3>4, <4>1, Zenon DEF Longer
    <3>8. Rewrites(Runes(t)) = t
      BY <3>2, <3>3, <3>6, <3>7, Zenon
    <3> QED BY <3>1, <3>2, <3>5, <3>8, Zenon DEF RunesWhole
  <2> QED BY <2>5, <2>6, <2>7
<1> HIDE DEF S
<1>3. s \in S
  BY <1>1, <1>2, Lengthening
<1> QED BY <1>3 DEF S

\* Whether a spelling has a lone surrogate its decoding tells, and one that has none is read by
\* both runtimes as the same string.
LEMMA SpellingsAlike ==
  ASSUME NEW s \in Seq(Characters)
  PROVE  /\ LoneEscape(s) <=> LoneUnit(Units(s))
         /\ ~ LoneEscape(s) => Runes(Units(s)) \in Seq(Point) /\ Rewrites(Runes(Units(s))) = Units(s)
<1>1. Units(s) \in Seq(Unit)
  BY UnitsType
<1>2. LoneEscape(s) <=> LoneUnit(Units(s))
  BY LoneAlike
<1>3. LoneUnit(Units(s)) <=> InnerLone(Units(s)) \/ Open(Units(s))
  BY <1>1, LoneParts
<1>4. ~ LoneEscape(s) => RunesWhole(Units(s)) /\ ~ Open(Units(s))
  BY <1>1, <1>2, <1>3, UnitsRestored
<1> QED BY <1>2, <1>4 DEF RunesWhole

-----------------------------------------------------------------------------
(* Numbers.                                                                  *)

LEMMA NumbersAlike ==
  ASSUME NEW number \in Numbers
  PROVE  GoNumber(number) = ScriptNumber(number)
<1>1. number.exponent \in Int
  BY DEF Numbers
<1>2. (number.exponent >= -6 /\ number.exponent < 21)
        = LET n == number.exponent + 1 IN (0 < n /\ n <= 21) \/ (-6 < n /\ n <= 0)
  BY <1>1
<1> QED BY <1>2, Zenon DEF GoNumber, ScriptNumber

\* Writing a number once more changes nothing, and no number but an equal one is written alike.
LEMMA NumbersWritten ==
  ASSUME NEW number \in Numbers
  PROVE  /\ GoNumber(number) \in Numbers
         /\ GoNumber(GoNumber(number)) = GoNumber(number)
         /\ Double(GoNumber(number)) = Double(number)
         /\ Finite(number) => Finite(GoNumber(number))
         /\ \A other \in Numbers : Double(number) = Double(other) => GoNumber(number) = GoNumber(other)
<1>1. Zero \in Numbers /\ Underflows(Zero) /\ Finite(Zero)
  BY DEF Zero, Number, Numbers, Underflows, Finite
<1> DEFINE Plain(n) == n.exponent >= -6 /\ n.exponent < 21
           Set(n, plain) == [n EXCEPT !.plain = plain]
<1>2. \A n \in Numbers : Plain(n) \in BOOLEAN
  OBVIOUS
<1>3. \A n \in Numbers : GoNumber(n) = IF Underflows(n) THEN Zero ELSE Set(n, Plain(n))
  BY Zenon DEF GoNumber
<1>4. \A n \in Numbers : Double(n) = IF Underflows(n) THEN Zero ELSE Set(n, TRUE)
  BY Zenon DEF Double
<1>5. \A n \in Numbers, plain \in BOOLEAN :
        /\ Set(n, plain) \in Numbers /\ Set(n, plain).negative = n.negative
        /\ Set(n, plain).digit = n.digit /\ Set(n, plain).exponent = n.exponent
        /\ \A again \in BOOLEAN : Set(Set(n, plain), again) = Set(n, again)
  BY DEF Numbers
<1>6. \A n, m \in Numbers : (n.negative = m.negative /\ n.digit = m.digit /\ n.exponent = m.exponent)
        => \A plain \in BOOLEAN : Set(n, plain) = Set(m, plain)
  BY DEF Numbers
<1>11. \A n \in Numbers : Set(n, TRUE).digit = n.digit
  BY DEF Numbers
<1>12. \A n, m \in Numbers : Set(n, TRUE) = Set(m, TRUE) =>
         n.negative = m.negative /\ n.digit = m.digit /\ n.exponent = m.exponent
  <2> SUFFICES ASSUME NEW n \in Numbers, NEW m \in Numbers, Set(n, TRUE) = Set(m, TRUE)
               PROVE  n.negative = m.negative /\ n.digit = m.digit /\ n.exponent = m.exponent
    OBVIOUS
  <2>1. /\ Set(n, TRUE).negative = n.negative /\ Set(m, TRUE).negative = m.negative
        /\ Set(n, TRUE).digit = n.digit /\ Set(m, TRUE).digit = m.digit
        /\ Set(n, TRUE).exponent = n.exponent /\ Set(m, TRUE).exponent = m.exponent
    BY DEF Numbers
  <2> HIDE DEF Set
  <2> QED BY <2>1, Zenon
<1> HIDE DEF Plain, Set
<1>7. \A n, m \in Numbers : n.exponent = m.exponent => Plain(n) = Plain(m)
  BY Zenon DEF Plain
<1>8. \A n, m \in Numbers : n.exponent = m.exponent /\ n.digit = m.digit =>
        (Underflows(n) <=> Underflows(m)) /\ (Finite(n) <=> Finite(m))
  BY Zenon DEF Underflows, Finite
<1>9. CASE Underflows(number)
  <2>1. GoNumber(number) = Zero /\ Double(number) = Zero
    BY <1>3, <1>4, <1>9
  <2>2. GoNumber(Zero) = Zero /\ Double(Zero) = Zero
    BY <1>1, <1>3, <1>4
  <2>3. ASSUME NEW other \in Numbers, Double(other) = Zero PROVE GoNumber(other) = Zero
    <3>1. CASE Underflows(other)
      BY <1>3, <3>1
    <3>2. CASE ~ Underflows(other)
      <4>1. other.digit = Zero.digit
        BY <1>4, <1>5, <2>3, <3>2
      <4> QED BY <3>2, <4>1 DEF Underflows, Zero, Number
    <3> QED BY <3>1, <3>2
  <2> QED BY <1>1, <2>1, <2>2, <2>3
<1>10. CASE ~ Underflows(number)
  <2> DEFINE go == Set(number, Plain(number))
  <2>1. GoNumber(number) = go /\ Double(number) = Set(number, TRUE)
    BY <1>3, <1>4, <1>10
  <2>2. /\ go \in Numbers /\ go.negative = number.negative
        /\ go.digit = number.digit /\ go.exponent = number.exponent
    BY <1>2, <1>5
  <2>3. \A again \in BOOLEAN : Set(go, again) = Set(number, again)
    BY <1>2, <1>5
  <2> HIDE DEF go
  <2>4. ~ Underflows(go) /\ (Finite(number) => Finite(go)) /\ Plain(go) = Plain(number)
    BY <1>7, <1>8, <1>10, <2>2
  <2>5. GoNumber(go) = go /\ Double(go) = Double(number)
    <3>1. GoNumber(go) = Set(go, Plain(go)) /\ Double(go) = Set(go, TRUE)
      BY <1>3, <1>4, <2>2, <2>4
    <3> QED BY <1>2, <2>1, <2>3, <2>4, <3>1 DEF go
  <2>6. ASSUME NEW other \in Numbers, Double(number) = Double(other)
        PROVE  GoNumber(number) = GoNumber(other)
    <3>1. CASE Underflows(other)
      <4>1. number.digit = Zero.digit
        <5>1. Set(number, TRUE) = Zero
          BY <1>4, <2>1, <2>6, <3>1, Zenon
        <5> QED BY <1>11, <5>1, Zenon
      <4> QED BY <1>10, <4>1 DEF Underflows, Zero, Number
    <3>2. CASE ~ Underflows(other)
      <4>1. Set(number, TRUE) = Set(other, TRUE)
        BY <1>4, <2>1, <2>6, <3>2
      <4>2. number.negative = other.negative /\ number.digit = other.digit /\ number.exponent = other.exponent
        BY <1>12, <4>1
      <4>3. Plain(number) = Plain(other)
        BY <1>7, <4>2
      <4>4. Set(number, Plain(number)) = Set(other, Plain(other))
        BY <1>2, <1>6, <4>2, <4>3
      <4> QED BY <1>3, <1>10, <3>2, <4>4
    <3> QED BY <3>1, <3>2
  <2> QED BY <2>1, <2>2, <2>4, <2>5, <2>6
<1> QED BY <1>9, <1>10

-----------------------------------------------------------------------------
(* The order of names.                                                       *)

LEMMA LessIrreflexive == ASSUME NEW s \in Seq(Unit) PROVE ~ SeqLess(s, s)
<1> SUFFICES ASSUME SeqLess(s, s) PROVE FALSE
  OBVIOUS
<1>1. PICK n \in Nat : n = Len(s) /\ \A i \in 1..n : s[i] \in Int
  <2>1. \A i \in 1..Len(s) : s[i] \in Int
    BY DEF Unit
  <2> QED BY <2>1
<1>2. PICK i \in 1..(n + 1) : IF i > n THEN n >= i ELSE i <= n /\ s[i] < s[i]
  BY <1>1 DEF SeqLess
<1> QED BY <1>1, <1>2

LEMMA LessTransitive ==
  ASSUME NEW r \in Seq(Unit), NEW s \in Seq(Unit), NEW t \in Seq(Unit), SeqLess(r, s), SeqLess(s, t)
  PROVE  SeqLess(r, t)
<1>1. PICK k \in Nat, m \in Nat, n \in Nat :
        /\ k = Len(r) /\ m = Len(s) /\ n = Len(t)
        /\ \A i \in 1..k : r[i] \in Int
        /\ \A i \in 1..m : s[i] \in Int
        /\ \A i \in 1..n : t[i] \in Int
  <2>1. /\ \A i \in 1..Len(r) : r[i] \in Int
        /\ \A i \in 1..Len(s) : s[i] \in Int
        /\ \A i \in 1..Len(t) : t[i] \in Int
    BY DEF Unit
  <2> QED BY <2>1
<1>2. PICK i \in 1..(k + 1) :
        /\ \A j \in 1..(i - 1) : j <= m /\ r[j] = s[j]
        /\ IF i > k THEN m >= i ELSE i <= m /\ r[i] < s[i]
  BY <1>1 DEF SeqLess
<1>3. PICK l \in 1..(m + 1) :
        /\ \A j \in 1..(l - 1) : j <= n /\ s[j] = t[j]
        /\ IF l > m THEN n >= l ELSE l <= n /\ s[l] < t[l]
  BY <1>1 DEF SeqLess
<1>4. CASE i <= l
  <2>1. \A j \in 1..(i - 1) : j <= n /\ r[j] = t[j]
    BY <1>2, <1>3, <1>4
  <2>2. IF i > k THEN n >= i ELSE i <= n /\ r[i] < t[i]
    <3>1. CASE i < l
      <4>1. i \in 1..(l - 1) /\ i <= n /\ s[i] = t[i]
        BY <1>3, <3>1
      <4> QED BY <1>2, <4>1
    <3>2. CASE i = l /\ l > m
      BY <1>1, <1>2, <1>3, <3>2
    <3>3. CASE i = l /\ ~(l > m)
      <4>1. l <= n /\ s[i] < t[i] /\ i \in 1..m /\ i \in 1..n
        BY <1>1, <1>3, <3>3
      <4>2. ~(i > k) => i \in 1..k /\ r[i] < s[i]
        BY <1>1, <1>2
      <4> QED BY <1>1, <4>1, <4>2, <3>3
    <3> QED BY <1>4, <3>1, <3>2, <3>3
  <2> QED BY <1>1, <2>1, <2>2 DEF SeqLess
<1>5. CASE l < i
  <2>1. l \in 1..(i - 1) /\ l <= m /\ r[l] = s[l] /\ l \in 1..(k + 1) /\ ~(l > k)
    BY <1>1, <1>2, <1>5
  <2>2. \A j \in 1..(l - 1) : j <= n /\ r[j] = t[j]
    BY <1>2, <1>3, <1>5
  <2>3. l <= n /\ r[l] < t[l]
    BY <1>3, <2>1
  <2> QED BY <1>1, <2>1, <2>2, <2>3 DEF SeqLess
<1> QED BY <1>4, <1>5

LEMMA LessTotal ==
  ASSUME NEW s \in Seq(Unit), NEW t \in Seq(Unit), s # t
  PROVE  SeqLess(s, t) \/ SeqLess(t, s)
<1>1. PICK m \in Nat, n \in Nat :
        /\ m = Len(s) /\ n = Len(t)
        /\ \A i \in 1..m : s[i] \in Int
        /\ \A i \in 1..n : t[i] \in Int
  <2>1. /\ \A i \in 1..Len(s) : s[i] \in Int
        /\ \A i \in 1..Len(t) : t[i] \in Int
    BY DEF Unit
  <2> QED BY <2>1
<1> DEFINE S == {i \in 1..(m + 1) : i > m \/ i > n \/ s[i] # t[i]}
<1>2. PICK i \in S : \A j \in S : i <= j
  <2>1. m + 1 \in S /\ S \subseteq Nat
    OBVIOUS
  <2> HIDE DEF S
  <2> QED BY <2>1, LeastNatural
<1>3. \A j \in 1..(i - 1) : j <= m /\ j <= n /\ s[j] = t[j]
  <2> SUFFICES ASSUME NEW j \in 1..(i - 1) PROVE j <= m /\ j <= n /\ s[j] = t[j]
    OBVIOUS
  <2>1. j \in 1..(m + 1) /\ j \notin S
    BY <1>2
  <2> QED BY <2>1
<1>4. CASE i > m
  <2>1. i = m + 1
    BY <1>2, <1>4
  <2>2. CASE n >= i
    BY <1>1, <1>3, <2>1, <2>2, <1>4 DEF SeqLess
  <2>3. CASE ~(n >= i)
    <3>1. n = m
      <4>1. m > 0 => m \in 1..(i - 1)
        BY <2>1
      <4> QED BY <1>3, <2>1, <2>3, <4>1
    <3>2. \A j \in 1..Len(s) : s[j] = t[j]
      BY <1>1, <1>3, <2>1
    <3>3. s = t
      BY <1>1, <3>1, <3>2, SeqEqual
    <3> QED BY <3>3
  <2> QED BY <2>2, <2>3
<1>5. CASE ~(i > m) /\ i > n
  <2>1. i \in 1..(n + 1)
    <3>1. i - 1 > 0 => i - 1 \in 1..(i - 1)
      BY <1>2
    <3> QED BY <1>2, <1>3, <1>5, <3>1
  <2>2. m >= i
    BY <1>2, <1>5
  <2>3. \A j \in 1..(i - 1) : j <= m /\ t[j] = s[j]
    BY <1>3
  <2> QED BY <1>1, <1>5, <2>1, <2>2, <2>3 DEF SeqLess
<1>6. CASE ~(i > m) /\ ~(i > n)
  <2>1. i \in 1..m /\ i \in 1..n /\ s[i] # t[i]
    BY <1>2, <1>6
  <2>2. s[i] < t[i] \/ t[i] < s[i]
    BY <1>1, <2>1
  <2>3. CASE s[i] < t[i]
    <3>1. i <= n /\ i \in 1..(m + 1)
      BY <2>1
    <3> QED BY <1>1, <1>3, <1>6, <2>3, <3>1 DEF SeqLess
  <2>4. CASE t[i] < s[i]
    <3>1. i <= m /\ i \in 1..(n + 1) /\ \A j \in 1..(i - 1) : j <= m /\ t[j] = s[j]
      BY <1>3, <2>1
    <3> QED BY <1>1, <1>6, <2>4, <3>1 DEF SeqLess
  <2> QED BY <2>2, <2>3, <2>4
<1> QED BY <1>4, <1>5, <1>6

\* How many names are before one, and the names in that order.
Rank(n, names) == Cardinality({m \in names : SeqLess(m, n)})
InOrder(names) == [i \in 1..Cardinality(names) |-> CHOOSE n \in names : Rank(n, names) = i - 1]

LEMMA RankBelow ==
  ASSUME NEW names \in SUBSET Seq(Unit), IsFiniteSet(names),
         NEW u \in names, NEW v \in names, SeqLess(u, v)
  PROVE  Rank(u, names) < Rank(v, names)
<1> DEFINE U == {m \in names : SeqLess(m, u)}
           V == {m \in names : SeqLess(m, v)}
<1>1. U \subseteq V
  BY LessTransitive
<1>2. u \in V /\ u \notin U
  BY LessIrreflexive
<1>3. IsFiniteSet(V) /\ IsFiniteSet(U)
  BY FS_Subset
<1> HIDE DEF U, V
<1>4. Cardinality(U) <= Cardinality(V) /\ (Cardinality(U) = Cardinality(V) => U = V)
  BY <1>1, <1>3, FS_Subset
<1>5. Cardinality(U) \in Nat /\ Cardinality(V) \in Nat /\ Cardinality(U) # Cardinality(V)
  BY <1>2, <1>3, <1>4, FS_CardinalityType
<1>6. Cardinality(U) < Cardinality(V)
  BY <1>4, <1>5
<1> QED BY <1>6 DEF Rank, U, V

\* Each name has a rank of its own, and each rank is a name's.
LEMMA Ranks ==
  ASSUME NEW names \in SUBSET Seq(Unit), IsFiniteSet(names)
  PROVE  /\ Cardinality(names) \in Nat
         /\ \A u \in names : Rank(u, names) + 1 \in 1..Cardinality(names)
         /\ \A u, v \in names : Rank(u, names) = Rank(v, names) => u = v
         /\ \A i \in 1..Cardinality(names) : \E u \in names : Rank(u, names) = i - 1
<1>1. PICK n \in Nat : n = Cardinality(names)
  BY FS_CardinalityType
<1>2. ASSUME NEW u \in names PROVE Rank(u, names) \in Nat /\ Rank(u, names) < n
  <2> DEFINE U == {m \in names : SeqLess(m, u)}
  <2>1. U \subseteq names /\ U # names
    BY LessIrreflexive
  <2> HIDE DEF U
  <2>2. IsFiniteSet(U) /\ Cardinality(U) <= n /\ Cardinality(U) # n
    BY <1>1, <2>1, FS_Subset
  <2>3. Cardinality(U) \in Nat
    BY <2>2, FS_CardinalityType
  <2> QED BY <2>2, <2>3 DEF Rank, U
<1>3. \A u \in names : Rank(u, names) + 1 \in 1..n
  BY <1>2
<1>4. ASSUME NEW u \in names, NEW v \in names, Rank(u, names) = Rank(v, names) PROVE u = v
  <2> SUFFICES ASSUME u # v PROVE FALSE
    OBVIOUS
  <2>1. SeqLess(u, v) \/ SeqLess(v, u)
    BY LessTotal
  <2>2. Rank(u, names) < Rank(v, names) \/ Rank(v, names) < Rank(u, names)
    BY <2>1, RankBelow
  <2> QED BY <1>2, <1>4, <2>2
<1>5. ASSUME NEW i \in 1..n PROVE \E u \in names : Rank(u, names) = i - 1
  <2> DEFINE f == [u \in names |-> Rank(u, names) + 1]
  <2>1. f \in [names -> 1..n]
    BY <1>3
  <2>2. \A u, v \in names : f[u] = f[v] => u = v
    BY <1>2, <1>4
  <2>3. f \in Injection(names, 1..n)
    BY <2>1, <2>2 DEF Injection, IsInjective
  <2>4. IsFiniteSet(1..n) /\ Cardinality(1..n) = n
    <3>1. IsFiniteSet(1..n) /\ Cardinality(1..n) = IF 1 > n THEN 0 ELSE n - 1 + 1
      BY FS_Interval
    <3> QED BY <3>1
  <2>5. f \in Surjection(names, 1..n)
    BY <1>1, <2>3, <2>4, FS_Injection
  <2>6. PICK u \in names : f[u] = i
    BY <2>5 DEF Surjection
  <2> QED BY <1>2, <2>6
<1> QED BY <1>1, <1>3, <1>4, <1>5

\* The ordered names are all the names, each once, where its rank says.
LEMMA Ordered ==
  ASSUME NEW names \in SUBSET Seq(Unit), IsFiniteSet(names)
  PROVE  /\ DOMAIN InOrder(names) = 1..Cardinality(names)
         /\ \A i \in 1..Cardinality(names) : InOrder(names)[i] \in names
         /\ \A i \in 1..Cardinality(names) : Rank(InOrder(names)[i], names) = i - 1
         /\ \A i, j \in 1..Cardinality(names) : InOrder(names)[i] = InOrder(names)[j] => i = j
         /\ \A u \in names : \E i \in 1..Cardinality(names) : InOrder(names)[i] = u
<1> DEFINE n == Cardinality(names)
           o == InOrder(names)
<1>1. n \in Nat
  BY Ranks
<1>2. DOMAIN o = 1..n /\ \A i \in 1..n : o[i] = CHOOSE u \in names : Rank(u, names) = i - 1
  BY DEF InOrder
<1> HIDE DEF n, o
<1>3. \A i \in 1..n : \E u \in names : Rank(u, names) = i - 1
  BY Ranks DEF n
<1>4. \A i \in 1..n : o[i] \in names /\ Rank(o[i], names) = i - 1
  BY <1>2, <1>3
<1>5. \A i, j \in 1..n : o[i] = o[j] => i = j
  <2> SUFFICES ASSUME NEW i \in 1..n, NEW j \in 1..n, o[i] = o[j] PROVE i = j
    OBVIOUS
  <2>1. i - 1 = j - 1
    BY <1>4
  <2> QED BY <1>1, <2>1
<1>6. ASSUME NEW u \in names PROVE \E i \in 1..n : o[i] = u
  <2>1. PICK i \in 1..n : i = Rank(u, names) + 1
    BY Ranks DEF n
  <2>2. Rank(u, names) = i - 1
    <3>1. Rank(u, names) \in Nat
      <4>1. IsFiniteSet({m \in names : SeqLess(m, u)})
        BY FS_Subset
      <4> QED BY <4>1, FS_CardinalityType DEF Rank
    <3> QED BY <2>1, <3>1
  <2>3. Rank(o[i], names) = Rank(u, names) /\ o[i] \in names
    BY <1>4, <2>2
  <2>4. o[i] = u
    BY <2>3, Ranks
  <2> QED BY <2>4
<1> QED BY <1>2, <1>4, <1>5, <1>6 DEF n, o

-----------------------------------------------------------------------------
(* The order of the names as Go has them, as strings of characters.          *)

GoRank(n, names) == Cardinality({m \in names : Utf16Less(m, n)})
GoInOrder(names) == [i \in 1..Cardinality(names) |-> CHOOSE n \in names : GoRank(n, names) = i - 1]

LEMMA OrdersAlike ==
  ASSUME NEW names \in SUBSET Seq(Unit), IsFiniteSet(names),
         \A u \in names : Rewrites(Runes(u)) = u,
         NEW goNames, goNames = {Runes(u) : u \in names}
  PROVE  /\ Cardinality(goNames) = Cardinality(names)
         /\ GoInOrder(goNames) = [i \in 1..Cardinality(names) |-> Runes(InOrder(names)[i])]
<1>1. \A u, v \in names : Runes(u) = Runes(v) => u = v
  OBVIOUS
<1>2. \A u, v \in names : Utf16Less(Runes(u), Runes(v)) <=> SeqLess(u, v)
  <2>1. \A s, t : Utf16Less(s, t) <=> SeqLess(Rewrites(s), Rewrites(t))
    BY Zenon DEF Utf16Less, Rewrites
  <2> QED BY <2>1
<1>3. \A some \in SUBSET names : Cardinality({Runes(u) : u \in some}) = Cardinality(some)
  <2> SUFFICES ASSUME NEW some \in SUBSET names
               PROVE  Cardinality({Runes(u) : u \in some}) = Cardinality(some)
    OBVIOUS
  <2> DEFINE f == [u \in some |-> Runes(u)]
             image == {Runes(u) : u \in some}
  <2>1. f \in Surjection(some, image)
    BY DEF Surjection
  <2>2. f \in Injection(some, image)
    BY <1>1 DEF Injection, IsInjective
  <2>3. IsFiniteSet(some)
    BY FS_Subset
  <2> HIDE DEF f, image
  <2>4. Cardinality(image) = Cardinality(some)
    BY <2>1, <2>2, <2>3, FS_Surjection
  <2> QED BY <2>4 DEF image
<1>4. Cardinality(goNames) = Cardinality(names)
  BY <1>3
<1>5. ASSUME NEW u \in names PROVE GoRank(Runes(u), goNames) = Rank(u, names)
  <2> DEFINE before == {m \in names : SeqLess(m, u)}
  <2>1. {m \in goNames : Utf16Less(m, Runes(u))} = {Runes(v) : v \in before}
    BY <1>2
  <2>2. Cardinality({Runes(v) : v \in before}) = Cardinality(before)
    BY <1>3
  <2> QED BY <2>1, <2>2, Zenon DEF GoRank, Rank
<1>6. ASSUME NEW i \in 1..Cardinality(names)
      PROVE  (CHOOSE n \in goNames : GoRank(n, goNames) = i - 1) = Runes(InOrder(names)[i])
  <2> DEFINE o == InOrder(names)[i]
             g == CHOOSE n \in goNames : GoRank(n, goNames) = i - 1
  <2>1. o \in names /\ Rank(o, names) = i - 1
    BY Ordered
  <2>2. Runes(o) \in goNames /\ GoRank(Runes(o), goNames) = i - 1
    BY <1>5, <2>1
  <2>3. g \in goNames /\ GoRank(g, goNames) = i - 1
    BY <2>2
  <2> HIDE DEF g, o
  <2>4. PICK u \in names : g = Runes(u)
    BY <2>3
  <2>5. Rank(u, names) = Rank(o, names)
    BY <1>5, <2>1, <2>3, <2>4
  <2>6. u = o
    BY <2>1, <2>5, Ranks
  <2> QED BY <2>4, <2>6 DEF g, o
<1>7. GoInOrder(goNames) = [i \in 1..Cardinality(names) |-> Runes(InOrder(names)[i])]
  <2>1. GoInOrder(goNames) =
          [i \in 1..Cardinality(names) |-> CHOOSE n \in goNames : GoRank(n, goNames) = i - 1]
    BY <1>4, Zenon DEF GoInOrder
  <2> QED BY <1>6, <2>1, Zenon
<1> QED BY <1>4, <1>7

-----------------------------------------------------------------------------
(* Texts.                                                                    *)

Value == {Str(s) : s \in Seq(Characters)} \cup {Num(n) : n \in Numbers}
Member == [name : Seq(Characters), value : Value]
IsText(t) ==
  /\ t = [members |-> t.members, trailing |-> t.trailing]
  /\ t.members \in Seq(Member) /\ t.trailing \in BOOLEAN

UnitsAt(t, i) == Units(t.members[i].name)
NamesOf(t) == {UnitsAt(t, i) : i \in DOMAIN t.members}
MemberNamed(t, u) == CHOOSE m \in {t.members[i] : i \in DOMAIN t.members} : Units(m.name) = u

\* What both runtimes accept, and what they make of it.
Accepted(t) ==
  /\ \A s \in Spellings(t.members) : Decodes(s) /\ ~ LoneUnit(Units(s))
  /\ \A i, j \in DOMAIN t.members : UnitsAt(t, i) = UnitsAt(t, j) => i = j
  /\ AllFinite(t.members)
  /\ ~ t.trailing
Rendered(value) ==
  IF IsString(value) THEN Str(Rewritten(value.string)) ELSE Num(GoNumber(value.number))
Form(t) ==
  [members |-> [i \in 1..Cardinality(NamesOf(t)) |->
                  [name |-> Written(Runes(InOrder(NamesOf(t))[i])),
                   value |-> Rendered(MemberNamed(t, InOrder(NamesOf(t))[i]).value)]],
   trailing |-> FALSE]

LEMMA ValueShapes ==
  ASSUME NEW value \in Value
  PROVE  \/ /\ IsString(value) /\ value = Str(value.string) /\ value.string \in Seq(Characters)
         \/ /\ ~ IsString(value) /\ value = Num(value.number) /\ value.number \in Numbers
<1>1. CASE \E s \in Seq(Characters) : value = Str(s)
  BY <1>1 DEF Str, IsString
<1>2. CASE \E n \in Numbers : value = Num(n)
  BY <1>2 DEF Num, IsString
<1> QED BY <1>1, <1>2 DEF Value

LEMMA TextFacts ==
  ASSUME NEW t, IsText(t)
  PROVE  /\ Len(t.members) \in Nat /\ DOMAIN t.members = 1..Len(t.members)
         /\ \A i \in DOMAIN t.members :
              /\ t.members[i].name \in Seq(Characters) /\ t.members[i].value \in Value
              /\ t.members[i].name \in Spellings(t.members)
              /\ IsString(t.members[i].value) => t.members[i].value.string \in Spellings(t.members)
         /\ Spellings(t.members) \subseteq Seq(Characters)
         /\ \A i \in DOMAIN t.members : UnitsAt(t, i) \in Seq(Unit)
<1> DEFINE M == t.members
<1>1. M \in Seq(Member)
  BY DEF IsText
<1> HIDE DEF M
<1>2. Len(M) \in Nat /\ DOMAIN M = 1..Len(M) /\ \A i \in DOMAIN M : M[i] \in Member
  BY <1>1
<1>3. \A i \in DOMAIN M : M[i].name \in Seq(Characters) /\ M[i].value \in Value
  BY <1>2 DEF Member
<1>4. \A i \in DOMAIN M : M[i].name \in Spellings(M)
  BY DEF Spellings
<1>5. \A i \in DOMAIN M : IsString(M[i].value) => M[i].value.string \in Spellings(M)
  BY DEF Spellings
<1>6. ASSUME NEW s \in Spellings(M) PROVE s \in Seq(Characters)
  <2>1. CASE \E i \in DOMAIN M : s = M[i].name
    BY <1>3, <2>1
  <2>2. CASE \E i \in DOMAIN M : IsString(M[i].value) /\ s = M[i].value.string
    BY <1>3, <2>2, ValueShapes
  <2> QED BY <2>1, <2>2 DEF Spellings
<1>7. \A i \in DOMAIN M : UnitsAt(t, i) \in Seq(Unit)
  BY <1>3, UnitsType DEF UnitsAt, M
<1> QED BY <1>2, <1>3, <1>4, <1>5, <1>6, <1>7 DEF M

LEMMA NamesFinite ==
  ASSUME NEW t, IsText(t)
  PROVE  /\ NamesOf(t) \in SUBSET Seq(Unit) /\ IsFiniteSet(NamesOf(t))
         /\ Cardinality(NamesOf(t)) = Len(t.members)
              <=> \A i, j \in DOMAIN t.members : UnitsAt(t, i) = UnitsAt(t, j) => i = j
<1> DEFINE f == [i \in DOMAIN t.members |-> UnitsAt(t, i)]
<1>1. PICK n \in Nat : n = Len(t.members) /\ DOMAIN t.members = 1..n
  BY TextFacts
<1>2. IsFiniteSet(1..n) /\ Cardinality(1..n) = n
  <2>1. IsFiniteSet(1..n) /\ Cardinality(1..n) = IF 1 > n THEN 0 ELSE n - 1 + 1
    BY FS_Interval
  <2> QED BY <2>1
<1>3. f \in Surjection(1..n, NamesOf(t))
  BY <1>1 DEF Surjection, NamesOf
<1>4. f \in Injection(1..n, NamesOf(t))
        <=> \A i, j \in DOMAIN t.members : UnitsAt(t, i) = UnitsAt(t, j) => i = j
  <2>1. f \in [1..n -> NamesOf(t)] /\ DOMAIN f = 1..n /\ \A i \in 1..n : f[i] = UnitsAt(t, i)
    BY <1>1 DEF NamesOf
  <2> HIDE DEF f
  <2> QED BY <1>1, <2>1 DEF Injection, IsInjective
<1> HIDE DEF f
<1>5. /\ IsFiniteSet(NamesOf(t))
      /\ Cardinality(NamesOf(t)) = Cardinality(1..n) <=> f \in Injection(1..n, NamesOf(t))
  BY <1>2, <1>3, FS_Surjection
<1>6. NamesOf(t) \in SUBSET Seq(Unit)
  BY TextFacts DEF NamesOf
<1> QED BY <1>1, <1>2, <1>4, <1>5, <1>6

\* The member of a name is the only one with its units.
LEMMA MemberAt ==
  ASSUME NEW t, IsText(t), Accepted(t), NEW i \in DOMAIN t.members
  PROVE  MemberNamed(t, UnitsAt(t, i)) = t.members[i]
<1> DEFINE all == {t.members[k] : k \in DOMAIN t.members}
           m == CHOOSE m \in all : Units(m.name) = UnitsAt(t, i)
<1>1. t.members[i] \in all /\ Units(t.members[i].name) = UnitsAt(t, i)
  BY DEF UnitsAt
<1>2. m \in all /\ Units(m.name) = UnitsAt(t, i)
  BY <1>1
<1>3. MemberNamed(t, UnitsAt(t, i)) = m
  BY Zenon DEF MemberNamed
<1> HIDE DEF m
<1>4. PICK k \in DOMAIN t.members : m = t.members[k]
  BY <1>2
<1>5. UnitsAt(t, k) = UnitsAt(t, i)
  BY <1>2, <1>4 DEF UnitsAt
<1>6. k = i
  BY <1>5 DEF Accepted
<1> QED BY <1>3, <1>4, <1>6

LEMMA ScriptIsForm ==
  ASSUME NEW t, IsText(t)
  PROVE  ScriptCanonical(t) = IF Accepted(t) THEN Form(t) ELSE Refused
<1> DEFINE order == InOrder(NamesOf(t))
           ScriptRendered(value) ==
             IF IsString(value) THEN Str(Rewritten(value.string)) ELSE Num(ScriptNumber(value.number))
           condition ==
             /\ \A s \in Spellings(t.members) : Decodes(s) /\ ~ LoneUnit(Units(s))
             /\ Cardinality(NamesOf(t)) = Len(t.members)
             /\ AllFinite(t.members)
             /\ ~ t.trailing
           form ==
             [members |-> [i \in DOMAIN order |->
                [name |-> Written(Runes(order[i])), value |-> ScriptRendered(MemberNamed(t, order[i]).value)]],
              trailing |-> FALSE]
<1>1. ScriptCanonical(t) = IF condition THEN form ELSE Refused
  BY Zenon DEF ScriptCanonical, Sorted, InOrder, Rank, NamesOf, UnitsAt, MemberNamed, Map
<1>2. condition <=> Accepted(t)
  BY NamesFinite DEF Accepted
<1>3. DOMAIN order = 1..Cardinality(NamesOf(t))
  BY NamesFinite, Ordered
<1>4. ASSUME Accepted(t), NEW i \in 1..Cardinality(NamesOf(t))
      PROVE  ScriptRendered(MemberNamed(t, order[i]).value) = Rendered(MemberNamed(t, order[i]).value)
  <2>1. order[i] \in NamesOf(t)
    BY NamesFinite, Ordered
  <2>2. PICK k \in DOMAIN t.members : order[i] = UnitsAt(t, k)
    BY <2>1 DEF NamesOf
  <2>3. MemberNamed(t, order[i]) = t.members[k]
    BY <1>4, <2>2, MemberAt
  <2>4. MemberNamed(t, order[i]).value \in Value
    BY <2>3, TextFacts
  <2> DEFINE value == MemberNamed(t, order[i]).value
  <2>5. ~ IsString(value) => ScriptNumber(value.number) = GoNumber(value.number)
    BY <2>4, ValueShapes, NumbersAlike
  <2> HIDE DEF value
  <2>6. ScriptRendered(value) = Rendered(value)
    BY <2>5, Zenon DEF Rendered
  <2> QED BY <2>6, Zenon DEF value
<1>5. Accepted(t) => form = Form(t)
  <2> SUFFICES ASSUME Accepted(t) PROVE form = Form(t)
    OBVIOUS
  <2>1. [i \in DOMAIN order |->
           [name |-> Written(Runes(order[i])), value |-> ScriptRendered(MemberNamed(t, order[i]).value)]]
        = [i \in 1..Cardinality(NamesOf(t)) |->
             [name |-> Written(Runes(order[i])), value |-> Rendered(MemberNamed(t, order[i]).value)]]
    <3> HIDE DEF ScriptRendered, order
    <3> QED BY <1>3, <1>4, Zenon
  <2> QED BY <2>1, Zenon DEF Form
<1> HIDE DEF condition, form
<1> QED BY <1>1, <1>2, <1>5

LEMMA GoIsForm ==
  ASSUME NEW t, IsText(t)
  PROVE  GoCanonical(t) = IF Accepted(t) THEN Form(t) ELSE Refused
<1> DEFINE Name(i) == Runes(Units(t.members[i].name))
           goNames == {Name(i) : i \in DOMAIN t.members}
           order == GoInOrder(goNames)
           ValueOf(n) == t.members[CHOOSE i \in DOMAIN t.members : Name(i) = n].value
           condition ==
             \/ \E s \in Spellings(t.members) : LoneEscape(s) \/ ~ Decodes(s)
             \/ \E i, j \in DOMAIN t.members : i # j /\ Name(i) = Name(j)
             \/ t.trailing
             \/ ~ AllFinite(t.members)
           form ==
             [members |-> [i \in DOMAIN order |->
                [name |-> Written(order[i]), value |-> Rendered(ValueOf(order[i]))]],
              trailing |-> FALSE]
<1>1. GoCanonical(t) = IF condition THEN Refused ELSE form
  BY Zenon DEF GoCanonical, Sorted, GoInOrder, GoRank, Map, Rendered
<1>2. ASSUME \A s \in Spellings(t.members) : ~ LoneEscape(s)
      PROVE  \A i \in DOMAIN t.members : Rewrites(Name(i)) = UnitsAt(t, i)
  BY <1>2, TextFacts, SpellingsAlike DEF UnitsAt
<1>3. condition <=> ~ Accepted(t)
  <2>1. \A s \in Spellings(t.members) : LoneEscape(s) <=> LoneUnit(Units(s))
    BY TextFacts, SpellingsAlike
  <2>2. \A i, j \in DOMAIN t.members : UnitsAt(t, i) = UnitsAt(t, j) => Name(i) = Name(j)
    BY Zenon DEF UnitsAt
  <2>3. ASSUME \A s \in Spellings(t.members) : ~ LoneEscape(s)
        PROVE  \A i, j \in DOMAIN t.members : Name(i) = Name(j) => UnitsAt(t, i) = UnitsAt(t, j)
    <3> HIDE DEF Name
    <3>1. \A i \in DOMAIN t.members : Rewrites(Name(i)) = UnitsAt(t, i)
      BY <1>2, <2>3
    <3> QED BY <3>1
  <2> HIDE DEF Name
  <2> QED BY <2>1, <2>2, <2>3 DEF Accepted
<1>4. Accepted(t) => form = Form(t)
  <2> SUFFICES ASSUME Accepted(t) PROVE form = Form(t)
    OBVIOUS
  <2> DEFINE names == NamesOf(t)
             o == InOrder(names)
             n == Cardinality(names)
  <2>1. \A s \in Spellings(t.members) : ~ LoneEscape(s)
    BY TextFacts, SpellingsAlike DEF Accepted
  <2>2. \A i \in DOMAIN t.members : Rewrites(Name(i)) = UnitsAt(t, i) /\ Name(i) = Runes(UnitsAt(t, i))
    BY <1>2, <2>1 DEF UnitsAt
  <2> HIDE DEF Name
  <2>3. \A u \in names : Rewrites(Runes(u)) = u
    BY <2>2 DEF NamesOf
  <2>4. goNames = {Runes(u) : u \in names}
    BY <2>2 DEF NamesOf
  <2>5. Cardinality(goNames) = n /\ order = [i \in 1..n |-> Runes(o[i])]
    <3>1. names \in SUBSET Seq(Unit) /\ IsFiniteSet(names)
      BY NamesFinite
    <3> HIDE DEF names, goNames
    <3> QED BY <2>3, <2>4, <3>1, OrdersAlike
  <2>6. ASSUME NEW i \in 1..n PROVE order[i] = Runes(o[i]) /\ ValueOf(order[i]) = MemberNamed(t, o[i]).value
    <3>1. order[i] = Runes(o[i])
      <4> HIDE DEF order, o, n
      <4> QED BY <2>5
    <3>2. o[i] \in names
      BY NamesFinite, Ordered
    <3>3. PICK k \in DOMAIN t.members : o[i] = UnitsAt(t, k)
      BY <3>2 DEF NamesOf
    <3>4. MemberNamed(t, o[i]) = t.members[k]
      BY <3>3, MemberAt
    <3>5. \A j \in DOMAIN t.members : Name(j) = order[i] <=> j = k
      <4>1. Name(k) = order[i]
        BY <2>2, <3>1, <3>3
      <4>2. ASSUME NEW j \in DOMAIN t.members, Name(j) = order[i] PROVE j = k
        <5>1. Rewrites(Name(j)) = Rewrites(Name(k))
          BY <4>1, <4>2, Zenon
        <5>2. UnitsAt(t, j) = UnitsAt(t, k)
          BY <2>2, <5>1
        <5> QED BY <5>2 DEF Accepted
      <4> QED BY <4>1, <4>2
    <3> DEFINE g == order[i]
    <3>6. (CHOOSE j \in DOMAIN t.members : Name(j) = g) = k
      <4> HIDE DEF g
      <4>1. \A j \in DOMAIN t.members : Name(j) = g <=> j = k
        BY <3>5 DEF g
      <4> QED BY <4>1
    <3>7. ValueOf(g) = t.members[k].value
      <4> HIDE DEF g
      <4> QED BY <3>6, Zenon
    <3> QED BY <3>1, <3>4, <3>7, Zenon DEF g
  <2>7. DOMAIN order = 1..n
    <3> HIDE DEF order, n, o
    <3> QED BY <2>5
  <2>8. [i \in DOMAIN order |-> [name |-> Written(order[i]), value |-> Rendered(ValueOf(order[i]))]]
        = [i \in 1..n |-> [name |-> Written(Runes(o[i])), value |-> Rendered(MemberNamed(t, o[i]).value)]]
    <3> HIDE DEF order, ValueOf, n, o
    <3> QED BY <2>6, <2>7, Zenon
  <2> QED BY <2>8, Zenon DEF Form
<1> HIDE DEF condition, form
<1> QED BY <1>1, <1>3, <1>4

-----------------------------------------------------------------------------
(* Every text there is.                                                      *)

LEMMA TextsBegin == CanonicalInit => IsText(text)
BY DEF CanonicalInit, IsText

LEMMA TextsStay == ASSUME IsText(text), [CanonicalNext]_text PROVE IsText(text)'
<1>1. \A name \in Names : name \in Seq(Characters)
  BY TextAssumption
<1>2. \A value \in Values : value \in Value
  <2> SUFFICES ASSUME NEW value \in Values PROVE value \in Value
    OBVIOUS
  <2>1. CASE value = [string |-> value.string] /\ value.string \in Seq(Characters)
    BY <2>1 DEF Value, Str
  <2>2. CASE value = [number |-> value.number] /\ value.number \in Numbers
    BY <2>2 DEF Value, Num
  <2> QED BY <2>1, <2>2, TextAssumption
<1> DEFINE M == text.members
<1>3. /\ text = [members |-> M, trailing |-> text.trailing]
      /\ M \in Seq(Member) /\ text.trailing \in BOOLEAN
  BY DEF IsText
<1>4. \A m \in Member :
        /\ \A name \in Seq(Characters) : [m EXCEPT !.name = name] \in Member
        /\ \A value \in Value : [m EXCEPT !.value = value] \in Member
  BY DEF Member
<1>5. CASE UNCHANGED text
  BY <1>5 DEF IsText
<1>6. CASE Reverse
  <2> DEFINE R == [i \in DOMAIN M |-> M[Len(M) + 1 - i]]
  <2>1. R \in Seq(Member)
    BY <1>3
  <2>2. text' = [text EXCEPT !.members = R]
    BY <1>6, Zenon DEF Reverse
  <2> HIDE DEF R, M
  <2> QED BY <1>3, <2>1, <2>2 DEF IsText
<1>7. CASE Trail
  BY <1>3, <1>7 DEF Trail, IsText
<1>8. ASSUME NEW name \in Names, NEW value \in Values, Add(name, value) PROVE IsText(text)'
  <2>1. [name |-> name, value |-> value] \in Member
    BY <1>1, <1>2 DEF Member
  <2>2. Append(M, [name |-> name, value |-> value]) \in Seq(Member)
    BY <1>3, <2>1
  <2> QED BY <1>3, <1>8, <2>2 DEF Add, IsText
<1>9. ASSUME NEW name \in Names, NEW i \in DOMAIN M, Rename(i, name) PROVE IsText(text)'
  <2> DEFINE m == [M[i] EXCEPT !.name = name]
  <2>1. m \in Member
    <3>1. M[i] \in Member
      <4> HIDE DEF M
      <4> QED BY <1>3
    <3>2. PICK a \in Member : a = M[i]
      BY <3>1
    <3>3. [a EXCEPT !.name = name] \in Member
      BY <1>1, <1>4
    <3> QED BY <3>2, <3>3, Zenon
  <2>2. [M EXCEPT ![i] = m] \in Seq(Member)
    <3> HIDE DEF m
    <3> QED BY <1>3, <2>1
  <2>3. text' = [text EXCEPT !.members = [M EXCEPT ![i] = m]]
    BY <1>3, <1>9 DEF Rename
  <2> HIDE DEF m, M
  <2> QED BY <1>3, <2>2, <2>3 DEF IsText
<1>10. ASSUME NEW value \in Values, NEW i \in DOMAIN M, Rewrite(i, value) PROVE IsText(text)'
  <2> DEFINE m == [M[i] EXCEPT !.value = value]
  <2>1. m \in Member
    <3>1. M[i] \in Member
      <4> HIDE DEF M
      <4> QED BY <1>3
    <3>2. PICK a \in Member : a = M[i]
      BY <3>1
    <3>3. [a EXCEPT !.value = value] \in Member
      BY <1>2, <1>4
    <3> QED BY <3>2, <3>3, Zenon
  <2>2. [M EXCEPT ![i] = m] \in Seq(Member)
    <3> HIDE DEF m
    <3> QED BY <1>3, <2>1
  <2>3. text' = [text EXCEPT !.members = [M EXCEPT ![i] = m]]
    BY <1>3, <1>10 DEF Rewrite
  <2> HIDE DEF m, M
  <2> QED BY <1>3, <2>2, <2>3 DEF IsText
<1> QED BY <1>5, <1>6, <1>7, <1>8, <1>9, <1>10 DEF CanonicalNext

LEMMA TextsAgree == IsText(text) => CanonicalizersAgree
BY GoIsForm, ScriptIsForm DEF CanonicalizersAgree

-----------------------------------------------------------------------------
(* One form for each meaning.                                                *)

ValueMeaning(value) == IF IsString(value) THEN Str(Units(value.string)) ELSE Num(Double(value.number))
MeaningAt(t, i) == <<UnitsAt(t, i), ValueMeaning(t.members[i].value)>>

LEMMA MeaningMembers == ASSUME NEW t PROVE Meaning(t) = {MeaningAt(t, i) : i \in DOMAIN t.members}
BY Zenon DEF Meaning, MeaningAt, UnitsAt, Map, ValueMeaning

\* What a rune is written as, its decoders accept.
LEMMA WrittenDecodes == ASSUME NEW r \in Seq(Point) PROVE Decodes(Written(r))
<1>1. \A i \in DOMAIN r : r[i] \in Nat
  BY DEF Point, Points
<1>2. DOMAIN Written(r) = DOMAIN r /\ \A i \in DOMAIN r : Written(r)[i] = Letter(r[i])
  <2>1. Written(r) = [i \in DOMAIN r |-> Letter(r[i])]
    BY Zenon DEF Written, Letter
  <2> QED BY <2>1
<1>3. \A p \in Nat : Letter(p).escape \/ Letter(p).code >= 32
  BY DEF Letter, Escape, Raw
<1> QED BY <1>1, <1>2, <1>3 DEF Decodes

\* A spelling without lone surrogates is rewritten as one with the same units.
LEMMA RewrittenSpelling ==
  ASSUME NEW s \in Seq(Characters), ~ LoneUnit(Units(s))
  PROVE  /\ Rewritten(s) \in Seq(Characters) /\ Decodes(Rewritten(s))
         /\ Units(Rewritten(s)) = Units(s) /\ Rewritten(Rewritten(s)) = Rewritten(s)
<1>1. Runes(Units(s)) \in Seq(Point) /\ Rewrites(Runes(Units(s))) = Units(s)
  BY SpellingsAlike
<1>2. Rewritten(s) = Written(Runes(Units(s)))
  BY Zenon DEF Rewritten
<1>3. Units(Rewritten(s)) = Units(s)
  BY <1>1, <1>2, Zenon DEF Rewrites
<1>4. Rewritten(Rewritten(s)) = Written(Runes(Units(Rewritten(s))))
  BY Zenon DEF Rewritten
<1>5. Rewritten(Rewritten(s)) = Rewritten(s)
  BY <1>2, <1>3, <1>4, Zenon
<1> QED BY <1>1, <1>2, <1>3, <1>5, WrittenAppend, WrittenDecodes

\* So is a value, and it means the same.
GoodValue(value) ==
  IF IsString(value) THEN Decodes(value.string) /\ ~ LoneUnit(Units(value.string))
  ELSE Finite(value.number)

LEMMA RenderedValue ==
  ASSUME NEW value \in Value, GoodValue(value)
  PROVE  /\ Rendered(value) \in Value /\ GoodValue(Rendered(value))
         /\ Rendered(Rendered(value)) = Rendered(value)
         /\ ValueMeaning(Rendered(value)) = ValueMeaning(value)
<1>1. CASE IsString(value)
  <2>1. value.string \in Seq(Characters) /\ Decodes(value.string) /\ ~ LoneUnit(Units(value.string))
    BY <1>1, ValueShapes DEF GoodValue
  <2> DEFINE s == Rewritten(value.string)
  <2>2. s \in Seq(Characters) /\ Decodes(s) /\ Units(s) = Units(value.string) /\ Rewritten(s) = s
    BY <2>1, RewrittenSpelling
  <2>3. Rendered(value) = Str(s) /\ ValueMeaning(value) = Str(Units(value.string))
    BY <1>1, Zenon DEF Rendered, ValueMeaning
  <2> HIDE DEF s
  <2>4. IsString(Str(s)) /\ Str(s).string = s
    BY DEF IsString, Str
  <2>5. Rendered(Str(s)) = Str(Rewritten(s)) /\ ValueMeaning(Str(s)) = Str(Units(s))
    BY <2>4, Zenon DEF Rendered, ValueMeaning
  <2>6. GoodValue(Str(s))
    BY <2>1, <2>2, <2>4, Zenon DEF GoodValue
  <2>7. Str(s) \in Value
    BY <2>2 DEF Value
  <2> QED BY <2>2, <2>3, <2>5, <2>6, <2>7, Zenon
<1>2. CASE ~ IsString(value)
  <2>1. value.number \in Numbers /\ Finite(value.number)
    BY <1>2, ValueShapes DEF GoodValue
  <2> DEFINE n == GoNumber(value.number)
  <2>2. n \in Numbers /\ Finite(n) /\ GoNumber(n) = n /\ Double(n) = Double(value.number)
    BY <2>1, NumbersWritten
  <2>3. Rendered(value) = Num(n) /\ ValueMeaning(value) = Num(Double(value.number))
    BY <1>2, Zenon DEF Rendered, ValueMeaning
  <2> HIDE DEF n
  <2>4. ~ IsString(Num(n)) /\ Num(n).number = n
    BY DEF IsString, Num
  <2>5. Rendered(Num(n)) = Num(GoNumber(n)) /\ ValueMeaning(Num(n)) = Num(Double(n))
    BY <2>4, Zenon DEF Rendered, ValueMeaning
  <2>6. GoodValue(Num(n))
    BY <2>2, <2>4, Zenon DEF GoodValue
  <2>7. Num(n) \in Value
    BY <2>2 DEF Value
  <2> QED BY <2>2, <2>3, <2>5, <2>6, <2>7, Zenon
<1> QED BY <1>1, <1>2

\* Values that mean the same are rendered alike.
LEMMA MeantAlike ==
  ASSUME NEW v \in Value, NEW w \in Value, ValueMeaning(v) = ValueMeaning(w)
  PROVE  Rendered(v) = Rendered(w)
<1>0. /\ \A a, b : Str(a) = Str(b) => a = b
      /\ \A a, b : Num(a) = Num(b) => a = b
      /\ \A a, b : Str(a) # Num(b)
  <2>2. \A a : IsString(Str(a)) /\ ~ IsString(Num(a))
    BY DEF Str, Num, IsString
  <2>3. ASSUME NEW a, NEW b, Str(a) = Str(b) PROVE a = b
    <3>1. [string |-> a].string = [string |-> b].string
      BY <2>3, Zenon DEF Str
    <3> QED BY <3>1
  <2>4. ASSUME NEW a, NEW b, Num(a) = Num(b) PROVE a = b
    <3>1. [number |-> a].number = [number |-> b].number
      BY <2>4, Zenon DEF Num
    <3> QED BY <3>1
  <2>5. ASSUME NEW a, NEW b PROVE Str(a) # Num(b)
    <3> DEFINE s == Str(a)
               n == Num(b)
    <3>1. IsString(s) /\ ~ IsString(n)
      BY <2>2
    <3> HIDE DEF s, n
    <3>2. s # n
      BY <3>1
    <3> QED BY <3>2 DEF s, n
  <2> QED BY <2>3, <2>4, <2>5, Zenon
<1>1. CASE IsString(v) /\ IsString(w)
  <2>1. Str(Units(v.string)) = Str(Units(w.string))
    BY <1>1, Zenon DEF ValueMeaning
  <2>2. Rewritten(v.string) = Rewritten(w.string)
    BY <1>0, <2>1, Zenon DEF Rewritten
  <2> QED BY <1>1, <2>2, Zenon DEF Rendered
<1>2. CASE ~ IsString(v) /\ ~ IsString(w)
  <2>1. Double(v.number) = Double(w.number)
    BY <1>0, <1>2, Zenon DEF ValueMeaning
  <2>2. v.number \in Numbers /\ w.number \in Numbers
    BY <1>2, ValueShapes
  <2>3. GoNumber(v.number) = GoNumber(w.number)
    BY <2>1, <2>2, NumbersWritten
  <2> QED BY <1>2, <2>3, Zenon DEF Rendered
<1>3. CASE ~ (IsString(v) <=> IsString(w))
  BY <1>0, <1>3, Zenon DEF ValueMeaning
<1> QED BY <1>1, <1>2, <1>3

LEMMA GoodMembers ==
  ASSUME NEW t, IsText(t), Accepted(t), NEW k \in DOMAIN t.members
  PROVE  /\ t.members[k].name \in Seq(Characters) /\ t.members[k].value \in Value
         /\ ~ LoneUnit(Units(t.members[k].name)) /\ GoodValue(t.members[k].value)
<1>1. /\ t.members[k].name \in Seq(Characters) /\ t.members[k].value \in Value
      /\ t.members[k].name \in Spellings(t.members)
      /\ IsString(t.members[k].value) => t.members[k].value.string \in Spellings(t.members)
  BY TextFacts
<1>2. ~ IsString(t.members[k].value) => Finite(t.members[k].value.number)
  BY DEF Accepted, AllFinite
<1>3. \A s \in Spellings(t.members) : Decodes(s) /\ ~ LoneUnit(Units(s))
  BY DEF Accepted
<1> QED BY <1>1, <1>2, <1>3 DEF GoodValue

\* Each member of the canonical form is one of the text, and each of the text's is there.
RenderedMember(m) == [name |-> Rewritten(m.name), value |-> Rendered(m.value)]

LEMMA FormMembers ==
  ASSUME NEW t, IsText(t), Accepted(t)
  PROVE  LET n == Cardinality(NamesOf(t))
             o == InOrder(NamesOf(t))
         IN /\ n \in Nat /\ DOMAIN Form(t).members = 1..n
            /\ Form(t).members = [i \in 1..n |-> Form(t).members[i]]
            /\ Form(t) = [members |-> Form(t).members, trailing |-> FALSE]
            /\ \A i \in 1..n : \E k \in DOMAIN t.members :
                 o[i] = UnitsAt(t, k) /\ Form(t).members[i] = RenderedMember(t.members[k])
            /\ \A k \in DOMAIN t.members : \E i \in 1..n :
                 o[i] = UnitsAt(t, k) /\ Form(t).members[i] = RenderedMember(t.members[k])
<1> DEFINE names == NamesOf(t)
           n == Cardinality(names)
           o == InOrder(names)
           f == [i \in 1..n |-> [name |-> Written(Runes(o[i])), value |-> Rendered(MemberNamed(t, o[i]).value)]]
<1>1. names \in SUBSET Seq(Unit) /\ IsFiniteSet(names)
  BY NamesFinite
<1>2. n \in Nat
  BY <1>1, Ranks
<1>3. Form(t) = [members |-> f, trailing |-> FALSE]
  BY Zenon DEF Form
<1>4. /\ DOMAIN f = 1..n /\ f = [i \in 1..n |-> f[i]]
      /\ \A i \in 1..n : f[i] = [name |-> Written(Runes(o[i])), value |-> Rendered(MemberNamed(t, o[i]).value)]
  <2> HIDE DEF n, o
  <2>1. DOMAIN f = 1..n /\ f = [i \in 1..n |-> f[i]]
    BY Zenon
  <2>2. \A i \in 1..n : f[i] = [name |-> Written(Runes(o[i])), value |-> Rendered(MemberNamed(t, o[i]).value)]
    BY Zenon
  <2> QED BY <2>1, <2>2
<1>5. ASSUME NEW i \in 1..n, NEW k \in DOMAIN t.members, o[i] = UnitsAt(t, k)
      PROVE  f[i] = RenderedMember(t.members[k])
  <2>1. MemberNamed(t, o[i]) = t.members[k]
    BY <1>5, MemberAt
  <2>2. Written(Runes(o[i])) = Rewritten(t.members[k].name)
    BY <1>5, Zenon DEF Rewritten, UnitsAt
  <2>3. f[i] = [name |-> Written(Runes(o[i])), value |-> Rendered(MemberNamed(t, o[i]).value)]
    BY <1>4
  <2> HIDE DEF f
  <2> QED BY <2>1, <2>2, <2>3, Zenon DEF RenderedMember
<1> HIDE DEF f
<1>6. ASSUME NEW i \in 1..n
      PROVE  \E k \in DOMAIN t.members : o[i] = UnitsAt(t, k) /\ f[i] = RenderedMember(t.members[k])
  <2>1. o[i] \in names
    BY <1>1, Ordered
  <2>2. PICK k \in DOMAIN t.members : o[i] = UnitsAt(t, k)
    BY <2>1 DEF NamesOf
  <2> QED BY <1>5, <2>2
<1>7. ASSUME NEW k \in DOMAIN t.members
      PROVE  \E i \in 1..n : o[i] = UnitsAt(t, k) /\ f[i] = RenderedMember(t.members[k])
  <2>1. UnitsAt(t, k) \in names
    BY DEF NamesOf
  <2>2. PICK i \in 1..n : o[i] = UnitsAt(t, k)
    BY <1>1, <2>1, Ordered
  <2> QED BY <1>5, <2>2
<1>8. Form(t).members = f
  BY <1>3
<1> HIDE DEF n, o
<1>9. /\ n \in Nat /\ DOMAIN Form(t).members = 1..n
      /\ Form(t).members = [i \in 1..n |-> Form(t).members[i]]
      /\ Form(t) = [members |-> Form(t).members, trailing |-> FALSE]
  BY <1>2, <1>3, <1>4, <1>8, Zenon
<1>10. \A i \in 1..n : \E k \in DOMAIN t.members :
         o[i] = UnitsAt(t, k) /\ Form(t).members[i] = RenderedMember(t.members[k])
  BY <1>6, <1>8, Zenon
<1>11. \A k \in DOMAIN t.members : \E i \in 1..n :
         o[i] = UnitsAt(t, k) /\ Form(t).members[i] = RenderedMember(t.members[k])
  BY <1>7, <1>8, Zenon
<1> QED BY <1>9, <1>10, <1>11, Zenon DEF n, o

\* The canonical form of a text is a text, accepted, with the same names.
LEMMA FormAccepted ==
  ASSUME NEW t, IsText(t), Accepted(t)
  PROVE  /\ IsText(Form(t)) /\ Accepted(Form(t)) /\ NamesOf(Form(t)) = NamesOf(t)
         /\ \A i \in 1..Cardinality(NamesOf(t)) : UnitsAt(Form(t), i) = InOrder(NamesOf(t))[i]
<1> DEFINE n == Cardinality(NamesOf(t))
           o == InOrder(NamesOf(t))
           F == Form(t)
           M == F.members
<1>1. /\ n \in Nat /\ DOMAIN M = 1..n /\ M = [i \in 1..n |-> M[i]]
      /\ F = [members |-> M, trailing |-> FALSE]
      /\ \A i \in 1..n : \E k \in DOMAIN t.members :
           o[i] = UnitsAt(t, k) /\ M[i] = RenderedMember(t.members[k])
      /\ \A k \in DOMAIN t.members : \E i \in 1..n :
           o[i] = UnitsAt(t, k) /\ M[i] = RenderedMember(t.members[k])
  BY FormMembers
<1>2. \A i, j \in 1..n : o[i] = o[j] => i = j
  BY NamesFinite, Ordered
<1>3. /\ \A i \in 1..n : o[i] \in NamesOf(t)
      /\ \A u \in NamesOf(t) : \E i \in 1..n : o[i] = u
  BY NamesFinite, Ordered
<1> HIDE DEF n, o, M
<1>4. ASSUME NEW i \in 1..n
      PROVE  /\ M[i] \in Member /\ Units(M[i].name) = o[i]
             /\ Decodes(M[i].name) /\ ~ LoneUnit(Units(M[i].name)) /\ GoodValue(M[i].value)
  <2>1. PICK k \in DOMAIN t.members : o[i] = UnitsAt(t, k) /\ M[i] = RenderedMember(t.members[k])
    BY <1>1
  <2> DEFINE name == t.members[k].name
             value == t.members[k].value
  <2>2. name \in Seq(Characters) /\ value \in Value /\ ~ LoneUnit(Units(name)) /\ GoodValue(value)
    BY GoodMembers
  <2>3. M[i] = [name |-> Rewritten(name), value |-> Rendered(value)] /\ o[i] = Units(name)
    BY <2>1, Zenon DEF RenderedMember, UnitsAt
  <2> HIDE DEF name, value
  <2>4. /\ Rewritten(name) \in Seq(Characters) /\ Decodes(Rewritten(name))
        /\ Units(Rewritten(name)) = Units(name)
    BY <2>2, RewrittenSpelling
  <2>5. Rendered(value) \in Value /\ GoodValue(Rendered(value))
    BY <2>2, RenderedValue
  <2>6. M[i].name = Rewritten(name) /\ M[i].value = Rendered(value)
    BY <2>3
  <2>7. M[i] \in Member
    BY <2>3, <2>4, <2>5 DEF Member
  <2>8. ~ LoneUnit(Units(Rewritten(name)))
    BY <2>2, <2>4, Zenon
  <2> QED BY <2>3, <2>4, <2>5, <2>6, <2>7, <2>8, Zenon
<1>5. M \in Seq(Member)
  <2>1. M \in [1..n -> Member]
    BY <1>1, <1>4
  <2> QED BY <1>1, <2>1
<1>6. F.members = M /\ F.trailing = FALSE
  BY <1>1
<1>7. IsText(F)
  <2> HIDE DEF F
  <2> QED BY <1>1, <1>5, <1>6 DEF IsText
<1>8. \A i \in 1..n : UnitsAt(F, i) = o[i]
  <2> HIDE DEF F
  <2>1. \A i \in 1..n : UnitsAt(F, i) = Units(M[i].name)
    BY <1>6, Zenon DEF UnitsAt
  <2> QED BY <1>4, <2>1
<1>9. NamesOf(F) = NamesOf(t)
  <2> HIDE DEF F
  <2>1. NamesOf(F) = {UnitsAt(F, i) : i \in 1..n}
    BY <1>1, <1>6, Zenon DEF NamesOf
  <2> QED BY <1>3, <1>8, <2>1
<1>10. \A s \in Spellings(M) : Decodes(s) /\ ~ LoneUnit(Units(s))
  <2> SUFFICES ASSUME NEW s \in Spellings(M) PROVE Decodes(s) /\ ~ LoneUnit(Units(s))
    OBVIOUS
  <2>1. CASE \E i \in 1..n : s = M[i].name
    BY <1>4, <2>1
  <2>2. CASE \E i \in 1..n : IsString(M[i].value) /\ s = M[i].value.string
    BY <1>4, <2>2 DEF GoodValue
  <2> QED BY <1>1, <2>1, <2>2 DEF Spellings
<1>11. AllFinite(M)
  BY <1>1, <1>4 DEF AllFinite, GoodValue
<1>12. Accepted(F)
  <2> HIDE DEF F
  <2>1. \A i, j \in DOMAIN F.members : UnitsAt(F, i) = UnitsAt(F, j) => i = j
    BY <1>1, <1>2, <1>6, <1>8
  <2> QED BY <1>6, <1>10, <1>11, <2>1 DEF Accepted
<1> QED BY <1>7, <1>8, <1>9, <1>12 DEF n, o

\* It is its own canonical form, and means what the text does.
LEMMA FormTwice ==
  ASSUME NEW t, IsText(t), Accepted(t)
  PROVE  Form(Form(t)) = Form(t)
<1> DEFINE n == Cardinality(NamesOf(t))
           o == InOrder(NamesOf(t))
           F == Form(t)
<1>1. IsText(F) /\ Accepted(F) /\ NamesOf(F) = NamesOf(t) /\ \A i \in 1..n : UnitsAt(F, i) = o[i]
  BY FormAccepted
<1>2. /\ DOMAIN F.members = 1..n /\ F.members = [i \in 1..n |-> F.members[i]]
      /\ F = [members |-> F.members, trailing |-> FALSE]
      /\ \A i \in 1..n : \E k \in DOMAIN t.members :
           o[i] = UnitsAt(t, k) /\ F.members[i] = RenderedMember(t.members[k])
  BY FormMembers
<1> HIDE DEF F
<1>3. Form(F) = [members |-> [i \in 1..n |->
                   [name |-> Written(Runes(o[i])), value |-> Rendered(MemberNamed(F, o[i]).value)]],
                 trailing |-> FALSE]
  BY <1>1, Zenon DEF Form
<1> HIDE DEF n, o
<1>4. ASSUME NEW i \in 1..n
      PROVE  [name |-> Written(Runes(o[i])), value |-> Rendered(MemberNamed(F, o[i]).value)] = F.members[i]
  <2>1. PICK k \in DOMAIN t.members : o[i] = UnitsAt(t, k) /\ F.members[i] = RenderedMember(t.members[k])
    BY <1>2
  <2>2. MemberNamed(F, UnitsAt(F, i)) = F.members[i]
    BY <1>1, <1>2, MemberAt
  <2>3. MemberNamed(F, o[i]).value = Rendered(t.members[k].value)
    <3>1. F.members[i].value = Rendered(t.members[k].value)
      BY <2>1 DEF RenderedMember
    <3>2. MemberNamed(F, o[i]) = F.members[i]
      BY <1>1, <2>2
    <3> QED BY <3>1, <3>2, Zenon
  <2>4. Rendered(Rendered(t.members[k].value)) = Rendered(t.members[k].value)
    BY GoodMembers, RenderedValue
  <2>5. Written(Runes(o[i])) = Rewritten(t.members[k].name)
    BY <2>1, Zenon DEF Rewritten, UnitsAt
  <2> QED BY <2>1, <2>3, <2>4, <2>5, Zenon DEF RenderedMember
<1>5. [i \in 1..n |-> [name |-> Written(Runes(o[i])), value |-> Rendered(MemberNamed(F, o[i]).value)]]
      = [i \in 1..n |-> F.members[i]]
  BY <1>4, Zenon
<1>6. Form(F) = F
  BY <1>2, <1>3, <1>5, Zenon
<1> QED BY <1>6 DEF F

LEMMA FormMeans ==
  ASSUME NEW t, IsText(t), Accepted(t)
  PROVE  Meaning(Form(t)) = Meaning(t)
<1> DEFINE n == Cardinality(NamesOf(t))
           o == InOrder(NamesOf(t))
           F == Form(t)
<1>1. \A i \in 1..n : UnitsAt(F, i) = o[i]
  BY FormAccepted
<1>2. /\ DOMAIN F.members = 1..n
      /\ \A i \in 1..n : \E k \in DOMAIN t.members :
           o[i] = UnitsAt(t, k) /\ F.members[i] = RenderedMember(t.members[k])
      /\ \A k \in DOMAIN t.members : \E i \in 1..n :
           o[i] = UnitsAt(t, k) /\ F.members[i] = RenderedMember(t.members[k])
  BY FormMembers
<1> HIDE DEF F, n, o
<1>3. ASSUME NEW i \in 1..n, NEW k \in DOMAIN t.members,
             o[i] = UnitsAt(t, k), F.members[i] = RenderedMember(t.members[k])
      PROVE  MeaningAt(F, i) = MeaningAt(t, k)
  <2>1. F.members[i].value = Rendered(t.members[k].value)
    BY <1>3 DEF RenderedMember
  <2>2. ValueMeaning(F.members[i].value) = ValueMeaning(t.members[k].value)
    BY <2>1, GoodMembers, RenderedValue
  <2>3. UnitsAt(F, i) = UnitsAt(t, k)
    BY <1>1, <1>3
  <2> QED BY <2>2, <2>3, Zenon DEF MeaningAt
<1>4. {MeaningAt(F, i) : i \in DOMAIN F.members} = {MeaningAt(t, k) : k \in DOMAIN t.members}
  <2> DEFINE Here == {MeaningAt(F, i) : i \in DOMAIN F.members}
             There == {MeaningAt(t, k) : k \in DOMAIN t.members}
  <2>0. \A i \in 1..n, k \in DOMAIN t.members :
          o[i] = UnitsAt(t, k) /\ F.members[i] = RenderedMember(t.members[k])
            => MeaningAt(F, i) = MeaningAt(t, k)
    BY <1>3
  <2>1. \A i \in DOMAIN F.members : \E k \in DOMAIN t.members : MeaningAt(F, i) = MeaningAt(t, k)
    BY <1>2, <2>0, Zenon
  <2>2. \A k \in DOMAIN t.members : \E i \in DOMAIN F.members : MeaningAt(F, i) = MeaningAt(t, k)
    BY <1>2, <2>0, Zenon
  <2>3. Here \subseteq There
    BY <2>1, Zenon
  <2>4. There \subseteq Here
    BY <2>2, Zenon
  <2> QED BY <2>3, <2>4, Zenon
<1> QED BY <1>4, MeaningMembers DEF F

\* Texts that mean the same have one canonical form.
LEMMA OneForm ==
  ASSUME NEW t, IsText(t), Accepted(t), NEW s, IsText(s), Accepted(s), Meaning(t) = Meaning(s)
  PROVE  Form(t) = Form(s)
<1>1. ASSUME NEW k \in DOMAIN t.members
      PROVE  \E l \in DOMAIN s.members : MeaningAt(s, l) = MeaningAt(t, k)
  <2>1. MeaningAt(t, k) \in {MeaningAt(s, l) : l \in DOMAIN s.members}
    BY MeaningMembers
  <2> QED BY <2>1
<1>2. ASSUME NEW l \in DOMAIN s.members
      PROVE  \E k \in DOMAIN t.members : MeaningAt(s, l) = MeaningAt(t, k)
  <2>1. MeaningAt(s, l) \in {MeaningAt(t, k) : k \in DOMAIN t.members}
    BY MeaningMembers
  <2> QED BY <2>1
<1>3. \A k, l : MeaningAt(s, l) = MeaningAt(t, k) =>
        UnitsAt(s, l) = UnitsAt(t, k) /\ ValueMeaning(s.members[l].value) = ValueMeaning(t.members[k].value)
  BY DEF MeaningAt
<1>4. NamesOf(t) = NamesOf(s)
  BY <1>1, <1>2, <1>3 DEF NamesOf
<1> DEFINE names == NamesOf(t)
           n == Cardinality(names)
           o == InOrder(names)
<1>5. ASSUME NEW i \in 1..n PROVE Rendered(MemberNamed(t, o[i]).value) = Rendered(MemberNamed(s, o[i]).value)
  <2>1. o[i] \in names
    BY NamesFinite, Ordered
  <2>2. PICK k \in DOMAIN t.members : o[i] = UnitsAt(t, k)
    BY <2>1 DEF NamesOf
  <2>3. PICK l \in DOMAIN s.members : MeaningAt(s, l) = MeaningAt(t, k)
    BY <1>1
  <2>4. UnitsAt(s, l) = UnitsAt(t, k) /\ ValueMeaning(s.members[l].value) = ValueMeaning(t.members[k].value)
    BY <1>3, <2>3
  <2>5. MemberNamed(t, o[i]) = t.members[k] /\ MemberNamed(s, o[i]) = s.members[l]
    BY <2>2, <2>4, MemberAt
  <2>6. t.members[k].value \in Value /\ s.members[l].value \in Value
    BY TextFacts
  <2>7. Rendered(t.members[k].value) = Rendered(s.members[l].value)
    BY <2>4, <2>6, MeantAlike
  <2> QED BY <2>5, <2>7, Zenon
<1>6. [i \in 1..n |-> [name |-> Written(Runes(o[i])), value |-> Rendered(MemberNamed(t, o[i]).value)]]
      = [i \in 1..n |-> [name |-> Written(Runes(o[i])), value |-> Rendered(MemberNamed(s, o[i]).value)]]
  <2> HIDE DEF n, o
  <2> QED BY <1>5, Zenon
<1> QED BY <1>4, <1>6, Zenon DEF Form

LEMMA FormNotRefused == ASSUME NEW t PROVE Form(t) # Refused
<1>1. Form(t).trailing = FALSE /\ Refused.trailing = TRUE
  BY DEF Form, Refused
<1> QED BY <1>1

LEMMA FormsAndMeanings ==
  ASSUME IsText(text), IsText(text)'
  PROVE  /\ GoCanonical(text) # Refused =>
              /\ GoCanonical(GoCanonical(text)) = GoCanonical(text)
              /\ Meaning(GoCanonical(text)) = Meaning(text)
         /\ Refused \notin {GoCanonical(text), GoCanonical(text')} =>
              (GoCanonical(text) = GoCanonical(text')) = (Meaning(text) = Meaning(text'))
<1> DEFINE u == text'
<1>1. IsText(u)
  BY DEF IsText
<1> HIDE DEF u
<1>2. GoCanonical(text) = IF Accepted(text) THEN Form(text) ELSE Refused
  BY GoIsForm
<1>3. GoCanonical(u) = IF Accepted(u) THEN Form(u) ELSE Refused
  BY <1>1, GoIsForm
<1>4. ASSUME GoCanonical(text) # Refused
      PROVE  /\ GoCanonical(GoCanonical(text)) = GoCanonical(text)
             /\ Meaning(GoCanonical(text)) = Meaning(text)
  <2>1. Accepted(text) /\ GoCanonical(text) = Form(text)
    BY <1>2, <1>4
  <2>2. IsText(Form(text)) /\ Accepted(Form(text))
    BY <2>1, FormAccepted
  <2>3. GoCanonical(Form(text)) = Form(Form(text))
    BY <2>2, GoIsForm
  <2> QED BY <2>1, <2>3, FormTwice, FormMeans
<1>5. ASSUME Refused \notin {GoCanonical(text), GoCanonical(u)}
      PROVE  (GoCanonical(text) = GoCanonical(u)) = (Meaning(text) = Meaning(u))
  <2>1. Accepted(text) /\ GoCanonical(text) = Form(text)
    BY <1>2, <1>5
  <2>2. Accepted(u) /\ GoCanonical(u) = Form(u)
    BY <1>3, <1>5
  <2>3. Meaning(Form(text)) = Meaning(text) /\ Meaning(Form(u)) = Meaning(u)
    BY <1>1, <2>1, <2>2, FormMeans
  <2>4. Form(text) = Form(u) => Meaning(text) = Meaning(u)
    BY <2>3, Zenon
  <2>5. Meaning(text) = Meaning(u) => Form(text) = Form(u)
    BY <1>1, <2>1, <2>2, OneForm
  <2> QED BY <2>1, <2>2, <2>4, <2>5
<1> QED BY <1>4, <1>5 DEF u

\* For any spellings of names, strings and numbers, whatever producers write and rewrite:
\* CanonicalizeJSON and canonicalizeJson refuse the same texts and write the others alike.
THEOREM CanonicalFormsAgree == CanonicalSpec => []CanonicalizersAgree
<1>1. CanonicalSpec => []IsText(text)
  <2>1. IsText(text) /\ [CanonicalNext]_text => IsText(text)'
    BY TextsStay
  <2> QED BY <2>1, TextsBegin, PTL DEF CanonicalSpec
<1> QED BY <1>1, TextsAgree, PTL

\* A canonical text is its own canonical form and means what its source meant, and two texts
\* that are accepted have one canonical form if and only if they mean the same.
THEOREM MeaningsHaveOneForm == CanonicalSpec => OneFormPerMeaning
<1>1. IsText(text) /\ [CanonicalNext]_text => IsText(text)'
  BY TextsStay
<1> QED BY <1>1, FormsAndMeanings, TextsBegin, PTL DEF CanonicalSpec, OneFormPerMeaning

\* A step of the boundary is a step of one of its parts, and the other parts stand still.
LEMMA PartsKeepTheirSpecs == TrustSpec => SignatureSpec /\ IdentitySpec /\ CanonicalSpec
<1> DEFINE all == <<signatureVars, identityVars, text>>
<1>1. TrustInit => SignatureInit /\ IdentityInit /\ CanonicalInit
  BY DEF TrustInit
<1>2. ASSUME [TrustNext]_all
      PROVE  [SignatureNext]_signatureVars /\ [IdentityNext]_identityVars /\ [CanonicalNext]_text
  BY <1>2, Zenon DEF TrustNext
<1>3. [TrustNext]_all => [SignatureNext]_signatureVars /\ [IdentityNext]_identityVars /\ [CanonicalNext]_text
  BY <1>2
<1> QED BY <1>1, <1>3, PTL DEF TrustSpec, SignatureSpec, IdentitySpec, CanonicalSpec

\* The Go and the TypeScript runtimes, written apart, decide alike about every detached
\* signature, every association of a catalog with its identity and every text.
THEOREM RuntimesAlwaysDecideAlike == TrustSpec => []RuntimesDecideAlike
<1>1. VerifiersAgree /\ RuntimesAgree /\ CanonicalizersAgree => RuntimesDecideAlike
  BY DEF RuntimesDecideAlike
<1> QED BY <1>1, PartsKeepTheirSpecs, VerifiersDecideAlike, RegistrarsAgree, CanonicalFormsAgree, PTL

-----------------------------------------------------------------------------

(***************************************************************************)
(* The stream of the generated Connect client, for any goroutines, calls   *)
(* and bodies. The invariant has a part for each direction. CallInv: where *)
(* a goroutine stands agrees with the call it makes, and each mutex, once  *)
(* and latch with its holder. RequestInv: the pipe holds whole envelopes   *)
(* of Sends that returned, in order, before its end. ResponseInv: what was *)
(* received is the front of the body, and a result is of the end reached.  *)
(* LogInv: the log of calls and returns tells nothing else.                *)
(***************************************************************************)

Labels == {"idle", "send_mu", "write", "close_mu", "receive_mu", "response", "result", "error_body",
           "refuse", "abort_mu", "envelope", "trailing", "end_close", "close_once", "close_body"}
\* Where a goroutine runs what responseOnce runs once, and where CloseResponse awaits it.
Awaiting == {"result", "error_body", "refuse", "abort_mu"}
LastCall(p) == call[p].made[Len(call[p].made)]

CallsTyped == call \in [Goroutines -> [made : Seq(Calls), at : Labels]]

\* Every label belongs to its call.
Belongs(at, last) ==
  /\ at \in {"send_mu", "write"} => last = "Send"
  /\ at = "close_mu" => last \in {"CloseRequest", "CloseResponse"}
  /\ at \in {"receive_mu", "envelope", "trailing", "end_close"} => last = "Receive"
  /\ at \in {"response"} \cup Awaiting => last \in {"Receive", "ResponseHeader", "CloseResponse"}
  /\ at \in {"close_once", "close_body"} => last = "CloseResponse"

Placed(p) == call[p].at # "idle" => call[p].made # <<>> /\ Belongs(call[p].at, LastCall(p))

Meant ==
  \/ ended
  \/ \E p \in Goroutines : \E k \in DOMAIN call[p].made :
       call[p].made[k] \in {"CloseRequest", "CloseResponse"}

RequestInv ==
  /\ begun \in Nat /\ accepted \in Nat
  /\ \A p \in Goroutines : call[p].at = "write" => sendMu = p
  /\ writer # "open" => requestClosed
  /\ requestClosed => \A p \in Goroutines : call[p].at # "write"
  /\ reader = "open" =>
       begun = accepted \/ (begun = accepted + 1 /\ \E p \in Goroutines : call[p].at = "write")
  /\ reader = "whole" => begun = accepted /\ requestClosed
  /\ writer = "closed" \/ reader = "whole" => Meant

ResponseInv ==
  /\ result \in {"pending", "error", "ok", "status", "badtype"}
  /\ responseOnce = "done" =>
       /\ result # "pending" /\ (result = "ok" => response = "open")
       /\ result \in {"status", "badtype"} => body.closed
  /\ \A p \in Goroutines :
       /\ call[p].at \in Awaiting => responseOnce = p
       /\ call[p].at \in {"error_body", "refuse"} => result \in {"status", "badtype"}
       /\ call[p].at = "abort_mu" =>
            result = "error" \/ (result \in {"status", "badtype"} /\ body.closed)
       /\ call[p].at = "close_body" => responseOnce = "done"
       /\ call[p].at # "idle" /\ LastCall(p) = "CloseResponse" =>
            /\ call[p].at \in {"close_mu", "response", "close_body"} \cup Awaiting => cancelled
            /\ call[p].at \in {"response", "close_body"} \cup Awaiting => requestClosed
  /\ NothingLeaks

\* The first k outcomes are the first k messages.
MessagesTo(k) == \A i \in 1..k : log[i] = "message" /\ body.units[i] = "message"

EndedAt(e, n) ==
  /\ body.done /\ body.sent = e
  /\ body.units[e] = (IF log[e] = "eof" THEN "end" ELSE log[e]) /\ body.units[e] \in Ending
  /\ MessagesTo(e - 1)
  /\ \A k \in (e + 1)..n : log[k] = "eof"

Clean == \A k \in 1..Len(log) : log[k] # "failed"

Receiving(p) ==
  \/ call[p].at \in {"envelope", "trailing", "end_close"}
  \/ call[p].at \in {"response"} \cup Awaiting /\ LastCall(p) = "Receive"

LogInv ==
  /\ log \in Seq({"message", "failed", "eof", "end_error"})
  /\ body \in [units : Bodies, sent : Nat, done : BOOLEAN, read : Nat, aligned : BOOLEAN,
               eof : BOOLEAN, closed : BOOLEAN]
  /\ body.read <= body.sent
  /\ \A p \in Goroutines :
       /\ Receiving(p) => receiveMu = p
       /\ Receiving(p) => (ended <=> call[p].at = "end_close")
       /\ Clean /\ call[p].at \in {"trailing", "end_close"} =>
            /\ MessagesTo(Len(log)) /\ body.read = Len(log) + 1
            /\ body.units[body.read] \in Ending /\ body.aligned
       /\ Clean /\ call[p].at = "end_close" => body.done /\ body.sent = body.read
  /\ Clean /\ ~ ended /\ (\A p \in Goroutines : call[p].at # "trailing") =>
       MessagesTo(Len(log)) /\ body.read = Len(log) /\ body.aligned
  /\ Clean /\ ended /\ (\A p \in Goroutines : call[p].at # "end_close") =>
       \E e \in 1..Len(log) : EndedAt(e, Len(log))
  /\ ReceivedAsSent

CallInv == CallsTyped /\ \A p \in Goroutines : Placed(p)

StreamInv == CallInv /\ RequestInv /\ ResponseInv /\ LogInv

-----------------------------------------------------------------------------
(* A goroutine goes from one label to another.                               *)

MovedTo(p, l) ==
  \A q \in Goroutines :
    /\ call'[q].at = (IF q = p THEN l ELSE call[q].at)
    /\ \A k \in DOMAIN call[q].made :
         k \in DOMAIN call'[q].made /\ call'[q].made[k] = call[q].made[k]
    /\ q # p => LastCall(q)' = LastCall(q)

LEMMA Going ==
  ASSUME CallInv, NEW p \in Goroutines, NEW l \in Labels, Goes(p, l), call[p].at # "idle",
         l = "idle" \/ Belongs(l, LastCall(p))
  PROVE  CallInv' /\ MovedTo(p, l) /\ LastCall(p)' = LastCall(p)
<1>1. call \in [Goroutines -> [made : Seq(Calls), at : Labels]]
  BY DEF CallInv, CallsTyped
<1>2. call' = [call EXCEPT ![p].at = l]
  BY DEF Goes
<1>3. CallsTyped'
  BY <1>1, <1>2 DEF CallsTyped
<1>4. \A q \in Goroutines :
        call'[q].at = (IF q = p THEN l ELSE call[q].at) /\ call'[q].made = call[q].made
  BY <1>1, <1>2
<1>5. \A q \in Goroutines : LastCall(q)' = LastCall(q)
  BY <1>4 DEF LastCall
<1>6. ASSUME NEW q \in Goroutines PROVE Placed(q)'
  BY <1>4, <1>5 DEF Placed, CallInv
<1> QED BY <1>3, <1>4, <1>5, <1>6 DEF CallInv, MovedTo

LEMMA RequestKept ==
  ASSUME RequestInv, NEW p \in Goroutines, NEW l, MovedTo(p, l), call[p].at # "write", l # "write",
         UNCHANGED <<sendMu, requestClosed, writer, reader, begun, accepted>>, ended => ended'
  PROVE  RequestInv'
<1>1. Meant => Meant'
  BY DEF Meant, MovedTo
<1>2. \A q \in Goroutines : call'[q].at = "write" <=> call[q].at = "write"
  BY DEF MovedTo
<1> QED BY <1>1, <1>2 DEF RequestInv

LEMMA WriterClosed ==
  ASSUME RequestInv, NEW p \in Goroutines, NEW l, MovedTo(p, l), call[p].at # "write", l # "write",
         NEW as \in {"closed", "aborted"}, CloseWriter(as), as = "closed" => Meant',
         UNCHANGED <<sendMu, reader, begun, accepted>>, ended => ended'
  PROVE  RequestInv' /\ requestClosed'
<1>1. Meant => Meant'
  BY DEF Meant, MovedTo
<1>2. \A q \in Goroutines : call'[q].at = "write" <=> call[q].at = "write"
  BY DEF MovedTo
<1>3. \A q \in Goroutines : call[q].at # "write"
  BY StreamAssumption DEF RequestInv, CloseWriter
<1> QED BY <1>1, <1>2, <1>3 DEF RequestInv, CloseWriter

LEMMA ResponseKept ==
  ASSUME ResponseInv, NEW p \in Goroutines, NEW l, MovedTo(p, l),
         UNCHANGED <<responseOnce, result, response, closeOnce>>,
         cancelled => cancelled', requestClosed => requestClosed', body.closed => body'.closed,
         l \notin {"close_body"} \cup Awaiting,
         LastCall(p)' = "CloseResponse" =>
           /\ l \in {"close_mu", "response"} => cancelled'
           /\ l = "response" => requestClosed'
  PROVE  ResponseInv'
<1>1. ASSUME NEW q \in Goroutines
      PROVE  /\ call'[q].at \in Awaiting => responseOnce' = q
             /\ call'[q].at \in {"error_body", "refuse"} => result' \in {"status", "badtype"}
             /\ call'[q].at = "abort_mu" =>
                  result' = "error" \/ (result' \in {"status", "badtype"} /\ body'.closed)
             /\ call'[q].at = "close_body" => responseOnce' = "done"
             /\ call'[q].at # "idle" /\ LastCall(q)' = "CloseResponse" =>
                  /\ call'[q].at \in {"close_mu", "response", "close_body"} \cup Awaiting => cancelled'
                  /\ call'[q].at \in {"response", "close_body"} \cup Awaiting => requestClosed'
  BY DEF ResponseInv, MovedTo, Awaiting
<1>2. NothingLeaks'
  BY DEF ResponseInv, NothingLeaks, Answered
<1> QED BY <1>1, <1>2 DEF ResponseInv

\* The outcomes of Receive, where neither they nor what was read changes.
LEMMA LogKept ==
  ASSUME LogInv, NEW p \in Goroutines, NEW l, MovedTo(p, l),
         UNCHANGED <<log, ended, receiveMu>>,
         body' \in [units : Bodies, sent : Nat, done : BOOLEAN, read : Nat, aligned : BOOLEAN,
                    eof : BOOLEAN, closed : BOOLEAN],
         body'.units = body.units, body'.sent = body.sent, body'.done = body.done,
         body'.read = body.read, body'.aligned = body.aligned,
         call[p].at \notin {"trailing", "end_close"}, l \notin {"trailing", "end_close"},
         Receiving(p)' => Receiving(p)
  PROVE  LogInv'
<1>1. \A q \in Goroutines : Receiving(q)' => Receiving(q)
  BY DEF Receiving, MovedTo
<1>2. \A q \in Goroutines : \A x \in {"trailing", "end_close"} : call'[q].at = x <=> call[q].at = x
  BY DEF MovedTo
<1>3. Clean' = Clean /\ ReceivedAsSent' = ReceivedAsSent
      /\ (\A k : MessagesTo(k)' = MessagesTo(k)) /\ (\A e, n : EndedAt(e, n)' = EndedAt(e, n))
  BY DEF Clean, ReceivedAsSent, MessagesTo, EndedAt
<1> QED BY <1>1, <1>2, <1>3 DEF LogInv

\* A step that leaves the response and what was received alone.
Elsewhere ==
  /\ UNCHANGED <<result, response, responseOnce, closeOnce, body, log, ended, receiveMu>>
  /\ cancelled => cancelled'
  /\ requestClosed => requestClosed'

LEMMA OthersKept ==
  ASSUME StreamInv, NEW p \in Goroutines, NEW l, MovedTo(p, l), Elsewhere,
         call[p].at \notin {"trailing", "end_close"},
         l \in {"idle", "send_mu", "write", "close_mu", "receive_mu", "response", "close_once"},
         l = "response" => LastCall(p)' # "Receive",
         LastCall(p)' = "CloseResponse" =>
           /\ l \in {"close_mu", "response"} => cancelled'
           /\ l = "response" => requestClosed'
  PROVE  ResponseInv' /\ LogInv'
<1>1. ResponseInv'
  BY ResponseKept DEF StreamInv, Elsewhere, Awaiting
<1>2. ~ Receiving(p)'
  BY DEF Receiving, MovedTo, Awaiting
<1>3. LogInv'
  BY <1>2, LogKept DEF StreamInv, Elsewhere, LogInv
<1> QED BY <1>1, <1>3

-----------------------------------------------------------------------------
(* The steps of the request.                                                 *)

LEMMA StartStep ==
  ASSUME StreamInv, NEW p \in Goroutines, NEW c \in Calls, Start(p, c)
  PROVE  StreamInv'
<1>1. call \in [Goroutines -> [made : Seq(Calls), at : Labels]]
  BY DEF StreamInv, CallInv, CallsTyped
<1>2. /\ call[p].at = "idle"
      /\ call' = [call EXCEPT ![p] = [made |-> Append(@.made, c), at |-> FirstStep(c)]]
  BY DEF Start, At
<1>3. call[p].made \in Seq(Calls)
  BY <1>1
<1> DEFINE made == Append(call[p].made, c)
           l == FirstStep(c)
<1>4. /\ made \in Seq(Calls) /\ made # <<>> /\ made[Len(made)] = c
      /\ \A k \in DOMAIN call[p].made : k \in DOMAIN made /\ made[k] = call[p].made[k]
  BY <1>3, AppendProperties, LenProperties
<1>5. /\ l \in Labels /\ Belongs(l, c)
      /\ l \in {"send_mu", "close_mu", "receive_mu", "response", "close_once"}
      /\ l = "response" => c = "ResponseHeader"
      /\ c = "CloseResponse" => l = "close_once"
  BY DEF FirstStep, Calls, Labels, Belongs, Awaiting
<1>6. call' = [call EXCEPT ![p] = [made |-> made, at |-> l]]
  BY <1>2
<1> HIDE DEF made, l
<1>7. /\ call'[p].at = l /\ call'[p].made = made
      /\ \A q \in Goroutines : q # p => call'[q] = call[q]
      /\ CallsTyped'
  BY <1>1, <1>4, <1>5, <1>6 DEF CallsTyped
<1>8. LastCall(p)' = c /\ \A q \in Goroutines : q # p => LastCall(q)' = LastCall(q)
  BY <1>4, <1>7 DEF LastCall
<1>9. CallInv'
  BY <1>4, <1>5, <1>7, <1>8 DEF StreamInv, CallInv, Placed
<1>10. MovedTo(p, l)
  BY <1>4, <1>7, <1>8 DEF MovedTo
<1>11. Elsewhere /\ UNCHANGED <<sendMu, requestClosed, writer, reader, begun, accepted>>
  BY DEF Start, Elsewhere, pipeVars
<1>12. RequestInv'
  BY <1>2, <1>5, <1>10, <1>11, RequestKept DEF StreamInv, Elsewhere
<1>13. ResponseInv' /\ LogInv'
  BY <1>2, <1>5, <1>8, <1>10, <1>11, OthersKept
<1> QED BY <1>9, <1>12, <1>13 DEF StreamInv

LEMMA BeginSendStep ==
  ASSUME StreamInv, NEW p \in Goroutines, BeginSend(p)
  PROVE  StreamInv'
<1>1. call[p].at = "send_mu" /\ sendMu = Nobody
  BY DEF BeginSend, At
<1>2. Elsewhere /\ UNCHANGED <<requestClosed, writer, reader, begun, accepted>>
  BY DEF BeginSend, Elsewhere, pipeVars
<1>3. CASE requestClosed \/ cancelled
  <2>1. Goes(p, "idle") /\ UNCHANGED sendMu
    BY <1>3 DEF BeginSend, Returns
  <2>2. CallInv' /\ MovedTo(p, "idle")
    BY <1>1, <2>1, Going DEF StreamInv, Labels
  <2>3. RequestInv'
    BY <1>1, <1>2, <2>1, <2>2, RequestKept DEF StreamInv, Elsewhere
  <2> QED BY <1>1, <1>2, <2>2, <2>3, OthersKept DEF StreamInv
<1>4. CASE ~ (requestClosed \/ cancelled)
  <2>1. Goes(p, "write") /\ sendMu' = p
    BY <1>4 DEF BeginSend
  <2>2. Belongs("write", LastCall(p))
    BY <1>1 DEF StreamInv, CallInv, Placed, Belongs, Awaiting
  <2>3. CallInv' /\ MovedTo(p, "write")
    BY <1>1, <2>1, <2>2, Going DEF StreamInv, Labels
  <2>4. \A q \in Goroutines : call[q].at # "write"
    BY <1>1, StreamAssumption DEF StreamInv, RequestInv
  <2>5. Meant => Meant'
    BY <1>2, <2>3 DEF Meant, MovedTo, Elsewhere
  <2>6. \A q \in Goroutines : call'[q].at = "write" <=> q = p
    BY <2>3, <2>4 DEF MovedTo
  <2>7. RequestInv'
    BY <1>2, <1>4, <2>1, <2>4, <2>5, <2>6 DEF StreamInv, RequestInv
  <2> QED BY <1>1, <1>2, <2>3, <2>7, OthersKept DEF StreamInv
<1> QED BY <1>3, <1>4

\* Whoever leaves the write leaves it to nobody.
LEMMA LeavingWrite ==
  ASSUME StreamInv, NEW p \in Goroutines, call[p].at = "write", MovedTo(p, "idle")
  PROVE  (\A q \in Goroutines : call'[q].at # "write") /\ ~ requestClosed /\ writer = "open"
<1>1. \A q \in Goroutines : call[q].at = "write" => q = p
  BY DEF StreamInv, RequestInv
<1> QED BY <1>1 DEF StreamInv, RequestInv, MovedTo

LEMMA WriteFailsStep ==
  ASSUME StreamInv, NEW p \in Goroutines, WriteFails(p)
  PROVE  StreamInv'
<1>1. call[p].at = "write" /\ (reader # "open" \/ writer # "open") /\ Goes(p, "idle")
  BY DEF WriteFails, At, Returns
<1>2. Elsewhere /\ UNCHANGED <<requestClosed, writer, reader, begun, accepted>>
  BY DEF WriteFails, Elsewhere, pipeVars
<1>3. CallInv' /\ MovedTo(p, "idle")
  BY <1>1, Going DEF StreamInv, Labels
<1>4. (\A q \in Goroutines : call'[q].at # "write") /\ ~ requestClosed /\ writer = "open"
  BY <1>1, <1>3, LeavingWrite
<1>5. Meant => Meant'
  BY <1>2, <1>3 DEF Meant, MovedTo, Elsewhere
<1>6. RequestInv'
  BY <1>1, <1>2, <1>4, <1>5 DEF StreamInv, RequestInv
<1> QED BY <1>1, <1>2, <1>3, <1>6, OthersKept DEF StreamInv

LEMMA TakeRestStep ==
  ASSUME StreamInv, NEW p \in Goroutines, TakeRest(p)
  PROVE  StreamInv'
<1>1. call[p].at = "write" /\ reader = "open" /\ begun = accepted + 1 /\ Goes(p, "idle")
  BY DEF TakeRest, At, Returns
<1>2. Elsewhere /\ UNCHANGED <<requestClosed, writer, reader, begun>> /\ accepted' = accepted + 1
  BY DEF TakeRest, Elsewhere
<1>3. CallInv' /\ MovedTo(p, "idle")
  BY <1>1, Going DEF StreamInv, Labels
<1>4. (\A q \in Goroutines : call'[q].at # "write") /\ ~ requestClosed /\ writer = "open"
  BY <1>1, <1>3, LeavingWrite
<1>5. RequestInv'
  BY <1>1, <1>2, <1>4 DEF StreamInv, RequestInv
<1> QED BY <1>1, <1>2, <1>3, <1>5, OthersKept DEF StreamInv

LEMMA CloseRequestStep ==
  ASSUME StreamInv, NEW p \in Goroutines, CloseRequest(p)
  PROVE  StreamInv'
<1> DEFINE l == IF LastCall(p) = "CloseResponse" THEN "response" ELSE "idle"
<1>1. call[p].at = "close_mu" /\ CloseWriter("closed") /\ Goes(p, l)
  BY DEF CloseRequest, At, Is, LastCall
<1>2. Elsewhere /\ UNCHANGED <<sendMu, reader, begun, accepted>>
  BY DEF CloseRequest, CloseWriter, Elsewhere
<1>3. call[p].made # <<>> /\ LastCall(p) \in {"CloseRequest", "CloseResponse"}
  BY <1>1 DEF StreamInv, CallInv, Placed, Belongs
<1>4. l = "idle" \/ Belongs(l, LastCall(p))
  BY DEF Belongs
<1>5. l \in {"idle", "response"} /\ l \in Labels /\ (l = "response" => LastCall(p) = "CloseResponse")
  BY DEF Labels
<1> HIDE DEF l
<1>6. CallInv' /\ MovedTo(p, l) /\ LastCall(p)' = LastCall(p)
  BY <1>1, <1>4, <1>5, Going DEF StreamInv
<1>7. Meant'
  <2>1. call[p].made \in Seq(Calls)
    BY DEF StreamInv, CallInv, CallsTyped
  <2>2. Len(call[p].made) \in DOMAIN call[p].made
    BY <1>3, <2>1, LenProperties, EmptySeq
  <2>3. PICK k \in DOMAIN call[p].made : call[p].made[k] \in {"CloseRequest", "CloseResponse"}
    BY <1>3, <2>2 DEF LastCall
  <2> QED BY <1>6, <2>3 DEF Meant, MovedTo
<1>8. RequestInv' /\ requestClosed'
  BY <1>1, <1>2, <1>5, <1>6, <1>7, WriterClosed DEF StreamInv, Elsewhere
<1>9. LastCall(p) = "CloseResponse" => cancelled'
  BY <1>1, <1>2 DEF StreamInv, ResponseInv, Elsewhere
<1> QED BY <1>1, <1>2, <1>5, <1>6, <1>8, <1>9, OthersKept DEF StreamInv

-----------------------------------------------------------------------------
(* The steps of awaitResponse.                                               *)

BodyType == [units : Bodies, sent : Nat, done : BOOLEAN, read : Nat, aligned : BOOLEAN,
             eof : BOOLEAN, closed : BOOLEAN]

\* One goroutine receives; when it returns, none does.
LEMMA NoneReceives ==
  ASSUME LogInv, NEW p \in Goroutines, Receiving(p), MovedTo(p, "idle")
  PROVE  \A q \in Goroutines :
           ~ Receiving(q)' /\ call'[q].at \notin {"envelope", "trailing", "end_close"}
<1>1. \A q \in Goroutines : Receiving(q) => q = p
  BY DEF LogInv
<1>2. \A q \in Goroutines : ~ Receiving(q)'
  BY <1>1 DEF Receiving, MovedTo, Awaiting
<1> QED BY <1>2 DEF Receiving

LEMMA Appended ==
  ASSUME NEW x \in {"message", "failed", "eof", "end_error"}, log' = Append(log, x),
         log \in Seq({"message", "failed", "eof", "end_error"})
  PROVE  /\ log' \in Seq({"message", "failed", "eof", "end_error"})
         /\ Len(log) \in Nat /\ Len(log') = Len(log) + 1
         /\ DOMAIN log = 1..Len(log) /\ DOMAIN log' = 1..(Len(log) + 1)
         /\ log'[Len(log) + 1] = x /\ \A k \in 1..Len(log) : log'[k] = log[k]
         /\ Clean' => Clean /\ x # "failed"
<1>1. /\ log' \in Seq({"message", "failed", "eof", "end_error"})
      /\ Len(log) \in Nat /\ Len(log') = Len(log) + 1
      /\ DOMAIN log = 1..Len(log) /\ DOMAIN log' = 1..(Len(log) + 1)
      /\ log'[Len(log) + 1] = x /\ \A k \in 1..Len(log) : log'[k] = log[k]
  BY AppendProperties, LenProperties
<1>2. Clean' => Clean /\ x # "failed"
  BY <1>1 DEF Clean
<1> QED BY <1>1, <1>2

\* What was returned before stays as it was sent.
LEMMA EarlierOutcomes ==
  ASSUME LogInv, NEW x \in {"message", "failed", "eof", "end_error"}, log' = Append(log, x),
         body'.units = body.units, body'.sent = body.sent, body'.done = body.done,
         Clean' => \/ Len(log') <= body'.sent /\ MessagesTo(Len(log))'
                   \/ (\E e \in 1..Len(log) : EndedAt(e, Len(log)))'
  PROVE  ReceivedAsSent'
<1>1. /\ Len(log) \in Nat /\ DOMAIN log = 1..Len(log) /\ DOMAIN log' = 1..(Len(log) + 1)
      /\ Len(log') = Len(log) + 1 /\ \A k \in 1..Len(log) : log'[k] = log[k]
  BY Appended DEF LogInv
<1> SUFFICES ASSUME NEW n \in DOMAIN log', \A k \in 1..n : log'[k] # "failed"
             PROVE  \/ n <= body'.sent /\ \A k \in 1..n : log'[k] = "message" /\ body'.units[k] = "message"
                    \/ \E e \in 1..n :
                         /\ body'.done /\ body'.sent = e
                         /\ body'.units[e] = (IF log'[e] = "eof" THEN "end" ELSE log'[e])
                         /\ body'.units[e] \in Ending
                         /\ \A k \in 1..(e - 1) : log'[k] = "message" /\ body'.units[k] = "message"
                         /\ \A k \in (e + 1)..n : log'[k] = "eof"
  BY DEF ReceivedAsSent
<1>2. CASE n = Len(log) + 1
  <2>1. Clean'
    BY <1>1, <1>2 DEF Clean
  <2> QED BY <1>2, <2>1 DEF MessagesTo, EndedAt
<1>3. CASE n \in 1..Len(log)
  <2>1. \A k \in 1..n : k \in 1..Len(log) /\ log'[k] = log[k]
    BY <1>1, <1>3
  <2>2. \/ n <= body.sent /\ \A k \in 1..n : log[k] = "message" /\ body.units[k] = "message"
        \/ \E e \in 1..n :
             /\ body.done /\ body.sent = e
             /\ body.units[e] = (IF log[e] = "eof" THEN "end" ELSE log[e])
             /\ body.units[e] \in Ending
             /\ \A k \in 1..(e - 1) : log[k] = "message" /\ body.units[k] = "message"
             /\ \A k \in (e + 1)..n : log[k] = "eof"
    BY <1>1, <1>3, <2>1 DEF LogInv, ReceivedAsSent
  <2>3. CASE n <= body.sent /\ \A k \in 1..n : log[k] = "message" /\ body.units[k] = "message"
    BY <2>1, <2>3
  <2>4. ASSUME NEW e \in 1..n, body.done, body.sent = e,
               body.units[e] = (IF log[e] = "eof" THEN "end" ELSE log[e]),
               body.units[e] \in Ending,
               \A k \in 1..(e - 1) : log[k] = "message" /\ body.units[k] = "message",
               \A k \in (e + 1)..n : log[k] = "eof"
        PROVE  \E f \in 1..n :
                 /\ body'.done /\ body'.sent = f
                 /\ body'.units[f] = (IF log'[f] = "eof" THEN "end" ELSE log'[f])
                 /\ body'.units[f] \in Ending
                 /\ \A k \in 1..(f - 1) : log'[k] = "message" /\ body'.units[k] = "message"
                 /\ \A k \in (f + 1)..n : log'[k] = "eof"
    <3>1. \A k \in 1..(e - 1) : k \in 1..n
      BY <1>1, <1>3
    <3>2. \A k \in (e + 1)..n : k \in 1..n
      BY <1>1, <1>3
    <3>3. log'[e] = log[e] /\ \A k \in (1..(e - 1)) \cup ((e + 1)..n) : log'[k] = log[k]
      BY <2>1, <3>1, <3>2
    <3> WITNESS e \in 1..n
    <3> QED BY <2>4, <3>3
  <2> QED BY <2>2, <2>3, <2>4
<1> QED BY <1>1, <1>2, <1>3

LEMMA ReceiveFails ==
  ASSUME LogInv, NEW p \in Goroutines, Receiving(p), call[p].at # "end_close", MovedTo(p, "idle"),
         receiveMu' = Nobody, log' = Append(log, "failed"), ended' = ended, body' \in BodyType,
         body'.units = body.units, body'.sent = body.sent, body'.done = body.done,
         body'.read <= body'.sent
  PROVE  LogInv'
<1>1. /\ log' \in Seq({"message", "failed", "eof", "end_error"}) /\ ~ Clean'
  BY Appended DEF LogInv
<1>2. ReceivedAsSent'
  BY <1>1, EarlierOutcomes
<1>3. \A q \in Goroutines :
           ~ Receiving(q)' /\ call'[q].at \notin {"envelope", "trailing", "end_close"}
  BY NoneReceives
<1> QED BY <1>1, <1>2, <1>3 DEF LogInv, BodyType

LEMMA AwaitStep ==
  ASSUME StreamInv, NEW p \in Goroutines, Await(p)
  PROVE  StreamInv'
<1>1. /\ call[p].at = "response" /\ responseOnce \in {Nobody, "done"}
      /\ UNCHANGED <<cancelled, sendMu, closeOnce, requestClosed, writer, reader, begun, accepted,
                     result, response, body, ended>>
  BY DEF Await, At, pipeVars
<1>2. LastCall(p) \in {"Receive", "ResponseHeader", "CloseResponse"}
  BY <1>1 DEF StreamInv, CallInv, Placed, Belongs
<1>3. ASSUME NEW l \in Labels, Goes(p, l), l = "idle" \/ Belongs(l, LastCall(p)), l # "write"
      PROVE  CallInv' /\ MovedTo(p, l) /\ LastCall(p)' = LastCall(p) /\ RequestInv'
  <2>1. CallInv' /\ MovedTo(p, l) /\ LastCall(p)' = LastCall(p)
    BY <1>1, <1>3, Going DEF StreamInv
  <2> QED BY <1>1, <1>3, <2>1, RequestKept DEF StreamInv
<1>4. CASE responseOnce = Nobody
  <2>1. responseOnce' = p /\ Goes(p, "result") /\ UNCHANGED <<receiveMu, log>>
    BY <1>4 DEF Await
  <2>2. CallInv' /\ MovedTo(p, "result") /\ LastCall(p)' = LastCall(p) /\ RequestInv'
    BY <1>2, <1>3, <2>1 DEF Labels, Belongs
  <2>3. ResponseInv'
    <3>1. \A q \in Goroutines : call[q].at \notin Awaiting /\ call[q].at # "close_body"
      BY <1>4, StreamAssumption DEF StreamInv, ResponseInv
    <3>2. \A q \in Goroutines : q # p => LastCall(q)' = LastCall(q)
      BY <2>2 DEF MovedTo
    <3>3. NothingLeaks'
      BY <1>1 DEF StreamInv, ResponseInv, NothingLeaks, Answered
    <3>4. responseOnce' # "done"
      BY <2>1, StreamAssumption
    <3> QED BY <1>1, <2>1, <2>2, <3>1, <3>2, <3>3, <3>4 DEF StreamInv, ResponseInv, MovedTo, Awaiting
  <2>4. LogInv'
    <3>1. Receiving(p)' => Receiving(p)
      BY <1>1, <2>2 DEF Receiving, MovedTo, Awaiting
    <3> QED BY <1>1, <2>1, <2>2, <3>1, LogKept DEF StreamInv, LogInv
  <2> QED BY <2>2, <2>3, <2>4 DEF StreamInv
<1>5. CASE responseOnce = "done"
  <2>1. responseOnce # Nobody /\ responseOnce' = responseOnce
    BY <1>5, StreamAssumption DEF Await
  <2>2. CASE LastCall(p) = "ResponseHeader"
    <3>1. Goes(p, "idle") /\ UNCHANGED <<receiveMu, log>>
      BY <2>1, <2>2 DEF Await, Is, LastCall, Returns
    <3>2. CallInv' /\ MovedTo(p, "idle") /\ LastCall(p)' = LastCall(p) /\ RequestInv'
      BY <1>3, <3>1 DEF Labels
    <3>3. Elsewhere
      BY <1>1, <2>1, <3>1 DEF Elsewhere
    <3> QED BY <1>1, <3>2, <3>3, OthersKept DEF StreamInv
  <2>3. CASE LastCall(p) = "CloseResponse"
    <3>1. Goes(p, "close_body") /\ UNCHANGED <<receiveMu, log>>
      BY <2>1, <2>3 DEF Await, Is, LastCall
    <3>2. CallInv' /\ MovedTo(p, "close_body") /\ LastCall(p)' = LastCall(p) /\ RequestInv'
      BY <1>3, <2>3, <3>1 DEF Labels, Belongs, Awaiting
    <3>3. ResponseInv'
      <4>1. cancelled /\ requestClosed
        BY <1>1, <2>3 DEF StreamInv, ResponseInv
      <4>2. \A q \in Goroutines : q # p => LastCall(q)' = LastCall(q)
        BY <3>2 DEF MovedTo
      <4>3. NothingLeaks'
        BY <1>1 DEF StreamInv, ResponseInv, NothingLeaks, Answered
      <4> QED BY <1>1, <1>5, <2>1, <3>2, <4>1, <4>2, <4>3 DEF StreamInv, ResponseInv, MovedTo, Awaiting
    <3>4. LogInv'
      <4>1. ~ Receiving(p)'
        BY <3>2 DEF Receiving, MovedTo, Awaiting
      <4> QED BY <1>1, <3>1, <3>2, <4>1, LogKept DEF StreamInv, LogInv
    <3> QED BY <3>2, <3>3, <3>4 DEF StreamInv
  <2>4. CASE LastCall(p) = "Receive" /\ response = "open"
    <3>1. Goes(p, "envelope") /\ UNCHANGED <<receiveMu, log>>
      BY <2>1, <2>4 DEF Await, Is, LastCall
    <3>2. CallInv' /\ MovedTo(p, "envelope") /\ LastCall(p)' = LastCall(p) /\ RequestInv'
      BY <1>3, <2>4, <3>1 DEF Labels, Belongs, Awaiting
    <3>3. ResponseInv'
      BY <1>1, <2>1, <3>2, ResponseKept DEF StreamInv, Awaiting
    <3>4. LogInv'
      <4>1. Receiving(p)
        BY <1>1, <2>4 DEF Receiving
      <4> QED BY <1>1, <3>1, <3>2, <4>1, LogKept DEF StreamInv, LogInv
    <3> QED BY <3>2, <3>3, <3>4 DEF StreamInv
  <2>5. CASE LastCall(p) = "Receive" /\ response # "open"
    <3>1. Goes(p, "idle") /\ receiveMu' = Nobody /\ log' = Append(log, "failed")
      BY <2>1, <2>5 DEF Await, Is, LastCall, Returns
    <3>2. CallInv' /\ MovedTo(p, "idle") /\ LastCall(p)' = LastCall(p) /\ RequestInv'
      BY <1>3, <3>1 DEF Labels
    <3>3. ResponseInv'
      BY <1>1, <2>1, <3>2, ResponseKept DEF StreamInv, Awaiting
    <3>4. LogInv'
      <4>1. Receiving(p)
        BY <1>1, <2>5 DEF Receiving
      <4> QED BY <1>1, <3>1, <3>2, <4>1, ReceiveFails DEF StreamInv, LogInv, BodyType
    <3> QED BY <3>2, <3>3, <3>4 DEF StreamInv
  <2> QED BY <1>2, <2>2, <2>3, <2>4, <2>5
<1> QED BY <1>1, <1>4, <1>5

\* A step of what runs once, to the next one or to its end.
LEMMA OnceStep ==
  ASSUME StreamInv, NEW p \in Goroutines, call[p].at \in Awaiting,
         NEW l \in {"response"} \cup Awaiting, Goes(p, l),
         UNCHANGED <<cancelled, result, closeOnce, log, ended, receiveMu>>, body' \in BodyType,
         body'.units = body.units, body'.sent = body.sent, body'.done = body.done,
         body'.read = body.read, body'.aligned = body.aligned,
         body.closed => body'.closed, requestClosed => requestClosed',
         l \in {"error_body", "refuse"} => result \in {"status", "badtype"},
         l = "abort_mu" => result = "error" \/ (result \in {"status", "badtype"} /\ body'.closed),
         l # "response" => responseOnce' = p,
         l = "response" =>
           /\ responseOnce' = "done" /\ result # "pending" /\ (result = "ok" => response' = "open")
           /\ result \in {"status", "badtype"} => body'.closed
  PROVE  CallInv' /\ MovedTo(p, l) /\ ResponseInv' /\ LogInv'
<1>1. LastCall(p) \in {"Receive", "ResponseHeader", "CloseResponse"}
  BY DEF StreamInv, CallInv, Placed, Belongs, Awaiting
<1>2. Belongs(l, LastCall(p)) /\ l \in Labels
  BY <1>1 DEF Belongs, Labels, Awaiting
<1>3. CallInv' /\ MovedTo(p, l) /\ LastCall(p)' = LastCall(p)
  BY <1>2, Going DEF StreamInv, Awaiting
<1>4. responseOnce = p
  BY DEF StreamInv, ResponseInv
<1>5. \A q \in Goroutines : call[q].at # "close_body" /\ (call[q].at \in Awaiting => q = p)
  BY <1>4, StreamAssumption DEF StreamInv, ResponseInv
<1>6. ASSUME NEW q \in Goroutines
      PROVE  /\ call'[q].at \in Awaiting => responseOnce' = q
             /\ call'[q].at \in {"error_body", "refuse"} => result' \in {"status", "badtype"}
             /\ call'[q].at = "abort_mu" =>
                  result' = "error" \/ (result' \in {"status", "badtype"} /\ body'.closed)
             /\ call'[q].at = "close_body" => responseOnce' = "done"
             /\ call'[q].at # "idle" /\ LastCall(q)' = "CloseResponse" =>
                  /\ call'[q].at \in {"close_mu", "response", "close_body"} \cup Awaiting => cancelled'
                  /\ call'[q].at \in {"response", "close_body"} \cup Awaiting => requestClosed'
  <2>1. CASE q = p
    <3>1. call'[p].at = l
      BY <1>3 DEF MovedTo
    <3>2. LastCall(p) = "CloseResponse" => cancelled /\ requestClosed
      BY DEF StreamInv, ResponseInv, Awaiting
    <3> QED BY <1>3, <2>1, <3>1, <3>2 DEF Awaiting
  <2>2. CASE q # p
    <3>1. call'[q].at = call[q].at /\ LastCall(q)' = LastCall(q)
      BY <1>3, <2>2 DEF MovedTo
    <3> QED BY <1>5, <2>2, <3>1 DEF StreamInv, ResponseInv, Awaiting
  <2> QED BY <2>1, <2>2
<1>7. NothingLeaks'
  BY DEF StreamInv, ResponseInv, NothingLeaks, Answered
<1>8. responseOnce' = "done" => l = "response"
  BY StreamAssumption
<1>9. ResponseInv'
  BY <1>6, <1>7, <1>8 DEF StreamInv, ResponseInv
<1>10. Receiving(p)' => Receiving(p)
  BY <1>3 DEF Receiving, MovedTo, Awaiting
<1>11. LogInv'
  BY <1>3, <1>10, LogKept DEF StreamInv, BodyType, Awaiting
<1> QED BY <1>3, <1>9, <1>11

LEMMA TakeResultStep ==
  ASSUME StreamInv, NEW p \in Goroutines, TakeResult(p)
  PROVE  StreamInv'
<1>1. /\ call[p].at = "result" /\ call[p].at \in Awaiting /\ result # "pending"
      /\ response' = (IF result = "ok" THEN "open" ELSE "refused")
      /\ UNCHANGED <<cancelled, sendMu, receiveMu, closeOnce, requestClosed, writer, reader, begun,
                     accepted, result, body, log, ended>>
  BY DEF TakeResult, At, pipeVars, Awaiting
<1>2. result \in {"error", "ok", "status", "badtype"} /\ body' \in BodyType /\ responseOnce = p
  BY <1>1 DEF StreamInv, ResponseInv, LogInv, BodyType
<1>3. ASSUME NEW l \in {"response"} \cup Awaiting, CallInv', MovedTo(p, l), ResponseInv', LogInv'
      PROVE  StreamInv'
  BY <1>1, <1>3, RequestKept DEF StreamInv, Awaiting
<1>4. CASE result = "ok"
  <2>1. responseOnce' = "done" /\ Goes(p, "response")
    BY <1>4 DEF TakeResult
  <2> QED BY <1>1, <1>2, <1>3, <1>4, <2>1, OnceStep
<1>5. CASE result = "error"
  <2>1. responseOnce' = p /\ Goes(p, "abort_mu") /\ "abort_mu" \in {"response"} \cup Awaiting
    BY <1>2, <1>5 DEF TakeResult, Awaiting
  <2> QED BY <1>1, <1>2, <1>3, <1>5, <2>1, OnceStep
<1>6. CASE result = "status"
  <2>1. responseOnce' = p /\ Goes(p, "error_body") /\ "error_body" \in {"response"} \cup Awaiting
    BY <1>2, <1>6 DEF TakeResult, Awaiting
  <2> QED BY <1>1, <1>2, <1>3, <1>6, <2>1, OnceStep
<1>7. CASE result = "badtype"
  <2>1. responseOnce' = p /\ Goes(p, "refuse") /\ "refuse" \in {"response"} \cup Awaiting
    BY <1>2, <1>7 DEF TakeResult, Awaiting
  <2> QED BY <1>1, <1>2, <1>3, <1>7, <2>1, OnceStep
<1> QED BY <1>2, <1>4, <1>5, <1>6, <1>7

LEMMA ReadErrorBodyStep ==
  ASSUME StreamInv, NEW p \in Goroutines, ReadErrorBody(p)
  PROVE  StreamInv'
<1>1. /\ call[p].at = "error_body" /\ call[p].at \in Awaiting /\ Goes(p, "refuse")
      /\ "refuse" \in {"response"} \cup Awaiting
      /\ UNCHANGED <<cancelled, sendMu, receiveMu, closeOnce, requestClosed, writer, reader, begun,
                     accepted, result, responseOnce, log, ended>>
      /\ body' = [body EXCEPT !.eof = (body.done /\ body.sent <= ErrorUnits)]
  BY DEF ReadErrorBody, At, pipeVars, Awaiting
<1>2. body \in BodyType /\ responseOnce = p /\ result \in {"status", "badtype"}
  BY <1>1 DEF StreamInv, ResponseInv, LogInv, BodyType
<1>3. /\ body' \in BodyType
      /\ body'.units = body.units /\ body'.sent = body.sent /\ body'.done = body.done
      /\ body'.read = body.read /\ body'.aligned = body.aligned /\ body'.closed = body.closed
  BY <1>1, <1>2 DEF BodyType
<1>4. CallInv' /\ MovedTo(p, "refuse") /\ ResponseInv' /\ LogInv'
  BY <1>1, <1>2, <1>3, OnceStep
<1> QED BY <1>1, <1>4, RequestKept DEF StreamInv

LEMMA RefuseStep ==
  ASSUME StreamInv, NEW p \in Goroutines, Refuse(p)
  PROVE  StreamInv'
<1>1. /\ call[p].at = "refuse" /\ call[p].at \in Awaiting /\ Goes(p, "abort_mu")
      /\ "abort_mu" \in {"response"} \cup Awaiting
      /\ UNCHANGED <<cancelled, sendMu, receiveMu, closeOnce, requestClosed, writer, reader, begun,
                     accepted, result, responseOnce, log, ended>>
      /\ body' = [body EXCEPT !.closed = TRUE]
  BY DEF Refuse, At, pipeVars, Awaiting
<1>2. body \in BodyType /\ responseOnce = p /\ result \in {"status", "badtype"}
  BY <1>1 DEF StreamInv, ResponseInv, LogInv, BodyType
<1>3. /\ body' \in BodyType /\ body'.closed
      /\ body'.units = body.units /\ body'.sent = body.sent /\ body'.done = body.done
      /\ body'.read = body.read /\ body'.aligned = body.aligned
  BY <1>1, <1>2 DEF BodyType
<1>4. CallInv' /\ MovedTo(p, "abort_mu") /\ ResponseInv' /\ LogInv'
  BY <1>1, <1>2, <1>3, OnceStep
<1> QED BY <1>1, <1>4, RequestKept DEF StreamInv

LEMMA AbortRequestStep ==
  ASSUME StreamInv, NEW p \in Goroutines, AbortRequest(p)
  PROVE  StreamInv'
<1>1. /\ call[p].at = "abort_mu" /\ call[p].at \in Awaiting /\ Goes(p, "response")
      /\ CloseWriter("aborted") /\ responseOnce' = "done"
      /\ UNCHANGED <<cancelled, sendMu, receiveMu, closeOnce, reader, begun, accepted, result,
                     response, body, log, ended>>
  BY DEF AbortRequest, At, Awaiting
<1>2. /\ body' \in BodyType /\ requestClosed'
      /\ result = "error" \/ (result \in {"status", "badtype"} /\ body.closed)
  BY <1>1 DEF StreamInv, ResponseInv, LogInv, BodyType, CloseWriter
<1>3. CallInv' /\ MovedTo(p, "response") /\ ResponseInv' /\ LogInv'
  BY <1>1, <1>2, OnceStep
<1> QED BY <1>1, <1>3, WriterClosed DEF StreamInv

-----------------------------------------------------------------------------
(* The steps of Receive.                                                     *)

\* A Receive that goes on or returns leaves the request and the response alone.
LEMMA ReceiveKept ==
  ASSUME StreamInv, NEW p \in Goroutines,
         call[p].at \in {"receive_mu", "envelope", "trailing", "end_close"},
         NEW l \in {"idle", "response", "envelope", "trailing", "end_close"}, Goes(p, l),
         UNCHANGED <<cancelled, responseOnce, closeOnce, result, response>>,
         requestClosed => requestClosed', body.closed => body'.closed
  PROVE  /\ CallInv' /\ MovedTo(p, l) /\ ResponseInv' /\ LastCall(p)' = "Receive"
         /\ UNCHANGED <<sendMu, requestClosed, writer, reader, begun, accepted>>
              /\ (ended => ended') => RequestInv'
<1>1. LastCall(p) = "Receive"
  BY DEF StreamInv, CallInv, Placed, Belongs
<1>2. Belongs(l, LastCall(p)) \/ l = "idle"
  BY <1>1 DEF Belongs, Awaiting
<1>3. CallInv' /\ MovedTo(p, l) /\ LastCall(p)' = LastCall(p)
  BY <1>2, Going DEF StreamInv, Labels
<1>4. ResponseInv'
  BY <1>1, <1>3, ResponseKept DEF StreamInv, Awaiting
<1> QED BY <1>1, <1>3, <1>4, RequestKept DEF StreamInv

LEMMA BeginReceiveStep ==
  ASSUME StreamInv, NEW p \in Goroutines, BeginReceive(p)
  PROVE  StreamInv'
<1>1. /\ call[p].at = "receive_mu" /\ receiveMu = Nobody
      /\ UNCHANGED <<cancelled, sendMu, responseOnce, closeOnce, requestClosed, writer, reader, begun,
                     accepted, result, response, body, ended>>
  BY DEF BeginReceive, At, pipeVars
<1>2. \A q \in Goroutines : ~ Receiving(q) /\ call[q].at \notin {"envelope", "trailing", "end_close"}
  BY <1>1, StreamAssumption DEF StreamInv, LogInv, Receiving
<1>3. CASE ended
  <2>1. Goes(p, "idle") /\ receiveMu' = Nobody /\ log' = Append(log, "eof")
    BY <1>3 DEF BeginReceive, ReceiveReturns, Returns
  <2>2. CallInv' /\ MovedTo(p, "idle") /\ ResponseInv' /\ RequestInv' /\ LastCall(p)' = "Receive"
    BY <1>1, <2>1, ReceiveKept
  <2>3. \A q \in Goroutines :
          ~ Receiving(q)' /\ call'[q].at \notin {"envelope", "trailing", "end_close"}
    BY <1>2, <2>2 DEF Receiving, MovedTo, Awaiting
  <2>4. /\ log' \in Seq({"message", "failed", "eof", "end_error"})
        /\ Len(log) \in Nat /\ Len(log') = Len(log) + 1
        /\ log'[Len(log) + 1] = "eof" /\ \A k \in 1..Len(log) : log'[k] = log[k]
        /\ Clean' => Clean
    BY <2>1, Appended DEF StreamInv, LogInv
  <2>5. Clean' => (\E e \in 1..Len(log) : EndedAt(e, Len(log)))'
    <3> HAVE Clean'
    <3>1. PICK e \in 1..Len(log) : EndedAt(e, Len(log))
      BY <1>2, <1>3, <2>4 DEF StreamInv, LogInv
    <3>2. \A k \in (1..(e - 1)) \cup {e} : k \in 1..Len(log)
      BY <2>4
    <3>3. /\ body.done /\ body.sent = e
          /\ body.units[e] = (IF log[e] = "eof" THEN "end" ELSE log[e]) /\ body.units[e] \in Ending
          /\ \A k \in 1..(e - 1) : log[k] = "message" /\ body.units[k] = "message"
          /\ \A k \in (e + 1)..Len(log) : log[k] = "eof"
      BY <3>1 DEF EndedAt, MessagesTo
    <3>4. log'[e] = log[e] /\ \A k \in 1..(e - 1) : log'[k] = log[k]
      BY <2>4, <3>2
    <3>5. \A k \in (e + 1)..(Len(log) + 1) : log'[k] = "eof"
      <4> TAKE k \in (e + 1)..(Len(log) + 1)
      <4>1. k = Len(log) + 1 \/ (k \in (e + 1)..Len(log) /\ k \in 1..Len(log))
        BY <2>4
      <4> QED BY <2>4, <3>3, <4>1
    <3>6. EndedAt(e, Len(log))'
      BY <1>1, <2>4, <3>3, <3>4, <3>5 DEF EndedAt, MessagesTo
    <3>7. e \in 1..Len(log')
      BY <2>4
    <3> QED BY <3>6, <3>7
  <2>6. ReceivedAsSent'
    BY <1>1, <2>1, <2>4, <2>5, EarlierOutcomes DEF StreamInv
  <2>7. LogInv'
    BY <1>1, <1>3, <2>3, <2>4, <2>5, <2>6 DEF StreamInv, LogInv
  <2> QED BY <2>2, <2>7 DEF StreamInv
<1>4. CASE ~ ended
  <2>1. Goes(p, "response") /\ receiveMu' = p /\ UNCHANGED log
    BY <1>4 DEF BeginReceive
  <2>2. CallInv' /\ MovedTo(p, "response") /\ ResponseInv' /\ RequestInv' /\ LastCall(p)' = "Receive"
    BY <1>1, <2>1, ReceiveKept
  <2>3. \A q \in Goroutines :
          (Receiving(q)' => q = p) /\ call'[q].at \notin {"envelope", "trailing", "end_close"}
    BY <1>2, <2>2 DEF Receiving, MovedTo, Awaiting
  <2>4. Clean' = Clean /\ ReceivedAsSent' = ReceivedAsSent /\ MessagesTo(Len(log))' = MessagesTo(Len(log))
    BY <1>1, <2>1 DEF Clean, ReceivedAsSent, MessagesTo
  <2>5. LogInv'
    BY <1>1, <1>2, <1>4, <2>1, <2>3, <2>4 DEF StreamInv, LogInv
  <2> QED BY <2>2, <2>5 DEF StreamInv
<1> QED BY <1>3, <1>4

\* One goroutine alone reads the body.
LEMMA ReadsAlone ==
  ASSUME StreamInv, NEW p \in Goroutines, call[p].at \in {"envelope", "trailing", "end_close"}
  PROVE  /\ body \in BodyType /\ body.read <= body.sent /\ Receiving(p)
         /\ \A q \in Goroutines : Receiving(q) => q = p
         /\ \A q \in Goroutines : call[q].at \in {"envelope", "trailing", "end_close"} => q = p
         /\ ended <=> call[p].at = "end_close"
BY DEF StreamInv, LogInv, BodyType, Receiving

\* A Receive that does not end the stream returns, with a message or without.
LEMMA EnvelopeReturned ==
  ASSUME StreamInv, NEW p \in Goroutines, call[p].at \in {"envelope", "trailing"},
         NEW outcome \in {"message", "failed"}, ReceiveReturns(p, outcome),
         UNCHANGED <<cancelled, sendMu, responseOnce, closeOnce, requestClosed, writer, reader,
                     begun, accepted, result, response, ended>>,
         body' \in BodyType, body'.units = body.units, body'.sent = body.sent,
         body'.done = body.done, body'.closed = body.closed, body'.read <= body'.sent,
         outcome = "message" =>
           /\ call[p].at = "envelope" /\ body'.read = body.read + 1
           /\ body.aligned => body.units[body.read + 1] = "message" /\ body'.aligned
  PROVE  StreamInv'
<1>1. Goes(p, "idle") /\ receiveMu' = Nobody /\ log' = Append(log, outcome)
  BY DEF ReceiveReturns, Returns
<1>2. CallInv' /\ MovedTo(p, "idle") /\ ResponseInv' /\ RequestInv'
  BY <1>1, ReceiveKept
<1>3. /\ body \in BodyType /\ body.read <= body.sent /\ Receiving(p) /\ ~ ended
      /\ \A q \in Goroutines : call[q].at \in {"envelope", "trailing", "end_close"} => q = p
  BY ReadsAlone
<1>4. CASE outcome = "failed"
  BY <1>1, <1>2, <1>3, <1>4, ReceiveFails DEF StreamInv
<1>5. CASE outcome = "message"
  <2>1. /\ log' \in Seq({"message", "failed", "eof", "end_error"})
        /\ Len(log) \in Nat /\ Len(log') = Len(log) + 1
        /\ log'[Len(log) + 1] = "message" /\ \A k \in 1..Len(log) : log'[k] = log[k]
        /\ Clean' => Clean
    BY <1>1, <1>5, Appended DEF StreamInv, LogInv
  <2>2. \A q \in Goroutines :
          ~ Receiving(q)' /\ call'[q].at \notin {"envelope", "trailing", "end_close"}
    BY <1>2, <1>3, NoneReceives DEF StreamInv
  <2>3. Clean' => MessagesTo(Len(log))' /\ body'.read = Len(log') /\ body'.aligned
    <3> HAVE Clean'
    <3>1. MessagesTo(Len(log)) /\ body.read = Len(log) /\ body.aligned
      BY <1>3, <1>5, <2>1 DEF StreamInv, LogInv
    <3>2. \A k \in 1..(Len(log) + 1) : log'[k] = "message" /\ body'.units[k] = "message"
      <4> TAKE k \in 1..(Len(log) + 1)
      <4>1. k = Len(log) + 1 \/ k \in 1..Len(log)
        BY <2>1
      <4> QED BY <1>5, <2>1, <3>1, <4>1 DEF MessagesTo
    <3> QED BY <1>5, <2>1, <3>1, <3>2 DEF MessagesTo
  <2>4. ReceivedAsSent'
    BY <1>1, <1>5, <2>1, <2>3, EarlierOutcomes DEF StreamInv
  <2>5. LogInv'
    BY <1>3, <2>1, <2>2, <2>3, <2>4 DEF LogInv, BodyType
  <2> QED BY <1>2, <2>5 DEF StreamInv
<1> QED BY <1>4, <1>5

LEMMA ReadEnvelopeStep ==
  ASSUME StreamInv, NEW p \in Goroutines, ReadEnvelope(p)
  PROVE  StreamInv'
<1> DEFINE unit == body.units[body.read + 1]
           aligned == body.aligned /\ unit # "oversize"
<1>1. /\ call[p].at = "envelope" /\ body.read < body.sent
      /\ body' = [body EXCEPT !.read = body.read + 1, !.aligned = aligned]
      /\ UNCHANGED <<cancelled, sendMu, responseOnce, closeOnce, requestClosed, writer, reader,
                     begun, accepted, result, response, ended>>
  BY DEF ReadEnvelope, At, Readable, pipeVars
<1>2. IF body.aligned /\ unit \in Ending
        THEN Goes(p, "trailing") /\ UNCHANGED <<receiveMu, log>>
        ELSE \E outcome \in Outcomes(unit) : ReceiveReturns(p, outcome)
  BY DEF ReadEnvelope
<1> HIDE DEF unit
<1>3. /\ body \in BodyType /\ body.read <= body.sent /\ Receiving(p) /\ ~ ended
      /\ \A q \in Goroutines : Receiving(q) => q = p
      /\ \A q \in Goroutines : call[q].at \in {"envelope", "trailing", "end_close"} => q = p
  BY <1>1, ReadsAlone
<1>4. aligned \in BOOLEAN
  OBVIOUS
<1> HIDE DEF aligned
<1>5. /\ body' \in BodyType /\ body'.units = body.units /\ body'.sent = body.sent
      /\ body'.done = body.done /\ body'.closed = body.closed /\ body'.read = body.read + 1
      /\ body'.read <= body'.sent /\ body'.aligned = aligned
  <2>1. body.read \in Nat /\ body.sent \in Nat
    BY <1>3 DEF BodyType
  <2>2. body.read + 1 \in Nat /\ body.read + 1 <= body.sent
    BY <1>1, <2>1
  <2>3. /\ body' = [body EXCEPT !.read = body.read + 1, !.aligned = aligned]
        /\ body \in BodyType
    BY <1>1, <1>3
  <2>4. PICK b \in BodyType, n \in Nat, a \in BOOLEAN :
          b = body /\ n = body.read + 1 /\ a = aligned
    BY <1>4, <2>2, <2>3
  <2> DEFINE c == body'
  <2>5. c = [b EXCEPT !.read = n, !.aligned = a]
    BY <2>3, <2>4
  <2>6. /\ c \in BodyType /\ c.units = b.units /\ c.sent = b.sent
        /\ c.done = b.done /\ c.closed = b.closed /\ c.read = n /\ c.aligned = a
    BY <2>5 DEF BodyType
  <2> QED BY <2>2, <2>4, <2>6
<1>6. CASE body.aligned /\ unit \in Ending
  <2>1. Goes(p, "trailing") /\ UNCHANGED <<receiveMu, log>>
    BY <1>2, <1>6
  <2>2. CallInv' /\ MovedTo(p, "trailing") /\ ResponseInv' /\ RequestInv'
    BY <1>1, <1>5, <2>1, ReceiveKept
  <2>3. \A q \in Goroutines :
          /\ (Receiving(q)' => q = p)
          /\ (call'[q].at \in {"envelope", "trailing", "end_close"} => q = p)
          /\ call'[p].at = "trailing"
    BY <1>3, <2>2 DEF Receiving, MovedTo, Awaiting
  <2>4. Clean' = Clean /\ ReceivedAsSent' = ReceivedAsSent
        /\ MessagesTo(Len(log))' = MessagesTo(Len(log))
    BY <1>5, <2>1 DEF Clean, ReceivedAsSent, MessagesTo
  <2>5. body'.aligned /\ body'.units[body'.read] \in Ending
    BY <1>5, <1>6 DEF aligned, unit, Ending
  <2>6. receiveMu' = p
    BY <1>3, <2>1 DEF StreamInv, LogInv
  <2>7. Clean => MessagesTo(Len(log)) /\ body.read = Len(log)
    BY <1>1, <1>3 DEF StreamInv, LogInv
  <2>8. LogInv'
    BY <1>1, <1>3, <1>5, <2>1, <2>3, <2>4, <2>5, <2>6, <2>7 DEF StreamInv, LogInv, BodyType
  <2> QED BY <2>2, <2>8 DEF StreamInv
<1>7. CASE ~ (body.aligned /\ unit \in Ending)
  <2>1. PICK outcome \in Outcomes(unit) : ReceiveReturns(p, outcome)
    BY <1>2, <1>7
  <2>2. outcome \in {"message", "failed"} /\ (outcome = "message" /\ body.aligned => unit = "message")
    BY <2>1 DEF Outcomes
  <2>3. outcome = "message" =>
          /\ body'.read = body.read + 1
          /\ body.aligned => body.units[body.read + 1] = "message" /\ body'.aligned
    BY <1>5, <2>2 DEF aligned, unit
  <2> QED BY <1>1, <1>5, <2>1, <2>2, <2>3, EnvelopeReturned
<1> QED BY <1>6, <1>7

LEMMA EnvelopeCutStep ==
  ASSUME StreamInv, NEW p \in Goroutines, EnvelopeCut(p)
  PROVE  StreamInv'
<1>1. /\ call[p].at = "envelope" /\ ReceiveReturns(p, "failed")
      /\ body' = [body EXCEPT !.eof = TRUE]
      /\ UNCHANGED <<cancelled, sendMu, responseOnce, closeOnce, requestClosed, writer, reader,
                     begun, accepted, result, response, ended>>
  BY DEF EnvelopeCut, At, pipeVars
<1>2. body \in BodyType /\ body.read <= body.sent
  BY <1>1, ReadsAlone
<1>3. /\ body' \in BodyType /\ body'.units = body.units /\ body'.sent = body.sent
      /\ body'.done = body.done /\ body'.closed = body.closed /\ body'.read <= body'.sent
  BY <1>1, <1>2 DEF BodyType
<1> QED BY <1>1, <1>3, EnvelopeReturned

LEMMA ReadFailsStep ==
  ASSUME StreamInv, NEW p \in Goroutines, ReadFails(p)
  PROVE  StreamInv'
<1>1. /\ call[p].at \in {"envelope", "trailing"} /\ ReceiveReturns(p, "failed") /\ body' = body
      /\ UNCHANGED <<cancelled, sendMu, responseOnce, closeOnce, requestClosed, writer, reader,
                     begun, accepted, result, response, ended>>
  BY DEF ReadFails, pipeVars
<1>2. body \in BodyType /\ body.read <= body.sent
  BY <1>1, ReadsAlone
<1> QED BY <1>1, <1>2, EnvelopeReturned

LEMMA TrailingBytesStep ==
  ASSUME StreamInv, NEW p \in Goroutines, TrailingBytes(p)
  PROVE  StreamInv'
<1>1. /\ call[p].at = "trailing" /\ ReceiveReturns(p, "failed")
      /\ body' = [body EXCEPT !.aligned = FALSE]
      /\ UNCHANGED <<cancelled, sendMu, responseOnce, closeOnce, requestClosed, writer, reader,
                     begun, accepted, result, response, ended>>
  BY DEF TrailingBytes, At, pipeVars
<1>2. body \in BodyType /\ body.read <= body.sent
  BY <1>1, ReadsAlone
<1>3. /\ body' \in BodyType /\ body'.units = body.units /\ body'.sent = body.sent
      /\ body'.done = body.done /\ body'.closed = body.closed /\ body'.read <= body'.sent
  BY <1>1, <1>2 DEF BodyType
<1> QED BY <1>1, <1>3, EnvelopeReturned

LEMMA EndStreamStep ==
  ASSUME StreamInv, NEW p \in Goroutines, EndStream(p)
  PROVE  StreamInv'
<1>1. /\ call[p].at = "trailing" /\ body.done /\ body.read = body.sent /\ ended'
      /\ Goes(p, "end_close") /\ body' = [body EXCEPT !.eof = TRUE]
      /\ UNCHANGED <<cancelled, sendMu, receiveMu, responseOnce, closeOnce, requestClosed, writer,
                     reader, begun, accepted, result, response, log>>
  BY DEF EndStream, At, pipeVars
<1>2. /\ body \in BodyType /\ body.read <= body.sent /\ Receiving(p) /\ ~ ended
      /\ \A q \in Goroutines : Receiving(q) => q = p
  BY <1>1, ReadsAlone
<1>3. /\ body' \in BodyType /\ body'.units = body.units /\ body'.sent = body.sent
      /\ body'.done = body.done /\ body'.closed = body.closed /\ body'.read = body.read
      /\ body'.aligned = body.aligned
  BY <1>1, <1>2 DEF BodyType
<1>4. CallInv' /\ MovedTo(p, "end_close") /\ ResponseInv' /\ RequestInv'
  BY <1>1, <1>3, ReceiveKept
<1>5. \A q \in Goroutines :
        /\ (Receiving(q)' => q = p)
        /\ (call'[q].at \in {"envelope", "trailing", "end_close"} => q = p)
        /\ call'[p].at = "end_close"
  BY <1>2, <1>4 DEF Receiving, MovedTo, Awaiting
<1>6. Clean' = Clean /\ ReceivedAsSent' = ReceivedAsSent
      /\ MessagesTo(Len(log))' = MessagesTo(Len(log))
  BY <1>1, <1>3 DEF Clean, ReceivedAsSent, MessagesTo
<1>7. receiveMu' = p
  BY <1>1, <1>2 DEF StreamInv, LogInv
<1>8. Clean => /\ MessagesTo(Len(log)) /\ body.read = Len(log) + 1
               /\ body.units[body.read] \in Ending /\ body.aligned
  BY <1>1 DEF StreamInv, LogInv
<1>9. LogInv'
  BY <1>1, <1>2, <1>3, <1>5, <1>6, <1>7, <1>8 DEF StreamInv, LogInv, BodyType
<1> QED BY <1>4, <1>9 DEF StreamInv

LEMMA CloseAtEndStep ==
  ASSUME StreamInv, NEW p \in Goroutines, CloseAtEnd(p)
  PROVE  StreamInv'
<1> DEFINE outcome == IF body.units[body.read] = "end" THEN "eof" ELSE "end_error"
<1>1. /\ call[p].at = "end_close" /\ CloseWriter("closed") /\ Goes(p, "idle")
      /\ receiveMu' = Nobody /\ log' = Append(log, outcome)
      /\ UNCHANGED <<cancelled, sendMu, responseOnce, closeOnce, reader, begun, accepted,
                     result, response, body, ended>>
  BY DEF CloseAtEnd, At, ReceiveReturns, Returns
<1>2. outcome \in {"eof", "end_error"}
  OBVIOUS
<1>3. body.units[body.read] \in Ending =>
        body.units[body.read] = (IF outcome = "eof" THEN "end" ELSE outcome)
  BY DEF Ending
<1> HIDE DEF outcome
<1>4. body \in BodyType /\ body.read <= body.sent /\ Receiving(p) /\ ended
  BY <1>1, ReadsAlone
<1>5. CallInv' /\ MovedTo(p, "idle") /\ ResponseInv'
  BY <1>1, ReceiveKept DEF CloseWriter
<1>6. RequestInv'
  BY <1>1, <1>4, <1>5, WriterClosed DEF StreamInv, Meant
<1>7. /\ log' \in Seq({"message", "failed", "eof", "end_error"})
      /\ Len(log) \in Nat /\ Len(log') = Len(log) + 1
      /\ log'[Len(log) + 1] = outcome /\ \A k \in 1..Len(log) : log'[k] = log[k]
      /\ Clean' => Clean
  BY <1>1, <1>2, Appended DEF StreamInv, LogInv
<1>8. \A q \in Goroutines :
        ~ Receiving(q)' /\ call'[q].at \notin {"envelope", "trailing", "end_close"}
  BY <1>4, <1>5, NoneReceives DEF StreamInv
<1>9. Clean' => (\E e \in 1..Len(log) : EndedAt(e, Len(log)))'
  <2> HAVE Clean'
  <2>1. /\ MessagesTo(Len(log)) /\ body.read = Len(log) + 1 /\ body.units[body.read] \in Ending
        /\ body.done /\ body.sent = body.read
    BY <1>1, <1>7 DEF StreamInv, LogInv
  <2>2. \A k \in 1..Len(log) : log'[k] = "message" /\ body.units[k] = "message"
    BY <1>7, <2>1 DEF MessagesTo
  <2>3. Len(log') \in 1..Len(log') /\ Len(log') - 1 = Len(log) /\ (Len(log') + 1)..Len(log') = {}
    BY <1>7
  <2>4. EndedAt(Len(log), Len(log))'
    BY <1>1, <1>3, <1>7, <2>1, <2>2, <2>3 DEF EndedAt, MessagesTo
  <2> QED BY <2>3, <2>4
<1>10. ReceivedAsSent'
  BY <1>1, <1>2, <1>9, EarlierOutcomes DEF StreamInv
<1>11. LogInv'
  BY <1>1, <1>4, <1>7, <1>8, <1>9, <1>10 DEF StreamInv, LogInv, BodyType
<1> QED BY <1>5, <1>6, <1>11 DEF StreamInv

-----------------------------------------------------------------------------
(* The steps of CloseResponse.                                               *)

LEMMA CloseResponseStep ==
  ASSUME StreamInv, NEW p \in Goroutines, CloseResponse(p)
  PROVE  StreamInv'
<1>1. /\ call[p].at = "close_once" /\ closeOnce \in {Nobody, "done"}
      /\ UNCHANGED <<sendMu, receiveMu, responseOnce, requestClosed, writer, reader, begun, accepted,
                     result, response, body, ended, log>>
  BY DEF CloseResponse, At, pipeVars
<1>2. LastCall(p) = "CloseResponse"
  BY <1>1 DEF StreamInv, CallInv, Placed, Belongs
<1>3. CASE closeOnce = Nobody
  <2>1. closeOnce' = p /\ cancelled' = TRUE /\ Goes(p, "close_mu")
    BY <1>3 DEF CloseResponse
  <2>2. CallInv' /\ MovedTo(p, "close_mu") /\ LastCall(p)' = LastCall(p)
    BY <1>1, <1>2, <2>1, Going DEF StreamInv, Labels, Belongs, Awaiting
  <2>3. RequestInv'
    BY <1>1, <2>2, RequestKept DEF StreamInv
  <2>4. ResponseInv'
    <3>1. NothingLeaks'
      BY <2>1, StreamAssumption DEF NothingLeaks
    <3>2. cancelled'
      BY <2>1
    <3> QED BY <1>1, <2>2, <3>1, <3>2 DEF StreamInv, ResponseInv, MovedTo, Awaiting
  <2>5. LogInv'
    <3>1. ~ Receiving(p)'
      BY <2>2 DEF Receiving, MovedTo, Awaiting
    <3> QED BY <1>1, <2>2, <3>1, LogKept DEF StreamInv, LogInv
  <2> QED BY <2>2, <2>3, <2>4, <2>5 DEF StreamInv
<1>4. CASE closeOnce = "done"
  <2>1. Goes(p, "idle") /\ UNCHANGED <<closeOnce, cancelled>>
    BY <1>4, StreamAssumption DEF CloseResponse, Returns
  <2>2. CallInv' /\ MovedTo(p, "idle")
    BY <1>1, <2>1, Going DEF StreamInv, Labels
  <2>3. RequestInv'
    BY <1>1, <2>2, RequestKept DEF StreamInv
  <2>4. Elsewhere
    BY <1>1, <2>1 DEF Elsewhere
  <2> QED BY <1>1, <2>2, <2>3, <2>4, OthersKept DEF StreamInv
<1> QED BY <1>1, <1>3, <1>4

LEMMA CloseBodyStep ==
  ASSUME StreamInv, NEW p \in Goroutines, CloseBody(p)
  PROVE  StreamInv'
<1> DEFINE closed == body.closed \/ response = "open"
<1>1. /\ call[p].at = "close_body" /\ closeOnce' = "done" /\ Goes(p, "idle")
      /\ body' = [body EXCEPT !.closed = closed]
      /\ UNCHANGED <<cancelled, sendMu, receiveMu, responseOnce, requestClosed, writer, reader, begun,
                     accepted, result, response, ended, log>>
  BY DEF CloseBody, At, Returns, pipeVars
<1>2. closed \in BOOLEAN /\ body \in BodyType
  BY DEF StreamInv, LogInv, BodyType
<1> HIDE DEF closed
<1>3. /\ body' \in BodyType /\ body'.units = body.units /\ body'.sent = body.sent
      /\ body'.done = body.done /\ body'.read = body.read /\ body'.aligned = body.aligned
      /\ body'.closed = closed
  BY <1>1, <1>2 DEF BodyType
<1>4. LastCall(p) = "CloseResponse"
  BY <1>1 DEF StreamInv, CallInv, Placed, Belongs
<1>5. CallInv' /\ MovedTo(p, "idle") /\ LastCall(p)' = LastCall(p)
  BY <1>1, Going DEF StreamInv, Labels
<1>6. RequestInv'
  BY <1>1, <1>5, RequestKept DEF StreamInv
<1>7. body.closed => body'.closed
  BY <1>3 DEF closed
<1>8. NothingLeaks'
  <2>1. cancelled /\ requestClosed /\ responseOnce = "done"
    BY <1>1, <1>4 DEF StreamInv, ResponseInv
  <2>2. /\ result # "pending" /\ (result = "ok" => response = "open")
        /\ result \in {"status", "badtype"} => body.closed
    BY <2>1 DEF StreamInv, ResponseInv
  <2>3. result \in {"ok", "status", "badtype"} => body'.closed
    BY <1>3, <1>7, <2>2 DEF closed
  <2> QED BY <1>1, <2>1, <2>2, <2>3 DEF NothingLeaks, Answered
<1>9. ResponseInv'
  BY <1>1, <1>5, <1>7, <1>8 DEF StreamInv, ResponseInv, MovedTo, Awaiting
<1>10. LogInv'
  <2>1. ~ Receiving(p)'
    BY <1>5 DEF Receiving, MovedTo, Awaiting
  <2> QED BY <1>1, <1>3, <1>5, <2>1, LogKept DEF StreamInv, BodyType
<1> QED BY <1>5, <1>6, <1>9, <1>10 DEF StreamInv

-----------------------------------------------------------------------------
(* The steps of the transport, the server and the caller's context.          *)

LEMMA TakePartStep ==
  ASSUME StreamInv, NEW p \in Goroutines, TakePart(p)
  PROVE  StreamInv'
<1>1. /\ call[p].at = "write" /\ reader = "open" /\ begun = accepted /\ begun' = begun + 1
      /\ UNCHANGED <<call, cancelled, sendMu, receiveMu, responseOnce, closeOnce, requestClosed,
                     writer, reader, accepted, result, response, body, ended, log>>
  BY DEF TakePart, At, goVars
<1>2. CallInv'
  BY <1>1 DEF StreamInv, CallInv, CallsTyped, Placed, LastCall
<1>3. RequestInv'
  BY <1>1 DEF StreamInv, RequestInv, Meant
<1>4. ResponseInv'
  BY <1>1 DEF StreamInv, ResponseInv, NothingLeaks, Answered, LastCall
<1>5. LogInv'
  BY <1>1 DEF StreamInv, LogInv, Receiving, Clean, MessagesTo, EndedAt, ReceivedAsSent, LastCall
<1> QED BY <1>2, <1>3, <1>4, <1>5 DEF StreamInv

\* The server sends and ends; what was received stays as it was sent.
LEMMA ServerKept ==
  ASSUME StreamInv, UNCHANGED <<call, receiveMu, ended, log>>,
         \/ body' = body
         \/ ~ body.done /\ (body' = [body EXCEPT !.sent = @ + 1] \/ body' = [body EXCEPT !.done = TRUE])
  PROVE  LogInv' /\ body'.closed = body.closed
<1>1. body \in BodyType
  BY DEF StreamInv, LogInv, BodyType
<1>2. /\ body' \in BodyType /\ body'.units = body.units /\ body'.read = body.read
      /\ body'.aligned = body.aligned /\ body'.closed = body.closed /\ body.sent <= body'.sent
      /\ body.done => body'.done /\ body'.sent = body.sent
  <2>1. CASE body' = body
    BY <1>1, <2>1 DEF BodyType
  <2>2. CASE ~ body.done /\ body' = [body EXCEPT !.sent = @ + 1]
    <3>1. PICK n \in Nat : n = body.sent + 1 /\ body.sent \in Nat
      BY <1>1 DEF BodyType
    <3>2. body' = [body EXCEPT !.sent = n]
      BY <2>2, <3>1
    <3>3. /\ body' \in BodyType /\ body'.units = body.units /\ body'.read = body.read
          /\ body'.aligned = body.aligned /\ body'.closed = body.closed /\ body'.sent = n
      BY <1>1, <3>2 DEF BodyType
    <3> QED BY <2>2, <3>1, <3>3
  <2>3. CASE ~ body.done /\ body' = [body EXCEPT !.done = TRUE]
    <3>1. /\ body' \in BodyType /\ body'.units = body.units /\ body'.read = body.read
          /\ body'.aligned = body.aligned /\ body'.closed = body.closed /\ body'.sent = body.sent
      BY <1>1, <2>3 DEF BodyType
    <3>2. body.sent \in Nat
      BY <1>1 DEF BodyType
    <3> QED BY <2>3, <3>1, <3>2
  <2> QED BY <2>1, <2>2, <2>3
<1>3. \A q \in Goroutines : Receiving(q)' = Receiving(q)
  BY DEF Receiving, LastCall
<1>4. Clean' = Clean /\ (\A k : MessagesTo(k)' = MessagesTo(k))
  BY <1>2 DEF Clean, MessagesTo
<1>5. \A e, n : EndedAt(e, n) => EndedAt(e, n)'
  BY <1>2 DEF EndedAt, MessagesTo
<1>6. body.sent \in Nat /\ body'.sent \in Nat /\ body.read \in Nat
  BY <1>1, <1>2 DEF BodyType
<1>7. ReceivedAsSent'
  <2>1. ReceivedAsSent /\ log \in Seq({"message", "failed", "eof", "end_error"})
    BY DEF StreamInv, LogInv
  <2>2. DOMAIN log = 1..Len(log) /\ Len(log) \in Nat
    BY <2>1, LenProperties
  <2>3. \A n \in DOMAIN log : n <= body.sent => n <= body'.sent
    BY <1>2, <1>6, <2>2
  <2> QED BY <1>2, <2>1, <2>3 DEF ReceivedAsSent
<1>8. body'.read <= body'.sent
  BY <1>2, <1>6 DEF StreamInv, LogInv
<1>9. LogInv'
  BY <1>2, <1>3, <1>4, <1>5, <1>7, <1>8 DEF StreamInv, LogInv, BodyType
<1> QED BY <1>2, <1>9

LEMMA OutsideStep ==
  ASSUME StreamInv, \/ CancelContext \/ Answer \/ DoFails \/ ServerSends \/ ServerEnds
                    \/ ReadRequestEnd \/ BreakRequest
  PROVE  StreamInv'
<1>1. Untouched
  BY DEF CancelContext, Answer, DoFails, ServerSends, ServerEnds, ReadRequestEnd, BreakRequest
<1>2. CallInv'
  BY <1>1 DEF StreamInv, CallInv, CallsTyped, Placed, LastCall, Untouched
<1>3. /\ cancelled => cancelled'
      /\ result' = result \/ (result = "pending" /\ result' \in {"ok", "status", "badtype", "error"})
      /\ \/ body' = body
         \/ ~ body.done /\ (body' = [body EXCEPT !.sent = @ + 1] \/ body' = [body EXCEPT !.done = TRUE])
  BY DEF CancelContext, Answer, DoFails, ServerSends, ServerEnds, ReadRequestEnd, BreakRequest
<1>4. LogInv' /\ body'.closed = body.closed
  BY <1>1, <1>3, ServerKept DEF Untouched
<1>5. ResponseInv'
  <2>1. NothingLeaks'
    BY <1>1, <1>3, <1>4 DEF StreamInv, ResponseInv, NothingLeaks, Answered, Untouched
  <2>2. \A q \in Goroutines : LastCall(q)' = LastCall(q)
    BY <1>1 DEF LastCall, Untouched
  <2> QED BY <1>1, <1>3, <1>4, <2>1, <2>2 DEF StreamInv, ResponseInv, Untouched
<1>6. Meant' = Meant
  BY <1>1 DEF Meant, Untouched
<1>7. RequestInv'
  <2>1. CASE UNCHANGED reader
    BY <1>1, <1>6, <2>1 DEF StreamInv, RequestInv, Untouched
  <2>2. CASE ReadRequestEnd
    <3>1. /\ reader = "open" /\ writer # "open"
          /\ reader' = (IF writer = "closed" THEN "whole" ELSE "broken")
      BY <2>2 DEF ReadRequestEnd
    <3>2. requestClosed /\ begun = accepted
      BY <3>1 DEF StreamInv, RequestInv
    <3> QED BY <1>1, <1>6, <3>1, <3>2 DEF StreamInv, RequestInv, Untouched
  <2>3. CASE BreakRequest
    <3>1. reader' = "broken"
      BY <2>3 DEF BreakRequest
    <3> QED BY <1>1, <1>6, <3>1 DEF StreamInv, RequestInv, Untouched
  <2> QED BY <2>1, <2>2, <2>3 DEF CancelContext, Answer, DoFails, ServerSends, ServerEnds
<1> QED BY <1>2, <1>4, <1>5, <1>7 DEF StreamInv

-----------------------------------------------------------------------------

LEMMA StreamStarts == StreamInit => StreamInv
<1> SUFFICES ASSUME StreamInit PROVE StreamInv
  OBVIOUS
<1>1. \A p \in Goroutines : call[p].at = "idle"
  BY DEF StreamInit
<1>2. <<>> \in Seq(Calls) /\ <<>> \in Seq({"message", "failed", "eof", "end_error"})
      /\ Len(log) = 0 /\ DOMAIN log = {}
  BY EmptySeq DEF StreamInit
<1>3. CallInv
  BY <1>1, <1>2 DEF StreamInit, CallInv, CallsTyped, Placed, Labels
<1>4. RequestInv
  BY <1>1 DEF StreamInit, RequestInv
<1>5. ResponseInv
  BY <1>1, StreamAssumption DEF StreamInit, ResponseInv, NothingLeaks, Awaiting
<1>6. LogInv
  <2>1. body \in BodyType /\ body.read = 0 /\ body.sent = 0 /\ body.aligned
    <3>1. PICK units \in Bodies : body = [units |-> units, sent |-> 0, done |-> FALSE, read |-> 0,
                                          aligned |-> TRUE, eof |-> FALSE, closed |-> FALSE]
      BY DEF StreamInit, ToSend
    <3> QED BY <3>1 DEF BodyType
  <2>2. ReceivedAsSent
    BY <1>2 DEF ReceivedAsSent
  <2>3. MessagesTo(Len(log))
    BY <1>2 DEF MessagesTo
  <2>4. log \in Seq({"message", "failed", "eof", "end_error"}) /\ ~ ended
    BY <1>2 DEF StreamInit
  <2> QED BY <1>1, <1>2, <2>1, <2>2, <2>3, <2>4 DEF LogInv, BodyType, Receiving, Awaiting
<1> QED BY <1>3, <1>4, <1>5, <1>6 DEF StreamInv

LEMMA StreamStep == StreamInv /\ [StreamNext]_streamVars => StreamInv'
<1> SUFFICES ASSUME StreamInv, [StreamNext]_streamVars PROVE StreamInv'
  OBVIOUS
<1>1. ASSUME NEW p \in Goroutines, NEW c \in Calls, Start(p, c) PROVE StreamInv'
  BY <1>1, StartStep
<1>2. ASSUME NEW p \in Goroutines, Step(p) PROVE StreamInv'
  BY <1>2, BeginSendStep, WriteFailsStep, CloseRequestStep, AwaitStep, TakeResultStep,
     ReadErrorBodyStep, RefuseStep, AbortRequestStep, BeginReceiveStep, ReadEnvelopeStep,
     EnvelopeCutStep, ReadFailsStep, TrailingBytesStep, EndStreamStep, CloseAtEndStep,
     CloseResponseStep, CloseBodyStep DEF Step
<1>3. ASSUME NEW p \in Goroutines, TakePart(p) \/ TakeRest(p) PROVE StreamInv'
  BY <1>3, TakePartStep, TakeRestStep
<1>4. CASE UNCHANGED streamVars
  <2>1. UNCHANGED <<call, cancelled, sendMu, receiveMu, responseOnce, closeOnce, requestClosed,
                    writer, reader, begun, accepted, result, response, body, ended, log>>
    BY <1>4 DEF streamVars, goVars, pipeVars
  <2>2. CallInv'
    BY <2>1 DEF StreamInv, CallInv, CallsTyped, Placed, LastCall
  <2>3. RequestInv'
    BY <2>1 DEF StreamInv, RequestInv, Meant
  <2>4. ResponseInv'
    BY <2>1 DEF StreamInv, ResponseInv, NothingLeaks, Answered, LastCall
  <2>5. LogInv'
    BY <2>1, ServerKept
  <2> QED BY <2>2, <2>3, <2>4, <2>5 DEF StreamInv
<1> QED BY <1>1, <1>2, <1>3, <1>4, OutsideStep DEF StreamNext

LEMMA StreamInvariant == StreamSpec => []StreamInv
BY StreamStarts, StreamStep, PTL DEF StreamSpec

\* Both ends of a stream read what the other one said, for any goroutines, calls and bodies:
\* Receive returns the messages in order and the true end, and the server reads a clean
\* end of the request only after every envelope whose Send returned.
THEOREM StreamsAreFaithful == StreamSpec => []StreamFaithful
<1>1. StreamInv => StreamFaithful
  <2> SUFFICES ASSUME StreamInv PROVE ReceivedAsSent /\ EndIsMeant
    BY DEF StreamFaithful
  <2>1. ReceivedAsSent
    BY DEF StreamInv, LogInv
  <2>2. EndIsMeant
    BY DEF StreamInv, RequestInv, EndIsMeant, Meant, At
  <2> QED BY <2>1, <2>2
<1> QED BY <1>1, StreamInvariant, PTL

\* When CloseResponse has returned nothing of the stream is left behind.
THEOREM StreamsLeakNothing == StreamSpec => []NothingLeaks
<1>1. StreamInv => NothingLeaks
  BY DEF StreamInv, ResponseInv
<1> QED BY <1>1, StreamInvariant, PTL

=============================================================================
