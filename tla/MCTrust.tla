------------------------------- MODULE MCTrust -------------------------------
EXTENDS DetachedSignatures, ContentIdentity, CanonicalJson

CONSTANTS k1, k2, audit, release

KeyAlgorithm == [k \in Kids |-> "ecdsa"]
Life(issued, expires) == [issued |-> issued, expires |-> expires]
EnvelopeLives == {Life(0, Never), Life(1, 2)}
AddedPurposes == {{audit}, {audit, release}}

CatalogItems == {<<1>>, <<1, 2>>, <<2, 1>>, <<1, 1>>, <<>>}
Excluding(fields) == [excluded |-> Stored \cup {"content_sha256", "signature_envelope_hash"} \cup fields,
                      equivalent |-> {}]
UnitProjections == {Excluding({}), Excluding({"catalog_hash", "members"})}

\* a, a, aa, U+10000, U+10000 and U+FFFF: the last is before the others by its UTF-16
\* units and after them by its code point.
MemberNames ==
  {<<Raw(97)>>, <<Escape(97)>>, <<Raw(97), Raw(97)>>,
   <<Raw(65536)>>, <<Escape(55296), Escape(56320)>>, <<Raw(65535)>>}
MemberValues ==
  {Str(<<Escape(10)>>), Str(<<Escape(55296), Escape(56320)>>), Str(<<Escape(56320), Raw(97)>>),
   Num(Zero), Num(Number(TRUE, 0, 0, TRUE)), Num(Number(FALSE, 1, -400, FALSE)),
   Num(Number(FALSE, 1, -7, TRUE)), Num(Number(FALSE, 1, -6, FALSE)),
   Num(Number(FALSE, 1, 20, FALSE)), Num(Number(FALSE, 1, 21, TRUE)), Num(Number(FALSE, 1, 400, FALSE))}

signaturesIdle == signatureVars = <<0, <<FirstRegistry>>, {}, {}>>
textIdle == text.members = <<>> /\ ~ text.trailing

\* Signatures under registries, identities before registrars or texts, never two at a time.
TrustInit == SignatureInit /\ IdentityInit /\ CanonicalInit
TrustNext ==
  \/ registered = {} /\ textIdle /\ SignatureNext /\ UNCHANGED <<identityVars, text>>
  \/ signaturesIdle /\ textIdle /\ IdentityNext /\ UNCHANGED <<signatureVars, text>>
  \/ signaturesIdle /\ registered = {} /\ CanonicalNext /\ UNCHANGED <<signatureVars, identityVars>>
TrustSpec == TrustInit /\ [][TrustNext]_<<signatureVars, identityVars, text>>

\* The Go and the TypeScript verifiers, written apart, decide alike: on every signature,
\* every catalog association and every text.
RuntimesDecideAlike == VerifiersAgree /\ RuntimesAgree /\ CanonicalizersAgree
=============================================================================
