------------------------------- MODULE Compat -------------------------------
(***************************************************************************)
(* The compatibility decision of profile/_compat.py: may a runtime with an *)
(* injected profile take a document written under another?  The rows of    *)
(* the matrix are asked in order, and the first that fails is the verdict. *)
(*                                                                         *)
(* A question has the runtime, the identities (or Absent), whether the     *)
(* exact source package is known and available, what is required of the    *)
(* runtime, and whether the envelope is valid.                             *)
(***************************************************************************)
EXTENDS Envelope

CONSTANT Versions  \* the parsed business versions: major, minor, patch by version

Absent == [absent |-> TRUE]
Given(identity) == identity # Absent
FirstOf(codes) ==
    LET bad == SelectSeq(codes, LAMBDA c : c # "ok") IN IF bad = <<>> THEN "ok" ELSE Head(bad)
Unless(condition, code) == IF condition THEN "ok" ELSE code

(* Descriptor pins are compared in any order.                              *)
Times(x, s) == Cardinality({i \in DOMAIN s : s[i] = x})
SameDescriptors(a, b) ==
    Len(a.items) = Len(b.items) /\ \A x \in Range(a.items) : Times(x, a.items) = Times(x, b.items)
SameIdentity(a, b) ==
    /\ \A key \in IdentityKeys \ {"descriptors"} : a[key] = b[key]
    /\ SameDescriptors(a.descriptors, b.descriptors)

Parses(version) == version \in DOMAIN Versions
KnownDocument(d) == Parses(d.version) /\ d.sha256 \in Digests

StepUp(injected, document) == \* mutant: the patch number decides alone
    LET p == Versions[injected] d == Versions[document] IN
    IF p[3] > d[3] THEN "profile-patch-migration-required" ELSE "profile-patch-downgrade-required"

(* The step between two versions of one major: by what the runtime's       *)
(* profile is ahead of, or behind, the document's.                         *)
StepCode(injected, document) ==
    LET p == Versions[injected] d == Versions[document] IN
    IF p[2] = d[2] THEN IF p[3] > d[3] THEN "profile-patch-migration-required" ELSE "profile-patch-downgrade-required"
    ELSE IF p[2] > d[2] THEN "profile-minor-migration-required" ELSE "profile-minor-downgrade-required"

(* The remedy of a row that depends on the source package.                 *)
Remedy(q, code) == IF q.available /\ KnownDocument(q.document) THEN code ELSE "profile-source-unavailable"
Asks(q, condition, code) == Unless(condition, Remedy(q, code))

Supported(q) ==
    LET p == q.injected d == q.document r == q.runtime IN
    FirstOf(<<Unless(p.schemaVersion \in r.schemas, "profile-schema-version"),
              Unless(p.mechanismVersion \in r.mechanisms, "mechanism-version-unsupported"),
              Unless(d.mechanismVersion \in r.mechanisms, "document-mechanism-unsupported"),
              Unless(d.schemaVersion \in r.schemas, "document-schema-unsupported")>>)
Migrations(q) ==
    LET p == q.injected d == q.document IN
    FirstOf(<<Asks(q, p.mechanismVersion = d.mechanismVersion, "mechanism-migration-required"),
              Asks(q, p.schemaVersion = d.schemaVersion, "profile-schema-migration-required"),
              Unless(q.capabilities \subseteq q.runtime.capabilities, "profile-capability"),
              Unless(q.assets \subseteq q.runtime.assets, "profile-resource-missing"),
              Asks(q, p.base = d.base, "base-mismatch"),
              Asks(q, SameDescriptors(p.descriptors, d.descriptors), "descriptor-mismatch")>>)
Business(q) ==
    LET p == q.injected d == q.document IN
    IF p.profile # d.profile \/ ~Parses(p.version) \/ ~Parses(d.version) THEN Remedy(q, "profile-major-mismatch")
    ELSE IF Versions[p.version][1] # Versions[d.version][1] THEN Remedy(q, "profile-major-mismatch")
    ELSE IF p.version # d.version THEN Remedy(q, StepCode(p.version, d.version))
    ELSE Unless({p.sha256, d.sha256} \subseteq Digests => p.sha256 = d.sha256, "profile-digest-mismatch")
Conflicting(q) ==
    LET present == {x \in {q.host, q.snapshot, q.document} : Given(x)} IN
    \E a, b \in present : ~SameIdentity(a, b)

CheckCompatibility(q) ==
    IF q.documentVersion = "none" /\ ~Given(q.document) THEN "profile-metadata-missing"
    ELSE IF q.documentVersion # "1" THEN "document-version-unsupported"
    ELSE IF ~Given(q.document) \/ ~Given(q.injected) THEN "profile-metadata-missing"
    ELSE IF Conflicting(q) THEN "profile-metadata-conflict"
    ELSE IF Supported(q) # "ok" THEN Supported(q)
    ELSE FirstOf(<<Migrations(q), Business(q), Remedy(q, "ok"), Unless(q.valid, "invalid")>>)
=============================================================================
