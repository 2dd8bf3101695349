----------------------------- MODULE Authority ------------------------------
(***************************************************************************)
(* The check of one chain of authority (P2D): a registered reference, the  *)
(* profile of a client and the binding that ties the two to a transport,   *)
(* each with the bytes it was read from, at one moment and for one         *)
(* operation of the control plane.                                         *)
(*                                                                         *)
(* A fingerprint stands for the bytes it was taken of, and bytes for the   *)
(* record they are parsed into.  An issue is named for the relation that   *)
(* does not hold; what it is worth is its decision.                        *)
(***************************************************************************)
EXTENDS Naturals, Sequences

CONSTANTS
  Absent,    \* not supplied
  Broken,    \* supplied, but no object of the contract, or bytes of no object
  TooLarge   \* supplied, but above a bound of the validator

\* A part that is spoiled is told from one that is not there.
ASSUME MarksDiffer == Absent \notin {Broken, TooLarge}

Usable(v) == v \notin {Absent, Broken, TooLarge}
Field(v, name) == IF Usable(v) THEN v[name] ELSE Absent
Differ(a, b) == a # Absent /\ b # Absent /\ a # b
Issue(condition, name) == IF condition THEN {name} ELSE {}

\* Of the issues found, the worst decides.
Incomplete == {"missing"}
Unavailable == {"resource", "unavailable"}
Decide(issues) ==
  IF issues \ (Incomplete \cup Unavailable) # {} THEN "REJECT"
  ELSE IF issues \cap Unavailable # {} THEN "ERROR"
  ELSE IF issues # {} THEN "NEEDS_REVIEW" ELSE "PASS"

\* What is wrong with a part by itself.
PartIssues(v) ==
  Issue(v = Absent, "missing") \cup Issue(v = Broken, "invalid") \cup Issue(v = TooLarge, "resource")

\* Bytes are compared with the record they were supplied for.
BytesIssues(bytes, record) ==
  Issue(bytes = Absent, "missing") \cup Issue(bytes = TooLarge, "resource")
  \cup Issue(bytes = Broken \/ (Usable(bytes) /\ Usable(record) /\ bytes # record),
             "exact_input")
FingerprintOf(bytes) == IF bytes = TooLarge THEN Absent ELSE bytes

\* `s` can be got from `t` by leaving entries out.
Narrows(s, t) ==
  \E f \in [DOMAIN s -> DOMAIN t] :
    /\ \A i, j \in DOMAIN s : i < j => f[i] < f[j]
    /\ \A i \in DOMAIN s : s[i] = t[f[i]]

-----------------------------------------------------------------------------
\* What has to agree.  `x` is the authority context: bytes of the three
\* objects, selection of the control plane, operation and moment.
Identities(r, p, b, x) == [
  profile_id |-> <<Field(b, "profile"), Field(p, "id")>>,
  reference_id |-> <<Field(b, "reference"), Field(r, "id")>>,
  client_id |-> <<x.client, Field(p, "client")>>]
Fingerprints(b, x) == [
  profile_fingerprint |-> <<Field(b, "profileFp"), FingerprintOf(x.profileBytes)>>,
  reference_fingerprint |-> <<Field(b, "referenceFp"), FingerprintOf(x.referenceBytes)>>,
  binding_fingerprint |-> <<x.bindingFp, FingerprintOf(x.bindingBytes)>>]
Routes(r, b, x) == [
  access_scope |-> <<Field(b, "scope"), Field(r, "scope")>>,
  transport_binding |-> <<x.transport, Field(b, "transport")>>,
  transport_class |-> <<x.class, Field(b, "class")>>]

Disagreeing(pairs) == {k \in DOMAIN pairs : Differ(pairs[k][1], pairs[k][2])}

RecordIssues(r, p, b, x) ==
  Issue(Usable(r) /\ r.status # "active", "reference_not_active")
  \cup Issue(Usable(r) /\ (r.clients = {} \/ (Usable(p) /\ p.client \notin r.clients)),
             "client_not_allowed")
  \cup Issue(Usable(p) /\ p.status # "active", "profile_not_active")
  \cup Issue(Usable(b) /\ x.operation # Absent /\ x.operation \notin b.operations,
             "operation_not_allowed")
  \cup Issue(Usable(r) /\ Usable(b) /\ ~Narrows(b.entries, r.entries), "entry_scope")

Late(a, z) == a # Absent /\ z # Absent /\ a > z

Expired(p, x) ==
  LET expires == Field(p, "expires")
  IN x.evaluated # Absent /\ expires # Absent /\ x.evaluated >= expires

TimeIssues(r, p, b, x) ==
  LET created == Field(p, "created")
      registered == Field(r, "registered")
      bound == Field(b, "created")
      revoked == Field(p, "revoked")
  IN Issue(\/ Late(created, bound) \/ Late(registered, bound)
           \/ \E t \in {bound, created, registered, revoked} : Late(t, x.evaluated)
           \/ Late(created, Field(p, "expires")) \/ Late(created, revoked), "timestamps")
     \cup Issue(Expired(p, x), "profile_expired")

SuppliedIssues(r, p, b, x) ==
  PartIssues(r) \cup PartIssues(p) \cup PartIssues(b)
  \cup BytesIssues(x.referenceBytes, r) \cup BytesIssues(x.profileBytes, p)
  \cup BytesIssues(x.bindingBytes, b)
  \cup Issue(Absent \in {x.client, x.bindingFp, x.transport, x.class, x.operation, x.evaluated},
             "missing")

\* validate_reference_authority
AuthorityIssues(r, p, b, x) ==
  SuppliedIssues(r, p, b, x)
  \cup Disagreeing(Identities(r, p, b, x)) \cup Disagreeing(Fingerprints(b, x))
  \cup Disagreeing(Routes(r, b, x)) \cup RecordIssues(r, p, b, x) \cup TimeIssues(r, p, b, x)

Eligible(r, p, b, x) == Decide(AuthorityIssues(r, p, b, x)) = "PASS"
=============================================================================
