-------------------------- MODULE ResolveEvidence ---------------------------
(***************************************************************************)
(* The check of an answer to a resolve request (P2E).  The answer is held  *)
(* against the evidence of the control plane: a chain of authority (P2D),  *)
(* the exchanges with the source (P2C) and the times of the resolution.    *)
(* An answer is accepted, refused, or left open because something the      *)
(* decision needs was not supplied.                                        *)
(*                                                                         *)
(* A result discloses texts.  An error gives a reason; the reasons of the  *)
(* authority are read off the issues of the chain, the reasons of the      *)
(* source off the one exchange with it.                                    *)
(***************************************************************************)
EXTENDS SourceExchange, FiniteSets

CONSTANT MaxPayload  \* items of a result that evidence can be matched with (8)

SourceReasons == {"source_unavailable", "limit_exceeded", "provenance_mismatch"}
Reasons == SourceReasons \cup
  {"stale_reference", "stale_locator", "client_not_allowed", "binding_mismatch",
   "reference_not_active", "unsupported_request", "freshness_verification_required"}

\* A reference that is registered as unavailable refuses by itself.
FromSource(code, r) ==
  code \in SourceReasons /\ ~(code = "source_unavailable" /\ Field(r, "status") = code)

Exchanges(c) == IF c.exchanges = Absent THEN <<>> ELSE c.exchanges
P2C(e) == ExchangeIssues(e.manifest, e.request, e.response, e.bytes)

\* Issues of the chain that are issues of the answer whatever it says.
Carried(authority) ==
  authority \cap {"missing", "resource", "unavailable", "invalid", "exact_input", "timestamps"}

\* Request, answer and reference belong together; a selection of entries
\* narrows what the binding allows.
RequestIssues(q, out, c) ==
  LET r == c.reference
      b == c.binding
  IN PartIssues(q) \cup PartIssues(out) \cup Issue(c.resolved = Absent, "missing")
     \cup Issue(Differ(c.authority.operation, "resolve_context"), "not_eligible")
     \cup Issue(\/ Differ(Field(q, "reference"), Field(r, "id"))
                \/ Differ(Field(out, "reference"), Field(r, "id")), "reference")
     \cup Issue(\E k \in {"request", "reference"} : Differ(Field(out, k), Field(q, k)), "linkage")
     \cup Issue(/\ Field(q, "selection") # Absent /\ Usable(b)
                /\ ~Narrows(q.selection, b.entries), "selection")

\* The entries that may be disclosed, or Absent.
Selected(q, b) ==
  IF Field(q, "selection") # Absent THEN q.selection ELSE Field(b, "entries")

PartsOfExchange(e) ==
  PartIssues(e.manifest) \cup PartIssues(e.request) \cup PartIssues(e.response)
  \cup Issue(e.scope = Absent, "missing")

\* An exchange is with the source of the reference, for an entry that was
\* selected.
SourceLinks(e, r, entries) ==
  LET q == e.request
  IN Issue(Differ(Field(q, "source"), Field(r, "source")), "source_observation")
     \cup Issue(Differ(Field(q, "scope"), e.scope), "source_observation")
     \cup Issue(Usable(q) /\ q.operation # "read", "source_observation")
     \cup Issue(/\ Usable(q) /\ entries # Absent
                /\ \A i \in DOMAIN entries : entries[i] # q.locator, "selection")

IsResult(a) == Usable(a) /\ a.kind = "result"
IsError(a) == Usable(a) /\ a.kind = "error"

-----------------------------------------------------------------------------
(* A result                                                                *)

\* The bytes of all items, counted.
BytesOf(out) ==
  Cardinality(UNION {{i} \X (1..out.payload[i].count) : i \in DOMAIN out.payload})

LimitIssues(q, out) ==
  LET limits == out.limits
  IN Issue(\/ limits.items # Len(out.payload) \/ limits.bytes # BytesOf(out)
           \/ limits.items > limits.maxItems \/ limits.bytes > limits.maxBytes
           \/ Usable(q) /\ (limits.maxItems > q.maxItems \/ limits.maxBytes > q.maxBytes),
           "limits")

\* What a result says of the event is what the event was, in order.
EventIssues(out, c) ==
  IF c.event = Absent THEN {"missing"}
  ELSE Issue(\/ out.observation # c.event.observation \/ out.observed # c.event.observed
             \/ out.evidence # c.event.evidence \/ out.verified # c.event.verified, "event")
       \cup Issue(\/ Late(c.event.observed, c.event.verified)
                  \/ Late(c.event.verified, c.resolved), "timestamps")

\* Seeded fault: the text disclosed is not compared with the text observed.
ItemIssuesOfEntry(item, e) == Issue(Differ(item.entry, e.request.locator), "payload")

\* An item discloses what its exchange read.
ItemIssues(item, e) ==
  Issue(\/ Differ(item.entry, e.request.locator)
        \/ item.text # e.response.payload.text \/ item.type # e.response.payload.type, "payload")
  \cup Issue(/\ e.bytes # Absent
             /\ item.count # Len(e.bytes) \/ item.fp # e.bytes, "payload")

OneToOne(out, c) ==
  LET n == Len(out.payload)
  IN /\ n <= MaxPayload /\ c.exchanges # Absent /\ Len(Exchanges(c)) = n
     /\ \A i, j \in 1..n : out.payload[i].entry = out.payload[j].entry => i = j

\* A source is observed after the authority was established, before the event.
ObservationInTime(e, c) ==
  IsResult(e.response) =>
    LET when == e.response.provenance.observed
    IN ~Late(c.authority.evaluated, when) /\ (c.event # Absent => ~Late(when, c.event.observed))

ObservationIssues(e, out, c, entries) ==
  LET r == c.reference
  IN SourceLinks(e, r, entries)
     \cup Issue(/\ IsResult(e.response)
                /\ \/ Differ(e.response.source, Field(r, "source"))
                   \/ Differ(e.response.provenance.source, Field(r, "source")), "source_observation")
     \cup (P2C(e) \cap {"missing"}) \cup Issue(e.bytes = Absent, "missing")
     \cup Issue(P2C(e) \ {"missing"} # {} \/ IsError(e.response), "source_observation")
     \cup Issue(~ObservationInTime(e, c), "timestamps")

\* One fingerprint for the texts of all items.
Aggregate(out, es) ==
  IF Len(es) = 1 THEN out.payload[1].fp ELSE [all |-> [i \in DOMAIN es |-> es[i].bytes]]

PayloadIssues(out, c, entries) ==
  LET n == Len(out.payload)
      actual == [i \in 1..n |-> out.payload[i].entry]
      es == Exchanges(c)
  IN Issue(\/ entries # Absent /\ ~Narrows(out.entries, entries)
           \/ \E i \in 1..n : entries # Absent /\ \A j \in DOMAIN entries : entries[j] # actual[i],
           "selection")
     \cup (IF ~OneToOne(out, c) THEN {"missing"}
           ELSE Issue(out.entries # actual, "provenance")
                \cup Issue(entries # Absent /\ ~Narrows(actual, entries), "selection")
                \cup (UNION {ItemIssues(out.payload[i], es[i]) : i \in
                       {k \in 1..n : /\ Usable(es[k].request) /\ IsResult(es[k].response)
                                     /\ es[k].response.operation = "read"}})
                \cup Issue(/\ \A i \in 1..n : es[i].bytes # Absent
                           /\ out.fp # Aggregate(out, es), "provenance"))

ResultOfIssues(q, out, c, entries, authority) ==
  Issue(Decide(authority) = "REJECT", "not_eligible")
  \cup Issue(\/ Differ(out.binding, Field(c.binding, "id"))
             \/ Differ(out.referenceFp, FingerprintOf(c.authority.referenceBytes)), "binding")
  \cup Issue(Differ(out.source, Field(c.reference, "source")), "provenance")
  \cup LimitIssues(q, out) \cup EventIssues(out, c) \cup PayloadIssues(out, c, entries)
  \cup UNION {PartsOfExchange(e) \cup ObservationIssues(e, out, c, entries) :
                e \in {Exchanges(c)[i] : i \in DOMAIN Exchanges(c)}}

-----------------------------------------------------------------------------
(* An error: does the evidence support the reason, or contradict it?       *)

BindingIssues ==
  {"profile_id", "reference_id", "client_id", "profile_fingerprint", "binding_fingerprint",
   "access_scope", "transport_binding", "transport_class", "entry_scope"}
Unreliable == {"exact_input", "invalid", "unavailable"}
NotActive == {"paused", "revoked", "archived"}

\* The binding is for this reference, but for another version of it.
Stale(r, b, authority) ==
  /\ Field(b, "reference") # Absent /\ Field(b, "reference") = Field(r, "id")
  /\ "reference_fingerprint" \in authority

Mismatched(r, b, authority) ==
  \/ authority \cap BindingIssues # {}
  \/ ~Stale(r, b, authority) /\ "reference_fingerprint" \in authority

ClientKnown(r, p, b, x) ==
  /\ Usable(r) /\ Usable(p) /\ Usable(b)
  /\ x.client = p.client /\ b.profile = p.id

BindingKnown(r, p, b, x, authority) ==
  /\ Usable(r) /\ Usable(p) /\ Usable(b)
  /\ Absent \notin {x.referenceBytes, x.profileBytes, x.bindingBytes,
                    x.client, x.bindingFp, x.transport, x.class}
  /\ authority \cap (Unreliable \cup {"resource"}) = {} /\ Decide(authority) # "ERROR"

Supported(code, r, p, b, x, authority) ==
  CASE code = "client_not_allowed" -> ClientKnown(r, p, b, x) /\ code \in authority
    [] code = "reference_not_active" -> Field(r, "status") \in NotActive /\ code \in authority
    [] code \in {"stale_locator", "source_unavailable"} ->
         Field(r, "status") = code /\ "reference_not_active" \in authority
    [] code = "stale_reference" -> Stale(r, b, authority)
    [] code = "binding_mismatch" -> Mismatched(r, b, authority)
    [] code = "unsupported_request" -> "operation_not_allowed" \in authority
    [] OTHER -> FALSE

\* Seeded fault: what was not supplied counts against the reason.
ContradictedBySilence(code, r, p, b, x, authority) == ~Supported(code, r, p, b, x, authority)

Contradicted(code, r, p, b, x, authority) ==
  \/ CASE code = "reference_not_active" -> Usable(r) /\ r.status \notin NotActive
       [] code = "stale_locator" -> Usable(r) /\ r.status # "stale_locator"
       [] code = "client_not_allowed" -> ClientKnown(r, p, b, x) /\ p.client \in r.clients
       [] code = "stale_reference" ->
            \/ Usable(r) /\ Usable(b) /\ b.reference # r.id
            \/ /\ Usable(r) /\ Usable(b) /\ Usable(x.referenceBytes)
               /\ Decide(authority) # "ERROR" /\ authority \cap Unreliable = {}
               /\ b.referenceFp = x.referenceBytes
       [] code = "binding_mismatch" ->
            /\ ~Mismatched(r, b, authority)
            /\ Stale(r, b, authority) \/ BindingKnown(r, p, b, x, authority)
       [] code = "unsupported_request" ->
            Usable(b) /\ x.operation = "resolve_context" /\ "resolve_context" \in b.operations
       [] code = "freshness_verification_required" ->
            \/ Usable(r) /\ r.status # "active"
            \/ authority \cap (BindingIssues \cup
                 {"reference_fingerprint", "client_not_allowed", "reference_not_active",
                  "profile_not_active", "profile_expired", "operation_not_allowed"}) # {}
       [] OTHER -> FALSE
  \/ /\ code # "freshness_verification_required" /\ ~Supported(code, r, p, b, x, authority)
     /\ authority = {}

RefusalIssues(out, c, authority) ==
  LET r == c.reference
      p == c.profile
      b == c.binding
      x == c.authority
  IN Issue(Exchanges(c) # <<>>, "invalid")
     \cup (IF Contradicted(out.code, r, p, b, x, authority) THEN {"evidence"}
           ELSE Issue(~Supported(out.code, r, p, b, x, authority), "missing"))

\* An answer of the source that repeats its own request wrongly.
ProvenanceEvidence(e, out, c) ==
  LET q == e.request
      a == e.response
      found == P2C(e)
  IN IF ~IsResult(a) THEN Issue(Usable(a), "evidence") \cup Issue(~Usable(a), "missing")
     ELSE IF "missing" \in found THEN {"missing"}
     ELSE IF found = {} \/ ~(found \subseteq {"provenance_source", "provenance_scope", "provenance_adapter",
                                "provenance_operation", "provenance_fingerprint"})
          THEN {"evidence"}
     ELSE Issue(\/ q.adapter # e.manifest.adapter
                \/ \E k \in {"request", "adapter", "operation", "source", "scope"} : a[k] # q[k]
                \/ a.operation # "read" \/ a.payload.locator # q.locator
                \/ e.bytes # Absent /\ e.bytes # a.payload.text, "evidence")
          \cup Issue(e.bytes = Absent, "missing")
          \cup Issue(\/ Late(c.authority.evaluated, a.provenance.observed)
                     \/ Late(a.provenance.observed, out.observed), "timestamps")

SourceErrorEvidence(e, out) ==
  LET a == e.response
  IN (P2C(e) \cap {"missing"}) \cup Issue(P2C(e) \ {"missing"} # {} \/ IsResult(a), "evidence")
     \cup Issue(/\ IsError(a)
                /\ a.code # out.code \/ a.retryable # out.retryable \/ a.observed # out.observed,
                "evidence")

SourceErrorIssues(out, c, entries, authority) ==
  LET es == Exchanges(c)
  IN Issue(Decide(authority) = "REJECT", "not_eligible")
     \cup (UNION {PartsOfExchange(es[i]) : i \in DOMAIN es})
     \cup (IF es = <<>> THEN {"missing"}
           ELSE IF Len(es) # 1 THEN {"invalid"}
           ELSE SourceLinks(es[1], c.reference, entries)
                \cup (IF out.code = "provenance_mismatch" THEN ProvenanceEvidence(es[1], out, c)
                      ELSE SourceErrorEvidence(es[1], out)))

ErrorIssues(out, c, entries, authority) ==
  Issue(c.event # Absent, "invalid")
  \cup Issue(Late(out.observed, c.resolved) \/ Late(c.authority.evaluated, out.observed), "timestamps")
  \cup (IF FromSource(out.code, c.reference) THEN SourceErrorIssues(out, c, entries, authority)
        ELSE RefusalIssues(out, c, authority))

-----------------------------------------------------------------------------
\* validate_resolve_context_exchange
ResolveIssues(q, out, c) ==
  LET authority == AuthorityIssues(c.reference, c.profile, c.binding, c.authority)
      entries == Selected(q, c.binding)
  IN RequestIssues(q, out, c) \cup Carried(authority)
     \cup (IF ~Usable(out) THEN {}
           ELSE IF out.kind = "result" THEN ResultOfIssues(q, out, c, entries, authority)
           ELSE ErrorIssues(out, c, entries, authority))

Verdict(q, out, c) == Decide(ResolveIssues(q, out, c))
=============================================================================
