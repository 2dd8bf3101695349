--------------------------- MODULE SourceExchange ---------------------------
(***************************************************************************)
(* The check of one exchange with a source adapter (P2C): its manifest, a  *)
(* request, and the result or the error it answered with.                  *)
(*                                                                         *)
(* A text is a sequence of units and its length the length in bytes; a     *)
(* fingerprint stands for the text it was taken of.  Only the operations   *)
(* with a target are told apart from others.                               *)
(***************************************************************************)
EXTENDS Authority

\* What a provenance repeats of its result.
Provenance == {"source", "scope", "adapter", "operation"}
ProvenanceIssues(a) ==
  UNION {Issue(a.provenance[k] # a[k],
               CASE k = "source" -> "provenance_source" [] k = "scope" -> "provenance_scope"
                 [] k = "adapter" -> "provenance_adapter" [] OTHER -> "provenance_operation")
         : k \in Provenance}

\* A result of a read and the text in it.
ReadIssues(a) ==
  LET payload == a.payload
      limits == a.limits
      size == Len(payload.text)
  IN Issue(limits.items > 1, "read_items")
     \cup Issue(payload.truncated # limits.truncated, "truncation")
     \cup Issue(payload.count # size, "byte_count")
     \cup Issue(size > limits.maxBytes, "returned_bytes")
     \cup Issue(size > limits.bytes, "underreported")
     \cup Issue(payload.fp # payload.text, "payload_fingerprint")
     \cup Issue(Differ(a.provenance.fp, payload.text), "provenance_fingerprint")

\* What is wrong with an answer by itself.
AnswerIssues(a) ==
  IF a.kind = "error" THEN {}
  ELSE ProvenanceIssues(a)
       \cup Issue(a.limits.items > a.limits.maxItems \/ a.limits.bytes > a.limits.maxBytes,
                  "observed_limit")
       \cup (IF a.operation = "read" THEN ReadIssues(a) ELSE {})

\* What an answer repeats of its request.
Repeated(a) == {"request", "adapter", "operation"}
               \cup (IF a.kind = "result" THEN {"source", "scope"} ELSE {})

LinkIssues(m, q, a) ==
  Issue(q.adapter # m.adapter, "adapter")
  \cup Issue(q.operation \notin m.operations, "operation")
  \cup Issue(q.maxItems > m.maxItems \/ q.maxBytes > m.maxBytes, "requested_limit")
  \cup Issue(\E k \in Repeated(a) : a[k] # q[k], "linkage")

\* Limits and target of a result, against what was asked for.
ResultIssues(m, q, a) ==
  Issue(\/ a.limits.maxItems > q.maxItems \/ a.limits.maxItems > m.maxItems
        \/ a.limits.maxBytes > q.maxBytes \/ a.limits.maxBytes > m.maxBytes, "applied_limit")
  \cup Issue(a.operation \in {"read", "stat"} /\ a.payload.locator # q.locator, "target")
  \cup Issue(a.operation = "read" /\ a.payload.type \notin m.types, "content_type")
  \cup Issue(/\ a.operation = "read"
             /\ a.payload.count > q.maxBytes \/ a.payload.count > m.maxBytes, "returned_bytes")

ContentIssues(a, bytes) ==
  Issue(/\ bytes # Absent
        /\ a.kind = "error" \/ a.operation # "read" \/ bytes # a.payload.text, "exact_bytes")

\* validate_source_adapter_exchange; a part that is invalid ends the check.
ExchangeIssues(m, q, a, bytes) ==
  IF Absent \in {m, q, a} THEN {"missing"}
  ELSE IF Broken \in {m, q, a} THEN {"invalid"}
  ELSE IF AnswerIssues(a) # {} THEN AnswerIssues(a)
  ELSE LinkIssues(m, q, a)
       \cup (IF a.kind = "result" THEN ResultIssues(m, q, a) ELSE {})
       \cup ContentIssues(a, bytes)

Exchanged(m, q, a, bytes) == Decide(ExchangeIssues(m, q, a, bytes)) = "PASS"
=============================================================================
