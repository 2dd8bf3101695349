------------------------------ MODULE Evidence ------------------------------
(***************************************************************************)
(* What an accepted answer says about the world.                           *)
(*                                                                         *)
(* The owner of a reference registers, binds and withdraws; a source is    *)
(* read or refuses; a resolver, honest or not, answers one request; and of *)
(* the evidence of all that, parts do not reach the check.  ResolveEvidence*)
(* says what the check makes of the rest.                                  *)
(***************************************************************************)
EXTENDS ResolveEvidence, FiniteSets

CONSTANTS
  MaxChanges    \* bound: changes by the owner and missing parts, together

VARIABLES
  reference, profile, binding,  \* the records of the owner, as they are
  selection,  \* what the control plane selected: transport and binding
  source,     \* what the source answered when it was read
  changes,    \* number of changes
  answer,     \* the answer of the resolver
  withheld,   \* parts of the evidence that do not reach the check
  verdict     \* what the check makes of the answer and the rest

vars == <<reference, profile, binding, selection, source, changes, answer, withheld, verdict>>

ASSUME EvidenceAssumption ==
  MaxChanges \in Nat /\ MaxPayload \in Nat \ {0}

\* The resolution is evaluated at 4, observes at 5 and verifies at 6.
Evaluated == 4
Observed == 5
Verified == 6
Resolved == 7

Statuses == {"active", "source_unavailable", "stale_locator"} \cup NotActive
Entries == <<"a", "b">>
Text == <<"x">>
OtherText == <<"y">>

Query == [request |-> 1, reference |-> "R", selection |-> <<"a">>, maxItems |-> 1, maxBytes |-> 2]

FirstReference ==
  [id |-> "R", source |-> "s", scope |-> "all", status |-> "active", clients |-> {"me"},
   entries |-> Entries, registered |-> 1]
FirstProfile ==
  [id |-> "P", client |-> "me", status |-> "active", created |-> 1, expires |-> 9, revoked |-> Absent]
BindingOf(r, p, operations, when) ==
  [id |-> "B", profile |-> p.id, profileFp |-> p, reference |-> r.id, referenceFp |-> r,
   scope |-> r.scope, transport |-> "T", class |-> "local", operations |-> operations,
   entries |-> <<"a">>, created |-> when]
FirstBinding == BindingOf(FirstReference, FirstProfile, {"resolve_context"}, 2)

-----------------------------------------------------------------------------
(* The owner, the source and the resolver                                  *)

\* The life of a registered reference (context-reference-transition schema).
MayBecome(from, to) ==
  CASE from = "active" -> to \in Statuses \ {"active"}
    [] from = "paused" -> to \in Statuses \ {"paused"}
    [] from = "source_unavailable" -> to \in Statuses \ {"source_unavailable"}
    [] from = "stale_locator" -> to \in {"paused", "revoked", "archived"}
    [] from = "revoked" -> to = "archived"
    [] OTHER -> FALSE

Transit == \E to \in Statuses :
  /\ MayBecome(reference.status, to)
  /\ reference' = [reference EXCEPT !.status = to]
  /\ UNCHANGED <<profile, binding, selection>>

Register == \E clients \in {{"you"}, {"me"}}, scope \in {"all", "some"} :
  /\ <<clients, scope>> # <<reference.clients, reference.scope>>
  /\ reference' = [reference EXCEPT !.clients = clients, !.scope = scope]
  /\ UNCHANGED <<profile, binding, selection>>

Suspend ==
  /\ profile' \in {[profile EXCEPT !.status = "suspended"], [profile EXCEPT !.expires = Evaluated],
                   [profile EXCEPT !.client = "you"]}
  /\ UNCHANGED <<reference, binding, selection>>

\* A new binding; the control plane may go on with the selection it had.
Rebind == \E operations \in {{"resolve_context"}, {"get_reference"}} :
  /\ binding' = BindingOf(reference, profile, operations, 3)
  /\ selection' \in {selection, [selection EXCEPT !.binding = binding', !.client = profile.client]}
  /\ UNCHANGED <<reference, profile>>

Reroute ==
  /\ selection' = [selection EXCEPT !.transport = "U"]
  /\ UNCHANGED <<reference, profile, binding>>

Change ==
  /\ answer = Absent /\ changes < MaxChanges
  /\ changes' = changes + 1
  /\ Transit \/ Register \/ Suspend \/ Rebind \/ Reroute
  /\ UNCHANGED <<source, answer, withheld, verdict>>

\* The exchange for entry "a", as the source answers it.
SourceRequest ==
  [request |-> 2, adapter |-> "fs", operation |-> "read", source |-> "s", scope |-> "all",
   locator |-> "a", maxItems |-> 1, maxBytes |-> 2]
Manifest ==
  [adapter |-> "fs", operations |-> {"read"}, types |-> {"markdown"}, maxItems |-> 1, maxBytes |-> 2]
SourceResult ==
  [kind |-> "result", request |-> 2, adapter |-> "fs", operation |-> "read", source |-> "s",
   scope |-> "all",
   provenance |-> [source |-> "s", scope |-> "all", adapter |-> "fs", operation |-> "read",
                   observed |-> Observed, observation |-> 3, fp |-> Text],
   limits |-> [maxItems |-> 1, maxBytes |-> 2, items |-> 1, bytes |-> 1, truncated |-> FALSE],
   payload |-> [locator |-> "a", type |-> "markdown", text |-> Text, count |-> 1, fp |-> Text,
                truncated |-> FALSE]]
SourceError(code) ==
  [kind |-> "error", request |-> 2, adapter |-> "fs", operation |-> "read", code |-> code,
   retryable |-> FALSE, observed |-> Observed]

SourceAnswers ==
  {SourceResult,
   [SourceResult EXCEPT !.provenance.source = "t"],
   [SourceResult EXCEPT !.provenance.fp = OtherText],
   [SourceResult EXCEPT !.provenance.observed = 3],
   [SourceResult EXCEPT !.request = 9],
   [SourceResult EXCEPT !.payload.locator = "b"],
   [SourceResult EXCEPT !.limits.truncated = TRUE],
   SourceError("source_unavailable"), SourceError("limit_exceeded"), SourceError("not_found")}

Event == [observation |-> 3, evidence |-> 4, observed |-> Observed, verified |-> Verified]

ResultOf(entry, text) ==
  [kind |-> "result", request |-> 1, reference |-> "R", referenceFp |-> reference, binding |-> "B",
   source |-> "s", entries |-> <<entry>>, observation |-> 3, observed |-> Observed, evidence |-> 4,
   verified |-> Verified, fp |-> text,
   limits |-> [maxItems |-> 1, maxBytes |-> 2, items |-> 1, bytes |-> 1],
   payload |-> <<[entry |-> entry, type |-> "markdown", text |-> text, count |-> 1, fp |-> text]>>]
ErrorOf(code) ==
  [kind |-> "error", request |-> 1, reference |-> "R", code |-> code, retryable |-> FALSE,
   observed |-> Observed]

\* Answers that are not what the source or the owner said.
Dishonest ==
  {ResultOf("b", Text), ResultOf("a", OtherText), [ResultOf("a", Text) EXCEPT !.request = 9],
   [ResultOf("a", Text) EXCEPT !.verified = 8],
   [ResultOf("a", Text) EXCEPT !.referenceFp = FirstReference],
   [ErrorOf("limit_exceeded") EXCEPT !.retryable = TRUE],
   [ErrorOf("client_not_allowed") EXCEPT !.observed = 8]}

-----------------------------------------------------------------------------
(* The evidence                                                            *)

AuthorityParts == {"reference", "profile", "binding", "referenceBytes", "profileBytes",
                   "bindingBytes", "client", "bindingFp", "transport", "class", "evaluated"}
ExchangeParts == {"manifest", "request", "response", "scope", "bytes"}
Parts == AuthorityParts \cup ExchangeParts \cup {"exchanges", "event", "resolved"}

Supply(part, value) == IF part \in withheld THEN Absent ELSE value

\* An error of the authority has no exchange, an error no event.
Exchange ==
  [manifest |-> Supply("manifest", Manifest), request |-> Supply("request", SourceRequest),
   response |-> Supply("response", source), scope |-> Supply("scope", "all"),
   bytes |-> IF source.kind = "result" THEN Supply("bytes", source.payload.text) ELSE Absent]

Context ==
  [reference |-> Supply("reference", reference), profile |-> Supply("profile", profile),
   binding |-> Supply("binding", binding), resolved |-> Supply("resolved", Resolved),
   authority |->
     [referenceBytes |-> Supply("referenceBytes", reference),
      profileBytes |-> Supply("profileBytes", profile),
      bindingBytes |-> Supply("bindingBytes", binding),
      client |-> Supply("client", selection.client),
      bindingFp |-> Supply("bindingFp", selection.binding),
      transport |-> Supply("transport", selection.transport), class |-> Supply("class", "local"),
      operation |-> "resolve_context", evaluated |-> Supply("evaluated", Evaluated)],
   exchanges |->
     IF answer.kind = "error" /\ ~FromSource(answer.code, reference) THEN Absent
     ELSE Supply("exchanges", <<Exchange>>),
   event |-> IF answer.kind = "result" THEN Supply("event", Event) ELSE Absent]

Check == verdict' = Verdict(Query, answer', Context')

Answer ==
  /\ answer = Absent
  /\ \/ /\ answer' = ResultOf("a", Text) \/ \E code \in SourceReasons : answer' = ErrorOf(code)
        /\ source' \in SourceAnswers
     \/ /\ \E code \in Reasons \ SourceReasons : answer' = ErrorOf(code)
        /\ source' = SourceResult
     \/ answer' \in Dishonest /\ source' \in {SourceResult, SourceError("limit_exceeded")}
  /\ UNCHANGED <<reference, profile, binding, selection, changes, withheld>>
  /\ Check

Withhold == \E part \in Parts \ withheld :
  /\ answer # Absent
  /\ changes + Cardinality(withheld) < MaxChanges
  /\ withheld' = withheld \cup {part}
  /\ UNCHANGED <<reference, profile, binding, selection, source, changes, answer>>
  /\ Check

-----------------------------------------------------------------------------
Init ==
  /\ reference = FirstReference /\ profile = FirstProfile /\ binding = FirstBinding
  /\ selection = [client |-> "me", transport |-> "T", binding |-> FirstBinding]
  /\ source = Absent /\ changes = 0 /\ answer = Absent /\ withheld = {}
  /\ verdict = "NEEDS_REVIEW"

Next == Change \/ Answer \/ Withhold

Spec == Init /\ [][Next]_vars

-----------------------------------------------------------------------------
(* Shapes                                                                  *)

Words ==
  {"R", "P", "s", "a", "b", "all", "some", "me", "you", "T", "U", "local", "resolve_context"}
References ==
  [id : {"R"}, source : {"s"}, scope : {"all", "some"}, status : Statuses,
   clients : {{"me"}, {"you"}}, entries : {Entries}, registered : {1}]
Profiles ==
  [id : {"P"}, client : {"me", "you"}, status : {"active", "suspended"}, created : {1},
   expires : {9, Evaluated}, revoked : {Absent}]
Bindings ==
  [id : {"B"}, profile : {"P"}, profileFp : Profiles, reference : {"R"}, referenceFp : References,
   scope : {"all", "some"}, transport : {"T"}, class : {"local"},
   operations : {{"resolve_context"}, {"get_reference"}}, entries : {<<"a">>}, created : {2, 3}]

Observations ==
  [manifest : {Manifest, Absent}, request : {SourceRequest, Absent},
   response : SourceAnswers \cup {Absent}, scope : {"all", Absent}, bytes : {Text, Absent}]
Disclosures ==
  [kind : {"result"}, request : {1, 9}, reference : {"R"}, referenceFp : References,
   binding : {"B"}, source : {"s"}, entries : {<<"a">>, <<"b">>}, observation : {3},
   observed : {Observed}, evidence : {4}, verified : {Verified, 8}, fp : {Text, OtherText},
   limits : [maxItems : {1}, maxBytes : {2}, items : {1}, bytes : {1}],
   payload : [1..1 -> [entry : {"a", "b"}, type : {"markdown"}, text : {Text, OtherText},
                       count : {1}, fp : {Text, OtherText}]]]
Refusals ==
  [kind : {"error"}, request : {1}, reference : {"R"}, code : Reasons, retryable : BOOLEAN,
   observed : {Observed, 8}]

\* What marks a part as absent or spoiled is no value of the kind it stands for.
ASSUME MarksAreApart == \A mark \in {Absent, Broken, TooLarge} :
  /\ mark \notin Nat \cup Words \cup Statuses \cup {Text, OtherText, <<"a">>}
  /\ mark \notin References \cup Profiles \cup Bindings
  /\ mark \notin {Query, Manifest, SourceRequest, Event} \cup SourceAnswers
  /\ mark \notin Disclosures \cup Refusals \cup [1..1 -> Observations]

TypeOK ==
  /\ reference \in References /\ profile \in Profiles /\ binding \in Bindings
  /\ selection \in [client : {"me", "you"}, transport : {"T", "U"}, binding : Bindings]
  /\ source \in SourceAnswers \cup {Absent} /\ changes \in 0..MaxChanges
  /\ answer \in Disclosures \cup Refusals \cup {Absent} /\ withheld \subseteq Parts
  /\ verdict \in {"PASS", "NEEDS_REVIEW", "ERROR", "REJECT"}

-----------------------------------------------------------------------------
(* Properties                                                              *)

\* The records of the owner permit this resolution.
BindingHolds ==
  /\ binding.profileFp = profile /\ binding.referenceFp = reference
  /\ selection.binding = binding /\ selection.client = profile.client
  /\ selection.transport = binding.transport
MayResolve ==
  /\ BindingHolds /\ "resolve_context" \in binding.operations
  /\ reference.status = "active" /\ profile.status = "active" /\ profile.expires > Evaluated
  /\ profile.client \in reference.clients

\* An error gives the reason that holds in the world.
ReasonHolds(code) ==
  IF FromSource(code, reference)
  THEN /\ MayResolve
       /\ IF code = "provenance_mismatch"
          THEN source \in {[SourceResult EXCEPT !.provenance.source = "t"],
                           [SourceResult EXCEPT !.provenance.fp = OtherText]}
          ELSE source = SourceError(code)
  ELSE
  CASE code \in {"stale_locator", "source_unavailable"} -> reference.status = code
    [] code = "reference_not_active" -> reference.status \in NotActive
    [] code = "client_not_allowed" ->
         profile.client \notin reference.clients /\ selection.client = profile.client
    [] code = "stale_reference" -> binding.referenceFp # reference
    [] code = "unsupported_request" -> "resolve_context" \notin binding.operations
    [] code = "binding_mismatch" ->
         \/ binding.profileFp # profile \/ binding.scope # reference.scope
         \/ selection.binding # binding \/ selection.client # profile.client
         \/ selection.transport # binding.transport
    [] OTHER -> FALSE

True ==
  IF answer.kind = "result"
  THEN answer = ResultOf("a", Text) /\ source = SourceResult /\ MayResolve
  ELSE answer = ErrorOf(answer.code) /\ ReasonHolds(answer.code)

\* The parts without which an answer is not accepted.
Needed ==
  AuthorityParts \cup {"resolved"}
  \cup (IF answer.kind = "result" THEN ExchangeParts \cup {"exchanges", "event"}
        ELSE IF ~FromSource(answer.code, reference) THEN {}
        ELSE {"exchanges", "manifest", "request", "response", "scope"}
             \cup (IF answer.code = "provenance_mismatch" THEN {"bytes"} ELSE {}))

\* An answer is accepted if and only if it is true and nothing it needs fails to
\* reach the check: a result discloses what the source holds under an entry the
\* owner opened to this client, an error gives a reason that holds.  So no
\* evidence supports a result and a refusal at once, and no part that is needed
\* is taken for granted (validate_resolve_context_exchange).
AcceptedExactlyWhenTrue ==
  answer # Absent => (verdict = "PASS" <=> True /\ withheld \cap Needed = {})

\* The two reasons that hang on the evidence of another one: a mismatch of a
\* binding that is out of date as well, and the source registered as unavailable.
Entangled ==
  \/ answer = ErrorOf("binding_mismatch") /\ binding.referenceFp # reference
  \/ answer = ErrorOf("source_unavailable") /\ reference.status = "source_unavailable"

\* A part of the evidence that goes missing makes no answer accepted that was
\* not, and turns an accepted one into an undecided one, not into a refused one;
\* two entangled reasons excepted (_error: supported, contradicted, unresolved).
WithheldIsUndecided ==
  [][withheld' # withheld =>
       /\ verdict' = "PASS" => verdict = "PASS"
       /\ verdict = "PASS" /\ ~Entangled => verdict' # "REJECT"]_vars
=============================================================================
