---------------------------- MODULE ContextHost -----------------------------
(***************************************************************************)
(* One call of the local host: it reads the three records of the owner and *)
(* the request, each from a file of its own, asks the source once and      *)
(* discloses what it read, or says in which of a few ways it could not.    *)
(*                                                                         *)
(* Nothing holds the owner off.  Between any two steps of the call a       *)
(* record may be replaced or put back, a file may be half written, and the *)
(* clock of the host may move on or be set back.  What the checks make of  *)
(* the records is in ResolveEvidence; a read of the source yields what     *)
(* SourceRead promises, one text the entry had, whole, and here any text.  *)
(***************************************************************************)
EXTENDS ResolveEvidence

CONSTANTS
  HardBytes,   \* the limit the adapter was configured with
  Limits,      \* limits requests come with
  Contents,    \* bound: texts of the entry
  MaxTime,     \* bound: last moment of the clock
  MaxChanges   \* bound: changes by the owner

VARIABLES
  records,   \* what the three files of the owner hold
  torn,      \* files that are being written
  now,       \* the clock of the host
  call,      \* the call: where it is, what it has loaded and observed
  changes,   \* how often the owner has acted
  ever,      \* history: records that were in the files together
  during,    \* history: the same, from the first load to the last; when all is
             \* loaded, both keep only what was loaded
  disturbed  \* history: "restored" (an earlier record came back), "setBack" (the clock)

vars == <<records, torn, now, call, changes, ever, during, disturbed>>

ASSUME ContextHostAssumption ==
  /\ MaxTime \in Nat /\ MaxChanges \in Nat /\ MaxPayload \in Nat \ {0}
  /\ HardBytes \in Nat \ {0} /\ Limits \subseteq Nat \ {0}
  /\ Contents # {}
  /\ Contents \subseteq Seq(UNION {{text[i] : i \in DOMAIN text} : text \in Contents})

Kinds == {"reference", "profile", "binding"}
Adapters == {"local", "obsidian", "foreign"}  \* the composer: none, Obsidian notes, any other

Hidden == "h"    \* an entry that is no note of a vault
Deep == "d"      \* one below more directories than the adapter goes down
Pattern == "p"   \* one with a wildcard in it
Locators == {"a", Hidden, Deep, Pattern, "c"}

Requests ==
  LET Asking(id, selection, bytes, hints) ==
        [request |-> 1, reference |-> id, selection |-> selection, maxItems |-> 1,
         maxBytes |-> bytes, hints |-> hints]
  IN {Asking("R", Absent, bytes, FALSE) : bytes \in Limits}
     \cup {Asking("R", <<entry>>, bytes, FALSE) : entry \in Locators, bytes \in Limits}
     \cup {Asking("S", <<"a">>, bytes, FALSE) : bytes \in Limits}
     \cup {Asking("R", <<"a">>, bytes, TRUE) : bytes \in Limits} \cup {Broken}

-----------------------------------------------------------------------------
(* The owner.  A record it publishes differs from all before it.           *)

\* The policies of freshness and provenance are the two this runtime serves, or not.
Reference(rev, status, entries, pinned, policies) ==
  [id |-> "R", source |-> "s", scope |-> "all", status |-> status, clients |-> {"me"},
   entries |-> entries, registered |-> 0,
   pinned |-> pinned, policies |-> policies, rev |-> rev]
Profile(rev, status, expires) ==
  [id |-> "P", client |-> "me", status |-> status, created |-> 0, expires |-> expires,
   revoked |-> Absent, rev |-> rev]
Binding(rev, reference, profile, operations, when) ==
  [id |-> "B", profile |-> "P", profileFp |-> profile, reference |-> "R",
   referenceFp |-> reference, scope |-> "all", transport |-> "T", class |-> "local",
   operations |-> operations, entries |-> reference.entries, created |-> when, rev |-> rev]

Published(kind) ==
  LET rev == changes + 1
  IN CASE kind = "reference" ->
            {Reference(rev, status, records.reference.entries, records.reference.pinned,
                       records.reference.policies)
             : status \in {"active", "paused"}}
       [] kind = "profile" ->
            {Profile(rev, "active", MaxTime), Profile(rev, "suspended", MaxTime + 1)}
       [] OTHER -> {Binding(rev, records.reference, records.profile, operations, now)
                    : operations \in {{"resolve_context"}, {"get_reference"}}}

InFiles == <<records.reference, records.profile, records.binding>>
Loading == call.at \in {"reference", "profile", "binding"}

Put(kind, record) ==
  /\ records' = [records EXCEPT ![kind] = record]
  /\ torn' = torn \ {kind}
  /\ ever' = ever \cup {InFiles'}
  /\ during' = during \cup {InFiles'}

Publish == \E kind \in Kinds : \E record \in Published(kind) :
  Put(kind, record) /\ UNCHANGED disturbed

Restore == \E kind \in Kinds : \E together \in ever :
  LET record == CASE kind = "reference" -> together[1] [] kind = "profile" -> together[2]
                  [] OTHER -> together[3]
  IN /\ record # records[kind]
     /\ Put(kind, record)
     /\ disturbed' = disturbed \cup {"restored"}

Tear == \E kind \in Kinds \ torn :
  torn' = torn \cup {kind} /\ UNCHANGED <<records, ever, during, disturbed>>

\* The call looks at no file twice, so that a change when all is loaded would not
\* be seen by it and is no step.
Owner ==
  /\ changes < MaxChanges /\ Loading
  /\ changes' = changes + 1
  /\ Publish \/ Restore \/ Tear
  /\ UNCHANGED <<now, call>>

Clock ==
  /\ call.outcome = "none"
  /\ \/ now < MaxTime /\ now' = now + 1 /\ UNCHANGED disturbed
     \/ /\ now > 0 /\ "setBack" \notin disturbed
        /\ now' = now - 1 /\ disturbed' = disturbed \cup {"setBack"}
  /\ UNCHANGED <<records, torn, call, changes, ever, during>>

-----------------------------------------------------------------------------
(* The call                                                                *)

World == <<records, torn, now, changes, ever, during, disturbed>>

End(outcome) == call' = [call EXCEPT !.at = "end", !.outcome = outcome]

\* _load_json, three times for the owner's records.
Load(kind, next) ==
  /\ call.at = kind
  /\ IF kind \in torn THEN End("host_error")
     ELSE call' = [call EXCEPT ![kind] = records[kind], !.at = next]
  /\ LET since == IF kind = "reference" THEN {InFiles} ELSE during
         loaded == <<call'.reference, call'.profile, call'.binding>>
     IN IF kind = "binding" THEN ever' = ever \cap {loaded} /\ during' = since \cap {loaded}
        ELSE during' = since /\ UNCHANGED ever
  /\ UNCHANGED <<records, torn, now, changes, disturbed>>

\* The bytes of a record are its own; the selections are those it names.
Chain(evaluated) ==
  [referenceBytes |-> call.reference, profileBytes |-> call.profile, bindingBytes |-> call.binding,
   client |-> call.profile.client, bindingFp |-> call.binding, transport |-> call.binding.transport,
   class |-> call.binding.class, operation |-> "resolve_context", evaluated |-> evaluated]

\* What the gate answers at a moment: a failure, or "PASS".
Gate(moment) ==
  LET decision == Decide(AuthorityIssues(call.reference, call.profile, call.binding, Chain(moment)))
  IN IF decision = "PASS" THEN decision
     ELSE IF decision = "ERROR" THEN "execution_unavailable" ELSE "invalid_input"

\* Seeded fault: the authority of the reading is authority enough to disclose.
GateNoMore(moment) == "PASS"

GateAgain(moment) == Gate(moment)

EntriesOf(q) == IF q.selection = Absent THEN call.reference.entries ELSE q.selection

\* Only a part of what the records permit is served.
Served(q) ==
  /\ q.reference = call.reference.id /\ ~q.hints
  /\ call.reference.policies = "served"
  /\ Len(EntriesOf(q)) = 1 /\ EntriesOf(q)[1] # Pattern
  /\ \A entries \in {call.reference.entries, call.binding.entries} :
       \E i \in DOMAIN entries : entries[i] = EntriesOf(q)[1]

Manifest ==
  [adapter |-> "fs", operations |-> {"read"}, types |-> {"markdown"}, maxItems |-> 1,
   maxBytes |-> HardBytes]
SourceRequest ==
  LET bytes == call.request.maxBytes
  IN [request |-> 2, adapter |-> "fs", operation |-> "read", source |-> "s", scope |-> "all",
      locator |-> EntriesOf(call.request)[1], maxItems |-> 1,
      maxBytes |-> IF bytes < HardBytes THEN bytes ELSE HardBytes]

\* The request, whatever its file holds, and the first gate; the adapter is not
\* called before it.  Neither the request nor the root of the source need be
\* there, nor the clock of the host.
Ask ==
  /\ call.at = "gate"
  /\ \/ \E request \in Requests \ {Broken} :
          LET gate == Gate(now)
          IN call' = [call EXCEPT
               !.request = request, !.evaluated = now,
               !.at = IF gate = "PASS" /\ Served(request) THEN "asked" ELSE "end",
               !.outcome = IF gate # "PASS" THEN gate
                           ELSE IF Served(request) THEN "none" ELSE "invalid_input"]
     \/ call' = [call EXCEPT !.request = Broken, !.at = "end", !.outcome = "invalid_input"]
     \/ End("host_error") \/ End("execution_unavailable")
  /\ UNCHANGED World

\* A manifest that is missing, or not the one of the adapter that was selected.
BadManifest ==
  /\ call.at = "asked"
  /\ \E outcome \in {"source_failure", "validation_failure"} :
       call' = [call EXCEPT !.adapter = "foreign", !.at = "end", !.outcome = outcome]
  /\ UNCHANGED World

\* The read of the source finds any text, or none; an Obsidian vault holds no
\* hidden notes, and the adapters of the host do not read what is too deep.
Fetch == \E adapter \in Adapters, text \in Contents \cup {Absent} :
  /\ call.at = "asked"
  /\ SourceRequest.locator = Deep /\ adapter # "foreign" => text = Absent
  /\ IF adapter = "obsidian" /\ SourceRequest.locator = Hidden THEN End("source_failure")
     ELSE call' = [call EXCEPT !.adapter = adapter, !.at = "fetched", !.text = text]
  /\ UNCHANGED World

ResultFrom(text, observed) ==
  LET q == SourceRequest
  IN [kind |-> "result", request |-> q.request, adapter |-> q.adapter, operation |-> "read",
      source |-> "s", scope |-> "all",
      provenance |-> [source |-> "s", scope |-> "all", adapter |-> q.adapter, operation |-> "read",
                      observed |-> observed, observation |-> 3, fp |-> text],
      limits |-> [maxItems |-> 1, maxBytes |-> q.maxBytes, items |-> 1, bytes |-> Len(text),
                  truncated |-> FALSE],
      payload |-> [locator |-> q.locator, type |-> "markdown", text |-> text, count |-> Len(text),
                   fp |-> text, truncated |-> FALSE]]
ErrorFrom(code, observed) ==
  [kind |-> "error", request |-> 2, adapter |-> "fs", operation |-> "read", code |-> code,
   retryable |-> FALSE, observed |-> observed]

\* Why there is no text.
NoText == {"not_found", "invalid_locator", "unsupported_content_type", "containment_failed",
           "unsupported_encoding"}
Unread == {"source_unavailable"}     \* the read fails, or the file changes under it
Nameless == {"provenance_unavailable"}  \* no id for the observation

\* What may be said of the read: an entry that is too deep is refused before it.
CodesOf(text) ==
  IF text = Absent
  THEN IF SourceRequest.locator = Deep THEN {"limit_exceeded"} ELSE NoText \cup Unread
  ELSE Unread \cup (IF Len(text) > SourceRequest.maxBytes THEN {"limit_exceeded"} ELSE Nameless)

HonestReplies(observed) ==
  {ErrorFrom(code, observed) : code \in CodesOf(call.text)}
  \cup {ResultFrom(text, observed) :
         text \in {text \in {call.text} \ {Absent} : Len(text) <= SourceRequest.maxBytes}}

\* Replies of another adapter that are not what it read.
Codes == NoText \cup Unread \cup Nameless \cup {"limit_exceeded"}
Distorted(reply) ==
  IF reply.kind = "error"
  THEN {[reply EXCEPT !.request = 9], [reply EXCEPT !.observed = 0]}
       \cup {[reply EXCEPT !.code = code] : code \in Codes}
  ELSE {[reply EXCEPT !.request = 9], [reply EXCEPT !.provenance.source = "t"],
        [reply EXCEPT !.payload.locator = "c"], [reply EXCEPT !.provenance.observed = 0],
        [reply EXCEPT !.payload.count = 0],
        [reply EXCEPT !.limits.truncated = TRUE, !.payload.truncated = TRUE]}
       \cup {[reply EXCEPT !.payload.text = text] : text \in Contents \ {reply.payload.text}}
       \cup {ErrorFrom("limit_exceeded", reply.provenance.observed)}

\* The adapter looks at the clock when the read is over; it may fail instead.
Reply ==
  /\ call.at = "fetched"
  /\ \/ \E honest \in HonestReplies(now) :
          \E reply \in {honest} \cup (IF call.adapter = "foreign" THEN Distorted(honest) ELSE {}) :
            call' = [call EXCEPT !.at = "replied", !.reply = reply]
     \/ End("source_failure")
  /\ UNCHANGED World

-----------------------------------------------------------------------------
(* What becomes of the reply                                               *)

Raw == IF call.reply.kind = "result" THEN call.text ELSE Absent
Exchange ==
  [manifest |-> Manifest, request |-> SourceRequest, response |-> call.reply,
   scope |-> "all", bytes |-> Raw]

ResultOf(verified) ==
  LET a == call.reply
      entry == SourceRequest.locator
  IN [kind |-> "result", request |-> call.request.request, reference |-> call.reference.id,
      referenceFp |-> call.reference, binding |-> call.binding.id, source |-> "s",
      entries |-> <<entry>>, observation |-> a.provenance.observation,
      observed |-> a.provenance.observed, evidence |-> 4, verified |-> verified, fp |-> Raw,
      limits |-> [maxItems |-> 1, maxBytes |-> a.limits.maxBytes, items |-> 1, bytes |-> Len(Raw)],
      payload |-> <<[entry |-> entry, type |-> a.payload.type, text |-> a.payload.text,
                     count |-> Len(Raw), fp |-> Raw]>>]
ErrorOf ==
  [kind |-> "error", request |-> call.request.request, reference |-> call.reference.id,
   code |-> call.reply.code, retryable |-> call.reply.retryable, observed |-> call.reply.observed]

Evidence(verified) ==
  [reference |-> call.reference, profile |-> call.profile, binding |-> call.binding,
   authority |-> Chain(call.evaluated), resolved |-> verified, exchanges |-> <<Exchange>>,
   event |-> IF call.reply.kind = "error" THEN Absent
             ELSE [observation |-> call.reply.provenance.observation, evidence |-> 4,
                   observed |-> call.reply.provenance.observed, verified |-> verified]]

\* Seeded fault: every error of the source is passed on.
PassedOnAll(code) == TRUE

\* Errors of the source that are errors of the protocol as well.
PassedOn(code) == code \in {"source_unavailable", "limit_exceeded"}

Receipt(response, verified, outcome) ==
  IF Verdict(call.request, response, Evidence(verified)) = "PASS" THEN outcome
  ELSE "validation_failure"

Disclosable ==
  /\ Raw # <<>> /\ ~call.reply.payload.truncated /\ ~call.reply.limits.truncated
  /\ call.reference.pinned \in {Absent, Raw}

Outcome(verified) ==
  IF ~Exchanged(Manifest, SourceRequest, call.reply, Raw) THEN "validation_failure"
  ELSE IF GateAgain(verified) # "PASS" THEN GateAgain(verified)
  ELSE IF call.reply.kind = "error"
       THEN IF PassedOn(call.reply.code) THEN Receipt(ErrorOf, verified, "protocol_error")
            ELSE "source_failure"
  ELSE IF Disclosable THEN Receipt(ResultOf(verified), verified, "success")
  ELSE "validation_failure"

\* The second gate, at the moment of disclosure.
Settle ==
  /\ call.at = "replied"
  /\ call' = [call EXCEPT !.at = "end", !.verified = now, !.outcome = Outcome(now)]
  /\ UNCHANGED World

\* The clock of the host gives no second moment.
NoClock ==
  /\ call.at = "replied" /\ Exchanged(Manifest, SourceRequest, call.reply, Raw)
  /\ End("execution_unavailable")
  /\ UNCHANGED World

-----------------------------------------------------------------------------
InitialReferences ==
  {Reference(0, "active", <<"a">>, Absent, "served"),
   Reference(0, "active", <<"a", Hidden, Deep, Pattern>>, Absent, "served"),
   Reference(0, "active", <<"a">>, Absent, "other"),
   Reference(0, "active", <<"a">>, CHOOSE text \in Contents : TRUE, "served")}

Init ==
  /\ \E reference \in InitialReferences :
       LET profile == Profile(0, "active", MaxTime)
       IN records = [reference |-> reference, profile |-> profile,
                     binding |-> Binding(0, reference, profile, {"resolve_context"}, 0)]
  /\ torn = {} /\ now = 0 /\ changes = 0
  /\ call = [at |-> "reference", outcome |-> "none", request |-> Absent, adapter |-> Absent,
             reference |-> Absent, profile |-> Absent, binding |-> Absent,
             evaluated |-> Absent, verified |-> Absent, text |-> Absent, reply |-> Absent]
  /\ ever = {InFiles} /\ during = {InFiles} /\ disturbed = {}

Call ==
  \/ Load("reference", "profile") \/ Load("profile", "binding") \/ Load("binding", "gate")
  \/ Ask \/ BadManifest \/ Fetch \/ Reply \/ Settle \/ NoClock

Next == Owner \/ Clock \/ Call

Spec == Init /\ [][Next]_vars

-----------------------------------------------------------------------------
(* Shapes                                                                  *)

Times == 0..MaxTime
Words == {"R", "P", "s", "t", "all", "me", "T", "local", "resolve_context"}
EntryLists == {<<"a">>, <<"a", Hidden, Deep, Pattern>>}
Lists == EntryLists \cup {<<locator>> : locator \in Locators}
References ==
  [id : {"R"}, source : {"s"}, scope : {"all"}, status : {"active", "paused"}, clients : {{"me"}},
   entries : EntryLists, registered : {0}, pinned : Contents \cup {Absent},
   policies : {"served", "other"}, rev : 0..MaxChanges]
Profiles ==
  [id : {"P"}, client : {"me"}, status : {"active", "suspended"}, created : {0},
   expires : 0..MaxTime + 1, revoked : {Absent}, rev : 0..MaxChanges]
Bindings ==
  [id : {"B"}, profile : {"P"}, profileFp : Profiles, reference : {"R"}, referenceFp : References,
   scope : {"all"}, transport : {"T"}, class : {"local"}, created : Times, rev : 0..MaxChanges,
   operations : {{"resolve_context"}, {"get_reference"}}, entries : EntryLists]

SourceRequests ==
  [request : {2}, adapter : {"fs"}, operation : {"read"}, source : {"s"}, scope : {"all"},
   locator : Locators, maxItems : {1}, maxBytes : Nat]
Results ==
  [kind : {"result"}, request : {2, 9}, adapter : {"fs"}, operation : {"read"}, source : {"s"},
   scope : {"all"},
   provenance : [source : {"s", "t"}, scope : {"all"}, adapter : {"fs"}, operation : {"read"},
                 observed : Times, observation : {3}, fp : Contents],
   limits : [maxItems : {1}, maxBytes : Nat, items : {1}, bytes : Nat, truncated : BOOLEAN],
   payload : [locator : Locators, type : {"markdown"}, text : Contents, count : Nat,
              fp : Contents, truncated : BOOLEAN]]
Failures ==
  [kind : {"error"}, request : {2, 9}, adapter : {"fs"}, operation : {"read"},
   code : Codes, retryable : {FALSE}, observed : Times]

Manifests == [adapter : {"fs"}, operations : {{"read"}}, types : {{"markdown"}}, maxItems : {1},
              maxBytes : {HardBytes}]
Observations ==
  [manifest : Manifests, request : SourceRequests, response : Results \cup Failures,
   scope : {"all"}, bytes : Contents \cup {Absent}]
Events == [observation : {3}, evidence : {4}, observed : Times, verified : Times]
Disclosures ==
  [kind : {"result"}, request : {1}, reference : {"R"}, referenceFp : References, binding : {"B"},
   source : {"s"}, entries : [1..1 -> Locators], observation : {3}, observed : Times,
   evidence : {4}, verified : Times, fp : Contents,
   limits : [maxItems : {1}, maxBytes : Nat, items : {1}, bytes : Nat],
   payload : [1..1 -> [entry : Locators, type : {"markdown"}, text : Contents, count : Nat,
                       fp : Contents]]]
Refusals ==
  [kind : {"error"}, request : {1}, reference : {"R"}, retryable : {FALSE}, observed : Times,
   code : Codes]

Calls ==
  [at : {"reference", "profile", "binding", "gate", "asked", "fetched", "replied", "end"},
   outcome : {"none", "host_error", "execution_unavailable", "invalid_input", "source_failure",
              "validation_failure", "protocol_error", "success"},
   request : Requests \cup {Absent}, adapter : Adapters \cup {Absent},
   reference : References \cup {Absent}, profile : Profiles \cup {Absent},
   binding : Bindings \cup {Absent}, evaluated : Times \cup {Absent},
   verified : Times \cup {Absent}, text : Contents \cup {Absent},
   reply : Results \cup Failures \cup {Absent}]

\* What marks a part as absent or spoiled is no value of the kind it stands for.
ASSUME MarksAreApart == \A mark \in {Absent, Broken, TooLarge} :
  /\ mark \notin Nat \cup Words \cup Lists \cup Contents \cup (Requests \ {Broken})
  /\ mark \notin References \cup Profiles \cup Bindings
  /\ mark \notin Manifests \cup SourceRequests \cup Results \cup Failures
  /\ mark \notin Events \cup Disclosures \cup Refusals \cup [1..1 -> Observations]

TypeOK ==
  /\ records \in [reference : References, profile : Profiles, binding : Bindings]
  /\ torn \subseteq Kinds /\ now \in Times /\ changes \in 0..MaxChanges
  /\ call \in Calls
  /\ ever \subseteq References \X Profiles \X Bindings /\ during \subseteq ever
  /\ disturbed \subseteq {"restored", "setBack"}

-----------------------------------------------------------------------------
(* Properties                                                              *)

Together == <<call.reference, call.profile, call.binding>>
Agreed == call.binding.referenceFp = call.reference /\ call.binding.profileFp = call.profile
Permitted ==
  /\ call.reference.status = "active" /\ call.profile.status = "active"
  /\ "resolve_context" \in call.binding.operations

\* The owner had these records in its files together, and they hold at a moment.
InForce(moment) ==
  /\ Together \in ever /\ Agreed /\ Permitted
  /\ call.binding.created <= moment /\ moment < call.profile.expires

Observed ==
  IF call.reply.kind = "error" THEN call.reply.observed ELSE call.reply.provenance.observed

\* Nothing is asked of the source, and nothing disclosed, but under records that
\* were in the files together, at one moment while they were loaded unless the
\* owner put an earlier record back, though each is read by itself; that were in
\* force when the source was asked and still are when the answer is given; and
\* in this order of the times.  What is disclosed is all that was read, of the
\* entry the request named, within its limit (resolve_registered_context).
DisclosedInForce ==
  /\ (call.at \in {"asked", "fetched", "replied"} \/ call.outcome \in {"success", "protocol_error"}) =>
       /\ InForce(call.evaluated)
       /\ "restored" \notin disturbed => Together \in during
  /\ call.outcome \in {"success", "protocol_error"} =>
       /\ InForce(call.verified)
       /\ call.evaluated <= Observed /\ Observed <= call.verified
  /\ call.outcome = "success" =>
       /\ call.reply.payload.text = call.text /\ Len(call.text) <= call.request.maxBytes
       /\ Len(call.text) <= HardBytes
       /\ call.reference.pinned \in {Absent, call.text}
       /\ call.reply.payload.locator = SourceRequest.locator

\* A failure says what went wrong.  The input is blamed only if the records were
\* not in force, or the request is none that is served; the evidence only if the
\* adapter is another one than the host's, the clock was set back or the content is
\* empty or not the registered one; and where the adapter is the host's own, a limit
\* only if the text is longer than the request or the adapter allows, or its entry
\* too deep, and the source only for what it answered itself
\* (RuntimeFailureCategory).  So a call nobody disturbs succeeds.
FailuresSayWhy ==
  /\ call.outcome = "invalid_input" =>
       IF call.verified = Absent
       THEN \/ call.request = Broken \/ ~InForce(call.evaluated)
            \/ ~Served(call.request)
       ELSE ~InForce(call.verified)
  /\ call.outcome = "validation_failure" =>
       \/ call.adapter = "foreign" \/ "setBack" \in disturbed
       \/ call.text = <<>> \/ call.reference.pinned \notin {Absent, call.text}
  /\ (call.outcome = "protocol_error" /\ call.reply.code = "limit_exceeded"
      /\ call.adapter # "foreign") =>
       IF call.text = Absent THEN SourceRequest.locator = Deep
       ELSE Len(call.text) > call.request.maxBytes \/ Len(call.text) > HardBytes
  /\ (call.outcome = "source_failure" /\ call.reply # Absent /\ call.adapter # "foreign") =>
       \/ call.text = Absent /\ call.reply.code \in NoText
       \/ call.text # Absent /\ call.reply.code \in Nameless
=============================================================================
