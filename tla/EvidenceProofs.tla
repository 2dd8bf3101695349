--------------------------- MODULE EvidenceProofs ---------------------------
(***************************************************************************)
(* Theorems about Evidence: what an accepted answer says about the world,  *)
(* for any number of changes by the owner and any parts withheld.          *)
(***************************************************************************)
EXTENDS Evidence, FiniteSetTheorems, TLAPS

\* A binding names the scope of the reference it was made for.
BindingIsMade == binding.scope = binding.referenceFp.scope

\* The issues of the chain of authority, as the check sees it, and of the answer.
Chain == AuthorityIssues(Context.reference, Context.profile, Context.binding, Context.authority)
Issues == ResolveIssues(Query, answer, Context)

Answers ==
  {ResultOf("a", Text)} \cup {ErrorOf(code) : code \in Reasons} \cup Dishonest

IInv ==
  /\ TypeOK /\ BindingIsMade
  /\ answer # Absent => /\ source # Absent /\ answer \in Answers
                        /\ verdict = Verdict(Query, answer, Context)

-----------------------------------------------------------------------------
(* Parts of the evidence                                                   *)

LEMMA PassIsClean == ASSUME NEW issues PROVE Decide(issues) = "PASS" <=> issues = {}
BY DEF Decide

\* A list narrows itself.
LEMMA NarrowsItself == ASSUME NEW s PROVE Narrows(s, s)
<1> DEFINE f == [i \in DOMAIN s |-> i]
<1>1. /\ f \in [DOMAIN s -> DOMAIN s]
      /\ \A i, j \in DOMAIN s : i < j => f[i] < f[j]
      /\ \A i \in DOMAIN s : s[i] = s[f[i]]
  OBVIOUS
<1>2. QED
  BY <1>1 DEF Narrows

\* What is supplied is no mark, and no mark is usable.
LEMMA ValuesAreUsable ==
  /\ \A v \in References \cup Profiles \cup Bindings : Usable(v)
  /\ \A v \in {Query, Manifest, SourceRequest, Event} \cup SourceAnswers : Usable(v)
  /\ \A v \in Disclosures \cup Refusals : Usable(v)
  /\ \A v \in Nat \cup Words \cup Statuses \cup {Text, OtherText, <<"a">>} : Usable(v)
  /\ ~Usable(Absent)
BY MarksAreApart DEF Usable

LEMMA SuppliedOrAbsent ==
  ASSUME NEW part, NEW v
  PROVE  /\ part \in withheld => Supply(part, v) = Absent
         /\ part \notin withheld => Supply(part, v) = v
BY DEF Supply

\* A record of the owner, or nothing in its place, has nothing wrong with it;
\* neither have the bytes supplied for it.
LEMMA PartsAreMissingOrSound ==
  ASSUME NEW r, NEW bytes, NEW v, Usable(v), r \in {v, Absent}, bytes \in {v, Absent}
  PROVE  /\ PartIssues(r) = Issue(r = Absent, "missing")
         /\ BytesIssues(bytes, r) = Issue(bytes = Absent, "missing")
         /\ FingerprintOf(bytes) = bytes
<1>1. r # Broken /\ r # TooLarge /\ bytes # Broken /\ bytes # TooLarge
  BY MarksDiffer DEF Usable
<1>2. QED
  BY <1>1 DEF PartIssues, BytesIssues, Issue, FingerprintOf, Usable

\* The parts of the chain as the check gets them: each what it is in the world,
\* or nothing.
Parted(r, p, b, x) ==
  /\ r = Supply("reference", reference) /\ p = Supply("profile", profile)
  /\ b = Supply("binding", binding)
  /\ x.referenceBytes = Supply("referenceBytes", reference)
  /\ x.profileBytes = Supply("profileBytes", profile)
  /\ x.bindingBytes = Supply("bindingBytes", binding)
  /\ x.client = Supply("client", selection.client)
  /\ x.bindingFp = Supply("bindingFp", selection.binding)
  /\ x.transport = Supply("transport", selection.transport)
  /\ x.class = Supply("class", "local") /\ x.operation = "resolve_context"
  /\ x.evaluated = Supply("evaluated", Evaluated)

LEMMA ContextIsParted ==
  Parted(Context.reference, Context.profile, Context.binding, Context.authority)
BY DEF Parted, Context

\* What the shapes say of the single fields.
LEMMA FieldsOfRecords ==
  ASSUME TypeOK
  PROVE  /\ reference.id = "R" /\ reference.source = "s" /\ reference.scope \in {"all", "some"}
         /\ reference.clients \in {{"me"}, {"you"}} /\ reference.entries = Entries
         /\ reference.registered = 1 /\ reference.status \in Statuses
         /\ profile.id = "P" /\ profile.client \in {"me", "you"} /\ profile.created = 1
         /\ profile.expires \in {9, 4} /\ profile.revoked = Absent
         /\ profile.status \in {"active", "suspended"}
         /\ binding.id = "B" /\ binding.profile = "P" /\ binding.reference = "R"
         /\ binding.profileFp \in Profiles /\ binding.referenceFp \in References
         /\ binding.scope \in {"all", "some"} /\ binding.transport = "T"
         /\ binding.class = "local" /\ binding.entries = <<"a">> /\ binding.created \in {2, 3}
         /\ binding.operations \in {{"resolve_context"}, {"get_reference"}}
         /\ selection.client \in {"me", "you"} /\ selection.transport \in {"T", "U"}
         /\ selection.binding \in Bindings
<1>1. /\ reference.id = "R" /\ reference.source = "s" /\ reference.scope \in {"all", "some"}
      /\ reference.clients \in {{"me"}, {"you"}} /\ reference.entries = Entries
      /\ reference.registered = 1 /\ reference.status \in Statuses
  BY DEF TypeOK, References
<1>2. /\ profile.id = "P" /\ profile.client \in {"me", "you"} /\ profile.created = 1
      /\ profile.expires \in {9, 4} /\ profile.revoked = Absent
      /\ profile.status \in {"active", "suspended"}
  BY DEF TypeOK, Profiles, Evaluated
<1>3. /\ binding.id = "B" /\ binding.profile = "P" /\ binding.reference = "R"
      /\ binding.profileFp \in Profiles /\ binding.referenceFp \in References
      /\ binding.scope \in {"all", "some"} /\ binding.transport = "T"
      /\ binding.class = "local" /\ binding.entries = <<"a">> /\ binding.created \in {2, 3}
      /\ binding.operations \in {{"resolve_context"}, {"get_reference"}}
  BY DEF TypeOK, Bindings
<1>4. /\ selection.client \in {"me", "you"} /\ selection.transport \in {"T", "U"}
      /\ selection.binding \in Bindings
  BY DEF TypeOK
<1>5. QED
  BY <1>1, <1>2, <1>3, <1>4

LEMMA SuppliedOfChain ==
  ASSUME TypeOK, NEW r, NEW p, NEW b, NEW x, Parted(r, p, b, x)
  PROVE  SuppliedIssues(r, p, b, x) = Issue(withheld \cap AuthorityParts # {}, "missing")
<1>1. /\ Usable(reference) /\ Usable(profile) /\ Usable(binding) /\ Usable(selection.client)
      /\ Usable(selection.binding) /\ Usable(selection.transport) /\ Usable("local")
      /\ Usable("resolve_context") /\ Usable(Evaluated)
  BY ValuesAreUsable, FieldsOfRecords DEF TypeOK, Words, Evaluated
<1>2. \A part, v : Usable(v) => /\ Supply(part, v) \in {v, Absent}
                               /\ Supply(part, v) = Absent <=> part \in withheld
  BY SuppliedOrAbsent, ValuesAreUsable
<1>3. /\ PartIssues(r) = Issue("reference" \in withheld, "missing")
      /\ PartIssues(p) = Issue("profile" \in withheld, "missing")
      /\ PartIssues(b) = Issue("binding" \in withheld, "missing")
      /\ BytesIssues(x.referenceBytes, r) = Issue("referenceBytes" \in withheld, "missing")
      /\ BytesIssues(x.profileBytes, p) = Issue("profileBytes" \in withheld, "missing")
      /\ BytesIssues(x.bindingBytes, b) = Issue("bindingBytes" \in withheld, "missing")
  <2>1. /\ r \in {reference, Absent} /\ x.referenceBytes \in {reference, Absent}
        /\ p \in {profile, Absent} /\ x.profileBytes \in {profile, Absent}
        /\ b \in {binding, Absent} /\ x.bindingBytes \in {binding, Absent}
    BY <1>1, SuppliedOrAbsent DEF Parted
  <2>2. /\ r = Absent <=> "reference" \in withheld
        /\ x.referenceBytes = Absent <=> "referenceBytes" \in withheld
        /\ p = Absent <=> "profile" \in withheld
        /\ x.profileBytes = Absent <=> "profileBytes" \in withheld
        /\ b = Absent <=> "binding" \in withheld
        /\ x.bindingBytes = Absent <=> "bindingBytes" \in withheld
    BY <1>1, SuppliedOrAbsent DEF Parted, Usable
  <2>3. /\ PartIssues(r) = Issue(r = Absent, "missing")
        /\ BytesIssues(x.referenceBytes, r) = Issue(x.referenceBytes = Absent, "missing")
    BY <1>1, <2>1, PartsAreMissingOrSound
  <2>4. /\ PartIssues(p) = Issue(p = Absent, "missing")
        /\ BytesIssues(x.profileBytes, p) = Issue(x.profileBytes = Absent, "missing")
    BY <1>1, <2>1, PartsAreMissingOrSound
  <2>5. /\ PartIssues(b) = Issue(b = Absent, "missing")
        /\ BytesIssues(x.bindingBytes, b) = Issue(x.bindingBytes = Absent, "missing")
    BY <1>1, <2>1, PartsAreMissingOrSound
  <2>6. QED
    BY <2>2, <2>3, <2>4, <2>5 DEF Issue
<1>4. Absent \in {x.client, x.bindingFp, x.transport, x.class, x.operation, x.evaluated}
        <=> withheld \cap {"client", "bindingFp", "transport", "class", "evaluated"} # {}
  <2>1. /\ x.client = Absent <=> "client" \in withheld
        /\ x.bindingFp = Absent <=> "bindingFp" \in withheld
        /\ x.transport = Absent <=> "transport" \in withheld
        /\ x.class = Absent <=> "class" \in withheld
        /\ x.evaluated = Absent <=> "evaluated" \in withheld
        /\ x.operation # Absent
    BY <1>1, <1>2 DEF Parted, Usable
  <2>2. QED
    BY <2>1
<1>5. QED
  BY <1>3, <1>4 DEF SuppliedIssues, AuthorityParts, Issue

\* What the check of the chain finds: each relation that does not hold in the
\* world, if both its sides are there, and otherwise only that a part is missing.
Both(s, t) == s \notin withheld /\ t \notin withheld
ChainIs(found) ==
  /\ found \subseteq
       {"missing", "client_id", "profile_fingerprint", "reference_fingerprint",
        "binding_fingerprint", "access_scope", "transport_binding", "reference_not_active",
        "client_not_allowed", "profile_not_active", "operation_not_allowed", "profile_expired"}
  /\ "missing" \in found <=> withheld \cap AuthorityParts # {}
  /\ "client_id" \in found <=>
       Both("client", "profile") /\ selection.client # profile.client
  /\ "profile_fingerprint" \in found <=>
       Both("binding", "profileBytes") /\ binding.profileFp # profile
  /\ "reference_fingerprint" \in found <=>
       Both("binding", "referenceBytes") /\ binding.referenceFp # reference
  /\ "binding_fingerprint" \in found <=>
       Both("bindingFp", "bindingBytes") /\ selection.binding # binding
  /\ "access_scope" \in found <=>
       Both("binding", "reference") /\ binding.scope # reference.scope
  /\ "transport_binding" \in found <=>
       Both("transport", "binding") /\ selection.transport # binding.transport
  /\ "reference_not_active" \in found <=>
       "reference" \notin withheld /\ reference.status # "active"
  /\ "client_not_allowed" \in found <=>
       Both("reference", "profile") /\ profile.client \notin reference.clients
  /\ "profile_not_active" \in found <=>
       "profile" \notin withheld /\ profile.status # "active"
  /\ "operation_not_allowed" \in found <=>
       "binding" \notin withheld /\ "resolve_context" \notin binding.operations
  /\ "profile_expired" \in found <=>
       Both("profile", "evaluated") /\ profile.expires <= Evaluated

\* Two values disagree if both are there and they are not the same.
LEMMA Disagreement ==
  ASSUME NEW v, NEW w, Usable(v), Usable(w), NEW s, NEW t
  PROVE  Differ(Supply(s, v), Supply(t, w)) <=> Both(s, t) /\ v # w
BY SuppliedOrAbsent DEF Differ, Both, Usable, Supply

LEMMA FieldIsSupplied ==
  ASSUME NEW part, NEW v, Usable(v), NEW name
  PROVE  Field(Supply(part, v), name) = Supply(part, v[name])
BY ValuesAreUsable, SuppliedOrAbsent DEF Field, Supply

LEMMA DisagreementsOfChain ==
  ASSUME TypeOK, NEW r, NEW p, NEW b, NEW x, Parted(r, p, b, x)
  PROVE  /\ Disagreeing(Identities(r, p, b, x)) =
              Issue(Both("client", "profile") /\ selection.client # profile.client, "client_id")
         /\ Disagreeing(Fingerprints(b, x)) =
              Issue(Both("binding", "profileBytes") /\ binding.profileFp # profile,
                    "profile_fingerprint")
              \cup Issue(Both("binding", "referenceBytes") /\ binding.referenceFp # reference,
                         "reference_fingerprint")
              \cup Issue(Both("bindingFp", "bindingBytes") /\ selection.binding # binding,
                         "binding_fingerprint")
         /\ Disagreeing(Routes(r, b, x)) =
              Issue(Both("binding", "reference") /\ binding.scope # reference.scope,
                    "access_scope")
              \cup Issue(Both("transport", "binding") /\ selection.transport # binding.transport,
                         "transport_binding")
<1>1. /\ Usable(reference) /\ Usable(profile) /\ Usable(binding) /\ Usable(selection.client)
      /\ Usable(selection.binding) /\ Usable(selection.transport) /\ Usable("local")
      /\ Usable("P") /\ Usable("R") /\ Usable("T")
      /\ Usable(profile.client) /\ Usable(binding.scope) /\ Usable(reference.scope)
      /\ Usable(binding.profileFp) /\ Usable(binding.referenceFp)
  BY ValuesAreUsable, FieldsOfRecords DEF TypeOK, Words
<1>2. \A name : /\ Field(r, name) = Supply("reference", reference[name])
                /\ Field(p, name) = Supply("profile", profile[name])
                /\ Field(b, name) = Supply("binding", binding[name])
  BY <1>1, FieldIsSupplied DEF Parted
<1>3. /\ FingerprintOf(x.profileBytes) = x.profileBytes
      /\ FingerprintOf(x.referenceBytes) = x.referenceBytes
      /\ FingerprintOf(x.bindingBytes) = x.bindingBytes
  BY <1>1, MarksDiffer, SuppliedOrAbsent DEF Parted, FingerprintOf, Usable
<1>4. ASSUME NEW v, Usable(v), NEW s, NEW t
      PROVE  ~Differ(Supply(s, v), Supply(t, v))
  BY <1>4, Disagreement
<1>5. Disagreeing(Identities(r, p, b, x)) =
        Issue(Both("client", "profile") /\ selection.client # profile.client, "client_id")
  <2>1. /\ ~Differ(Field(b, "profile"), Field(p, "id"))
        /\ ~Differ(Field(b, "reference"), Field(r, "id"))
    BY <1>1, <1>2, <1>4, FieldsOfRecords
  <2>2. Differ(x.client, Field(p, "client")) <=>
          Both("client", "profile") /\ selection.client # profile.client
    BY <1>1, <1>2, Disagreement DEF Parted
  <2>3. QED
    BY <2>1, <2>2 DEF Disagreeing, Identities, Issue
<1>6. Disagreeing(Fingerprints(b, x)) =
        Issue(Both("binding", "profileBytes") /\ binding.profileFp # profile,
              "profile_fingerprint")
        \cup Issue(Both("binding", "referenceBytes") /\ binding.referenceFp # reference,
                   "reference_fingerprint")
        \cup Issue(Both("bindingFp", "bindingBytes") /\ selection.binding # binding,
                   "binding_fingerprint")
  <2>1. /\ Differ(Field(b, "profileFp"), FingerprintOf(x.profileBytes)) <=>
             Both("binding", "profileBytes") /\ binding.profileFp # profile
        /\ Differ(Field(b, "referenceFp"), FingerprintOf(x.referenceBytes)) <=>
             Both("binding", "referenceBytes") /\ binding.referenceFp # reference
        /\ Differ(x.bindingFp, FingerprintOf(x.bindingBytes)) <=>
             Both("bindingFp", "bindingBytes") /\ selection.binding # binding
    <3>1. /\ Field(b, "profileFp") = Supply("binding", binding.profileFp)
          /\ Field(b, "referenceFp") = Supply("binding", binding.referenceFp)
          /\ x.profileBytes = Supply("profileBytes", profile)
          /\ x.referenceBytes = Supply("referenceBytes", reference)
          /\ x.bindingBytes = Supply("bindingBytes", binding)
          /\ x.bindingFp = Supply("bindingFp", selection.binding)
      BY <1>2 DEF Parted
    <3>2. QED
      BY <1>1, <1>3, <3>1, Disagreement
  <2>2. QED
    BY <2>1 DEF Disagreeing, Fingerprints, Issue
<1>7. Disagreeing(Routes(r, b, x)) =
        Issue(Both("binding", "reference") /\ binding.scope # reference.scope,
              "access_scope")
        \cup Issue(Both("transport", "binding") /\ selection.transport # binding.transport,
                   "transport_binding")
  <2>1. ~Differ(x.class, Field(b, "class"))
    BY <1>1, <1>2, <1>4, FieldsOfRecords DEF Parted
  <2>2. /\ Differ(Field(b, "scope"), Field(r, "scope")) <=>
             Both("binding", "reference") /\ binding.scope # reference.scope
        /\ Differ(x.transport, Field(b, "transport")) <=>
             Both("transport", "binding") /\ selection.transport # binding.transport
    BY <1>1, <1>2, Disagreement, FieldsOfRecords DEF Parted
  <2>3. QED
    BY <2>1, <2>2 DEF Disagreeing, Routes, Issue
<1>8. QED
  BY <1>5, <1>6, <1>7

LEMMA EntriesAreInScope == Narrows(<<"a">>, Entries)
<1> DEFINE f == [i \in {1} |-> 1]
<1>1. /\ f \in [DOMAIN <<"a">> -> DOMAIN Entries]
      /\ \A i, j \in DOMAIN <<"a">> : i < j => f[i] < f[j]
      /\ \A i \in DOMAIN <<"a">> : <<"a">>[i] = Entries[f[i]]
  BY DEF Entries
<1>2. QED
  BY <1>1 DEF Narrows

LEMMA RecordsOfChain ==
  ASSUME TypeOK, NEW r, NEW p, NEW b, NEW x, Parted(r, p, b, x)
  PROVE  /\ RecordIssues(r, p, b, x) =
              Issue("reference" \notin withheld /\ reference.status # "active", "reference_not_active")
              \cup Issue(Both("reference", "profile") /\ profile.client \notin reference.clients,
                         "client_not_allowed")
              \cup Issue("profile" \notin withheld /\ profile.status # "active", "profile_not_active")
              \cup Issue("binding" \notin withheld /\ "resolve_context" \notin binding.operations,
                         "operation_not_allowed")
         /\ TimeIssues(r, p, b, x) =
              Issue(Both("profile", "evaluated") /\ profile.expires <= Evaluated, "profile_expired")
<1>1. /\ Usable(reference) /\ Usable(profile) /\ Usable(binding)
      /\ "resolve_context" # Absent
      /\ \A n \in Nat : Usable(n)
  BY ValuesAreUsable DEF TypeOK, Words, Usable
<1>2. /\ Usable(r) <=> "reference" \notin withheld
      /\ Usable(p) <=> "profile" \notin withheld
      /\ Usable(b) <=> "binding" \notin withheld
      /\ Usable(r) => r = reference
      /\ Usable(p) => p = profile
      /\ Usable(b) => b = binding
  BY <1>1, ValuesAreUsable, SuppliedOrAbsent DEF Parted
<1>3. RecordIssues(r, p, b, x) =
        Issue("reference" \notin withheld /\ reference.status # "active", "reference_not_active")
        \cup Issue(Both("reference", "profile") /\ profile.client \notin reference.clients,
                   "client_not_allowed")
        \cup Issue("profile" \notin withheld /\ profile.status # "active", "profile_not_active")
        \cup Issue("binding" \notin withheld /\ "resolve_context" \notin binding.operations,
                   "operation_not_allowed")
  <2>1. ~(Usable(r) /\ r.clients = {})
    BY <1>2, FieldsOfRecords
  <2>2. ~(Usable(r) /\ Usable(b) /\ ~Narrows(b.entries, r.entries))
    BY <1>2, EntriesAreInScope, FieldsOfRecords
  <2>3. x.operation = "resolve_context"
    BY DEF Parted
  <2>4. QED
    BY <1>1, <1>2, <2>1, <2>2, <2>3 DEF RecordIssues, Issue, Both
<1>4. TimeIssues(r, p, b, x) =
        Issue(Both("profile", "evaluated") /\ profile.expires <= Evaluated, "profile_expired")
  <2> DEFINE created == Field(p, "created")
             registered == Field(r, "registered")
             bound == Field(b, "created")
             expires == Field(p, "expires")
  <2>1. /\ Field(p, "revoked") = Absent /\ created \in {1, Absent} /\ registered \in {1, Absent}
        /\ bound \in {2, 3, Absent} /\ expires \in {9, 4, Absent}
        /\ x.evaluated \in {4, Absent}
        /\ expires # Absent <=> "profile" \notin withheld
        /\ expires # Absent => expires = profile.expires
        /\ x.evaluated # Absent <=> "evaluated" \notin withheld
    <3>1. /\ Field(p, "revoked") = Absent /\ created \in {1, Absent}
          /\ registered \in {1, Absent} /\ bound \in {2, 3, Absent}
      BY <1>2, FieldsOfRecords DEF Field
    <3>2. /\ expires \in {9, 4, Absent}
          /\ expires # Absent <=> "profile" \notin withheld
          /\ expires # Absent => expires = profile.expires
      <4>1. 9 # Absent /\ 4 # Absent
        BY <1>1 DEF Usable
      <4>2. QED
        BY <1>2, <4>1, FieldsOfRecords DEF Field
    <3>3. x.evaluated \in {4, Absent} /\ (x.evaluated # Absent <=> "evaluated" \notin withheld)
      <4>1. x.evaluated = Supply("evaluated", 4) /\ 4 # Absent
        BY <1>1 DEF Parted, Evaluated, Usable
      <4>2. QED
        BY <4>1, SuppliedOrAbsent
    <3>4. QED
      BY <3>1, <3>2, <3>3
  <2> HIDE DEF created, registered, bound, expires
  <2>2. /\ ~Late(created, bound) /\ ~Late(registered, bound)
        /\ \A t \in {bound, created, registered, Absent} : ~Late(t, x.evaluated)
        /\ ~Late(created, expires) /\ ~Late(created, Absent)
    BY <2>1 DEF Late
  <2>3. Expired(p, x) <=> Both("profile", "evaluated") /\ profile.expires <= Evaluated
    BY <2>1 DEF Expired, expires, Both, Evaluated
  <2>4. QED
    BY <2>1, <2>2, <2>3 DEF TimeIssues, Issue, created, registered, bound, expires
<1>5. QED
  BY <1>3, <1>4

LEMMA ChainIsFound == ASSUME TypeOK PROVE ChainIs(Chain)
<1> DEFINE r == Context.reference
           p == Context.profile
           b == Context.binding
           x == Context.authority
<1>1. Parted(r, p, b, x)
  BY ContextIsParted
<1> HIDE DEF r, p, b, x
<1> DEFINE found == AuthorityIssues(r, p, b, x)
<1>2. found = Issue(withheld \cap AuthorityParts # {}, "missing")
              \cup Disagreeing(Identities(r, p, b, x)) \cup Disagreeing(Fingerprints(b, x))
              \cup Disagreeing(Routes(r, b, x)) \cup RecordIssues(r, p, b, x)
              \cup TimeIssues(r, p, b, x)
  BY <1>1, SuppliedOfChain DEF AuthorityIssues
<1> HIDE DEF found
<1>3. ChainIs(found)
  BY <1>1, <1>2, DisagreementsOfChain, RecordsOfChain DEF ChainIs, Issue
<1>4. QED
  BY <1>3 DEF Chain, found, r, p, b, x

\* Under the authority of the owner nothing is wrong with the chain, and without
\* it something is.
LEMMA AuthorityIsFound ==
  ASSUME TypeOK, BindingIsMade, NEW found, ChainIs(found)
  PROVE  /\ MayResolve => found \subseteq {"missing"}
         /\ withheld \cap AuthorityParts = {} => (found = {} <=> MayResolve)
         /\ Carried(found) = Issue(withheld \cap AuthorityParts # {}, "missing")
         /\ Decide(found) = "REJECT" <=> ~(found \subseteq {"missing"})
         /\ Decide(found) # "ERROR"
<1>1. MayResolve => /\ selection.client = profile.client /\ binding.profileFp = profile
                    /\ binding.referenceFp = reference /\ selection.binding = binding
                    /\ binding.scope = reference.scope /\ selection.transport = binding.transport
                    /\ reference.status = "active" /\ profile.client \in reference.clients
                    /\ profile.status = "active" /\ "resolve_context" \in binding.operations
                    /\ ~(profile.expires <= Evaluated)
  <2>1. profile.expires \in Nat /\ Evaluated \in Nat
    BY FieldsOfRecords DEF Evaluated
  <2>2. QED
    BY <2>1 DEF MayResolve, BindingHolds, BindingIsMade
<1>2. MayResolve => found \subseteq {"missing"}
  BY <1>1 DEF ChainIs
<1>3. ASSUME withheld \cap AuthorityParts = {}, found = {} PROVE MayResolve
  <2>1. /\ selection.client = profile.client /\ binding.profileFp = profile
        /\ binding.referenceFp = reference /\ selection.binding = binding
        /\ selection.transport = binding.transport
        /\ reference.status = "active" /\ profile.client \in reference.clients
        /\ profile.status = "active" /\ "resolve_context" \in binding.operations
        /\ ~(profile.expires <= Evaluated)
    BY <1>3 DEF ChainIs, Both, AuthorityParts
  <2>2. profile.expires \in Nat /\ Evaluated \in Nat
    BY FieldsOfRecords DEF Evaluated
  <2>3. QED
    BY <2>1, <2>2 DEF MayResolve, BindingHolds
<1>4. withheld \cap AuthorityParts = {} => "missing" \notin found
  BY DEF ChainIs
<1>5. Carried(found) = Issue(withheld \cap AuthorityParts # {}, "missing")
  BY DEF ChainIs, Carried, Issue
<1>6. /\ Decide(found) = "REJECT" <=> ~(found \subseteq {"missing"})
      /\ Decide(found) # "ERROR"
  BY DEF ChainIs, Decide, Incomplete, Unavailable
<1>7. QED
  BY <1>2, <1>3, <1>4, <1>5, <1>6

-----------------------------------------------------------------------------
(* The answer                                                              *)

LEMMA AnswersAreShaped ==
  ASSUME TypeOK, NEW a \in Answers
  PROVE  /\ a \in Disclosures \cup Refusals /\ Usable(a)
         /\ a.kind = "result" => a \in Disclosures
         /\ a.kind # "result" => a \in Refusals /\ a.kind = "error"
<1>1. \A entry \in {"a", "b"}, text \in {Text, OtherText} :
        /\ ResultOf(entry, text) \in Disclosures
        /\ [ResultOf(entry, text) EXCEPT !.request = 9] \in Disclosures
        /\ [ResultOf(entry, text) EXCEPT !.verified = 8] \in Disclosures
        /\ [ResultOf(entry, text) EXCEPT !.referenceFp = FirstReference] \in Disclosures
  <2> SUFFICES ASSUME NEW entry \in {"a", "b"}, NEW text \in {Text, OtherText}
               PROVE  /\ ResultOf(entry, text) \in Disclosures
                      /\ [ResultOf(entry, text) EXCEPT !.request = 9] \in Disclosures
                      /\ [ResultOf(entry, text) EXCEPT !.verified = 8] \in Disclosures
                      /\ [ResultOf(entry, text) EXCEPT !.referenceFp = FirstReference] \in Disclosures
    OBVIOUS
  <2> DEFINE item == [entry |-> entry, type |-> "markdown", text |-> text, count |-> 1, fp |-> text]
  <2>1. /\ <<item>> \in [1..1 -> [entry : {"a", "b"}, type : {"markdown"}, text : {Text, OtherText},
                                  count : {1}, fp : {Text, OtherText}]]
        /\ <<entry>> \in {<<"a">>, <<"b">>}
    OBVIOUS
  <2>2. reference \in References /\ FirstReference \in References
    BY DEF TypeOK, FirstReference, References, Statuses
  <2> HIDE DEF item
  <2>3. ResultOf(entry, text) \in Disclosures
    BY <2>1, <2>2 DEF ResultOf, Disclosures, item
  <2>4. QED
    BY <2>2, <2>3 DEF Disclosures
<1>2. \A code \in Reasons : /\ ErrorOf(code) \in Refusals
                            /\ [ErrorOf(code) EXCEPT !.retryable = TRUE] \in Refusals
                            /\ [ErrorOf(code) EXCEPT !.observed = 8] \in Refusals
  BY DEF ErrorOf, Refusals
<1>3. "limit_exceeded" \in Reasons /\ "client_not_allowed" \in Reasons
  BY DEF Reasons, SourceReasons
<1>4. a \in Disclosures \cup Refusals
  BY <1>1, <1>2, <1>3 DEF Answers, Dishonest
<1>5. QED
  BY <1>4, ValuesAreUsable DEF Disclosures, Refusals

\* The request is this one, and its selection is what the binding allows; so the
\* answer may only fail to repeat it.
LEMMA RequestOfAnswer ==
  ASSUME TypeOK, answer \in Answers
  PROVE  /\ RequestIssues(Query, answer, Context) =
              Issue("resolved" \in withheld, "missing") \cup Issue(answer.request # 1, "linkage")
         /\ Selected(Query, Context.binding) = <<"a">>
<1>1. /\ Usable(Query) /\ Usable(answer) /\ Usable(Resolved) /\ Usable(<<"a">>) /\ Usable("R")
      /\ Usable(reference) /\ Usable(binding) /\ Usable(1) /\ Usable(9)
  BY AnswersAreShaped, ValuesAreUsable DEF TypeOK, Words, Resolved
<1>2. answer.reference = "R" /\ answer.request \in {1, 9}
  BY AnswersAreShaped DEF Disclosures, Refusals
<1>3. /\ Query.reference = "R" /\ Query.request = 1 /\ Query.selection = <<"a">>
  BY DEF Query
<1>4. /\ Context.reference \in {reference, Absent} /\ Context.binding \in {binding, Absent}
      /\ Context.authority.operation = "resolve_context"
      /\ Context.resolved = Supply("resolved", Resolved)
  BY SuppliedOrAbsent DEF Context
<1>5. /\ Field(Query, "reference") = "R" /\ Field(answer, "reference") = "R"
      /\ Field(Query, "request") = 1 /\ Field(answer, "request") = answer.request
      /\ Field(Query, "selection") = <<"a">> /\ <<"a">> # Absent
      /\ Field(Context.reference, "id") \in {"R", Absent}
  BY <1>1, <1>2, <1>3, <1>4, FieldsOfRecords DEF Field, Usable
<1>6. Usable(Context.binding) => Narrows(Query.selection, Context.binding.entries)
  BY <1>3, <1>4, FieldsOfRecords, ValuesAreUsable, NarrowsItself
<1>7. Context.resolved = Absent <=> "resolved" \in withheld
  BY <1>1, <1>4, SuppliedOrAbsent DEF Usable
<1>8. PartIssues(Query) = {} /\ PartIssues(answer) = {}
  BY <1>1 DEF PartIssues, Issue, Usable
<1>9. (\E k \in {"request", "reference"} : Differ(Field(answer, k), Field(Query, k)))
        <=> answer.request # 1
  BY <1>1, <1>2, <1>5 DEF Differ, Usable
<1>10. /\ ~Differ(Field(Query, "reference"), Field(Context.reference, "id"))
       /\ ~Differ(Field(answer, "reference"), Field(Context.reference, "id"))
       /\ ~Differ(Context.authority.operation, "resolve_context")
  BY <1>4, <1>5 DEF Differ
<1>11. RequestIssues(Query, answer, Context) =
         Issue("resolved" \in withheld, "missing") \cup Issue(answer.request # 1, "linkage")
  BY <1>6, <1>7, <1>8, <1>9, <1>10 DEF RequestIssues, Issue
<1>12. QED
  BY <1>3, <1>5, <1>11 DEF Selected

\* So the check comes down to what is missing of the authority, to the request
\* that is repeated, and to the kind of the answer.
LEMMA IssuesOfAnswer ==
  ASSUME TypeOK, BindingIsMade, answer \in Answers
  PROVE  Issues =
           Issue(withheld \cap (AuthorityParts \cup {"resolved"}) # {}, "missing")
           \cup Issue(answer.request # 1, "linkage")
           \cup (IF answer.kind = "result"
                 THEN ResultOfIssues(Query, answer, Context, <<"a">>, Chain)
                 ELSE ErrorIssues(answer, Context, <<"a">>, Chain))
<1>1. Carried(Chain) = Issue(withheld \cap AuthorityParts # {}, "missing")
  BY ChainIsFound, AuthorityIsFound
<1>2. /\ RequestIssues(Query, answer, Context) =
           Issue("resolved" \in withheld, "missing") \cup Issue(answer.request # 1, "linkage")
      /\ Selected(Query, Context.binding) = <<"a">> /\ Usable(answer)
  BY RequestOfAnswer, AnswersAreShaped
<1>3. Issue("resolved" \in withheld, "missing") \cup Issue(withheld \cap AuthorityParts # {}, "missing")
        = Issue(withheld \cap (AuthorityParts \cup {"resolved"}) # {}, "missing")
  BY DEF Issue
<1>4. QED
  BY <1>1, <1>2, <1>3 DEF Issues, ResolveIssues, Chain

-----------------------------------------------------------------------------
(* Reasons of the authority                                                *)

Refusing == (Reasons \ SourceReasons) \cup {"source_unavailable"}

\* What the parts are, where they are there.
LEMMA PartsOfChain ==
  ASSUME TypeOK, NEW r, NEW p, NEW b, NEW x, Parted(r, p, b, x)
  PROVE  /\ Usable(r) <=> "reference" \notin withheld
         /\ Usable(p) <=> "profile" \notin withheld
         /\ Usable(b) <=> "binding" \notin withheld
         /\ Usable(r) => r = reference
         /\ Usable(p) => p = profile
         /\ Usable(b) => b = binding
         /\ Field(r, "id") = Supply("reference", "R")
         /\ Field(r, "status") = Supply("reference", reference.status)
         /\ Field(b, "reference") = Supply("binding", "R")
         /\ Usable(x.referenceBytes) => x.referenceBytes = reference /\ "referenceBytes" \notin withheld
         /\ x.client \in {selection.client, Absent}
         /\ x.client # Absent <=> "client" \notin withheld
         /\ x.operation = "resolve_context"
         /\ Absent \notin {x.referenceBytes, x.profileBytes, x.bindingBytes,
                           x.client, x.bindingFp, x.transport, x.class}
              <=> withheld \cap {"referenceBytes", "profileBytes", "bindingBytes", "client",
                                "bindingFp", "transport", "class"} = {}
         /\ Usable("R") /\ Absent \notin {"me", "you"}
<1>1. /\ Usable(reference) /\ Usable(profile) /\ Usable(binding) /\ Usable(selection.client)
      /\ Usable(selection.binding) /\ Usable(selection.transport) /\ Usable("local")
      /\ Usable("R") /\ ~Usable(Absent) /\ Absent \notin {"me", "you"}
  BY ValuesAreUsable, FieldsOfRecords DEF TypeOK, Words, Usable
<1>2. /\ Usable(r) <=> "reference" \notin withheld
      /\ Usable(p) <=> "profile" \notin withheld
      /\ Usable(b) <=> "binding" \notin withheld
      /\ Usable(r) => r = reference
      /\ Usable(p) => p = profile
      /\ Usable(b) => b = binding
  BY <1>1, SuppliedOrAbsent DEF Parted
<1>3. /\ Field(r, "id") = Supply("reference", "R")
      /\ Field(r, "status") = Supply("reference", reference.status)
      /\ Field(b, "reference") = Supply("binding", "R")
  BY <1>1, FieldIsSupplied, FieldsOfRecords DEF Parted
<1>4. /\ Usable(x.referenceBytes) => x.referenceBytes = reference /\ "referenceBytes" \notin withheld
      /\ x.client \in {selection.client, Absent} /\ (x.client # Absent <=> "client" \notin withheld)
      /\ x.operation = "resolve_context"
  BY <1>1, SuppliedOrAbsent DEF Parted, Usable
<1>5. /\ x.referenceBytes = Absent <=> "referenceBytes" \in withheld
      /\ x.profileBytes = Absent <=> "profileBytes" \in withheld
      /\ x.bindingBytes = Absent <=> "bindingBytes" \in withheld
      /\ x.client = Absent <=> "client" \in withheld
      /\ x.bindingFp = Absent <=> "bindingFp" \in withheld
      /\ x.transport = Absent <=> "transport" \in withheld
      /\ x.class = Absent <=> "class" \in withheld
  BY <1>1, SuppliedOrAbsent DEF Parted, Usable
<1>6. QED
  BY <1>1, <1>2, <1>3, <1>4, <1>5

LEMMA StaleIsFound ==
  ASSUME TypeOK, NEW r, NEW p, NEW b, NEW x, Parted(r, p, b, x), NEW found, ChainIs(found)
  PROVE  /\ Stale(r, b, found) =>
              Both("reference", "referenceBytes") /\ binding.referenceFp # reference
         /\ Both("reference", "binding") /\ "referenceBytes" \notin withheld =>
              (Stale(r, b, found) <=> binding.referenceFp # reference)
<1>1. /\ Field(b, "reference") = Supply("binding", "R") /\ Field(r, "id") = Supply("reference", "R")
      /\ "R" # Absent
  BY PartsOfChain DEF Usable
<1>2. "reference_fingerprint" \in found <=>
        Both("binding", "referenceBytes") /\ binding.referenceFp # reference
  BY DEF ChainIs
<1>3. QED
  BY <1>1, <1>2, SuppliedOrAbsent DEF Stale, Both, Supply

\* A binding is mismatched if a relation of it does not hold.
MismatchHolds ==
  \/ binding.profileFp # profile \/ binding.scope # reference.scope
  \/ selection.binding # binding \/ selection.client # profile.client
  \/ selection.transport # binding.transport

LEMMA MismatchIsFound ==
  ASSUME TypeOK, NEW r, NEW p, NEW b, NEW x, Parted(r, p, b, x), NEW found, ChainIs(found)
  PROVE  /\ found \cap BindingIssues # {} => MismatchHolds
         /\ withheld \cap (AuthorityParts \ {"evaluated"}) = {} =>
              /\ found \cap BindingIssues # {} <=> MismatchHolds
              /\ Mismatched(r, b, found) <=> MismatchHolds
<1>1. found \cap BindingIssues =
        found \cap {"client_id", "profile_fingerprint", "binding_fingerprint", "access_scope",
                   "transport_binding"}
  BY DEF ChainIs, BindingIssues
<1>2. found \cap BindingIssues # {} => MismatchHolds
  BY <1>1 DEF ChainIs, MismatchHolds
<1>3. ASSUME withheld \cap (AuthorityParts \ {"evaluated"}) = {}
      PROVE  /\ found \cap BindingIssues # {} <=> MismatchHolds
             /\ Mismatched(r, b, found) <=> MismatchHolds
  <2>1. /\ Both("client", "profile") /\ Both("binding", "profileBytes")
        /\ Both("bindingFp", "bindingBytes") /\ Both("binding", "reference")
        /\ Both("transport", "binding") /\ Both("binding", "referenceBytes")
        /\ Both("reference", "binding") /\ "referenceBytes" \notin withheld
    BY <1>3 DEF AuthorityParts, Both
  <2>2. MismatchHolds => found \cap BindingIssues # {}
    BY <1>1, <2>1 DEF ChainIs, MismatchHolds
  <2>3. "reference_fingerprint" \in found => Stale(r, b, found)
    BY <2>1, StaleIsFound DEF ChainIs
  <2>4. QED
    BY <1>2, <2>2, <2>3 DEF Mismatched
<1>4. QED
  BY <1>2, <1>3

\* With all of the chain there, the reasons it supports are the reasons that hold.
LEMMA SupportedIsTrue ==
  ASSUME TypeOK, BindingIsMade, NEW r, NEW p, NEW b, NEW x, Parted(r, p, b, x),
         NEW found, ChainIs(found), withheld \cap AuthorityParts = {},
         NEW code \in Refusing, ~FromSource(code, reference)
  PROVE  Supported(code, r, p, b, x, found) <=> ReasonHolds(code)
<1>1. /\ Usable(r) /\ Usable(p) /\ Usable(b) /\ r = reference /\ p = profile /\ b = binding
      /\ x.client = selection.client /\ Field(r, "status") = reference.status
  BY PartsOfChain, SuppliedOrAbsent DEF AuthorityParts
<1>2. ClientKnown(r, p, b, x) <=> selection.client = profile.client
  BY <1>1, FieldsOfRecords DEF ClientKnown
<1>3. /\ "reference_not_active" \in found <=> reference.status # "active"
      /\ "client_not_allowed" \in found <=> profile.client \notin reference.clients
      /\ "operation_not_allowed" \in found <=> "resolve_context" \notin binding.operations
      /\ Stale(r, b, found) <=> binding.referenceFp # reference
      /\ Mismatched(r, b, found) <=> MismatchHolds
  <2>1. /\ "reference" \notin withheld /\ Both("reference", "profile") /\ "binding" \notin withheld
        /\ Both("reference", "binding") /\ "referenceBytes" \notin withheld
        /\ withheld \cap (AuthorityParts \ {"evaluated"}) = {}
    BY DEF AuthorityParts, Both
  <2>2. /\ Stale(r, b, found) <=> binding.referenceFp # reference
        /\ Mismatched(r, b, found) <=> MismatchHolds
    BY <2>1, StaleIsFound, MismatchIsFound
  <2>3. QED
    BY <2>1, <2>2 DEF ChainIs
<1>4. /\ "active" \notin NotActive /\ "stale_locator" # "active" /\ "source_unavailable" # "active"
  BY DEF NotActive
<1>5. CASE code = "client_not_allowed"
  BY <1>2, <1>3, <1>5 DEF Supported, ReasonHolds
<1>6. CASE code = "reference_not_active"
  BY <1>1, <1>3, <1>4, <1>6 DEF Supported, ReasonHolds
<1>7. CASE code \in {"stale_locator", "source_unavailable"}
  BY <1>1, <1>3, <1>4, <1>7 DEF Supported, ReasonHolds
<1>8. CASE code = "stale_reference"
  BY <1>3, <1>8 DEF Supported, ReasonHolds
<1>9. CASE code = "binding_mismatch"
  BY <1>3, <1>9 DEF Supported, ReasonHolds, MismatchHolds
<1>10. CASE code = "unsupported_request"
  BY <1>3, <1>10 DEF Supported, ReasonHolds
<1>11. CASE code = "freshness_verification_required"
  BY <1>11 DEF Supported, ReasonHolds
<1>12. QED
  BY <1>5, <1>6, <1>7, <1>8, <1>9, <1>10, <1>11 DEF Refusing, Reasons, SourceReasons

\* A reason that holds is not contradicted, whatever is withheld; but for a
\* mismatch of a binding that is out of date as well, where all has to be there.
LEMMA TrueIsNotContradicted ==
  ASSUME TypeOK, BindingIsMade, NEW r, NEW p, NEW b, NEW x, Parted(r, p, b, x),
         NEW found, ChainIs(found),
         NEW code \in Refusing, ~FromSource(code, reference), ReasonHolds(code),
         \/ withheld \cap AuthorityParts = {}
         \/ ~(code = "binding_mismatch" /\ binding.referenceFp # reference)
  PROVE  ~Contradicted(code, r, p, b, x, found)
<1>1. /\ Usable(r) => r = reference
      /\ Usable(p) => p = profile
      /\ Usable(b) => b = binding
      /\ Usable(x.referenceBytes) => x.referenceBytes = reference
      /\ x.operation = "resolve_context"
  BY PartsOfChain
<1>2. found = {} => Supported(code, r, p, b, x, found)
  <2>1. found = {} => withheld \cap AuthorityParts = {}
    BY DEF ChainIs
  <2>2. QED
    BY <2>1, SupportedIsTrue
<1>3. CASE code = "client_not_allowed"
  <2>1. profile.client \notin reference.clients
    BY <1>3 DEF ReasonHolds, FromSource, SourceReasons
  <2>2. QED
    BY <1>1, <1>2, <1>3, <2>1 DEF Contradicted, ClientKnown
<1>4. CASE code = "reference_not_active"
  <2>1. reference.status \in NotActive
    BY <1>4 DEF ReasonHolds, FromSource, SourceReasons
  <2>2. QED
    BY <1>1, <1>2, <1>4, <2>1 DEF Contradicted
<1>5. CASE code \in {"stale_locator", "source_unavailable"}
  <2>1. reference.status = code
    BY <1>5 DEF ReasonHolds, FromSource, SourceReasons
  <2>2. QED
    BY <1>1, <1>2, <1>5, <2>1 DEF Contradicted
<1>6. CASE code = "stale_reference"
  <2>1. binding.referenceFp # reference
    BY <1>6 DEF ReasonHolds, FromSource, SourceReasons
  <2>2. ~(Usable(r) /\ Usable(b) /\ b.reference # r.id)
    BY <1>1, FieldsOfRecords
  <2>3. ~(Usable(b) /\ Usable(x.referenceBytes) /\ b.referenceFp = x.referenceBytes)
    BY <1>1, <2>1
  <2>4. QED
    BY <1>2, <1>6, <2>2, <2>3 DEF Contradicted
<1>7. CASE code = "binding_mismatch"
  <2>1. MismatchHolds
    BY <1>7 DEF ReasonHolds, FromSource, SourceReasons, MismatchHolds
  <2>2. BindingKnown(r, p, b, x, found) => withheld \cap (AuthorityParts \ {"evaluated"}) = {}
    <3>1. /\ Usable(r) <=> "reference" \notin withheld
          /\ Usable(p) <=> "profile" \notin withheld
          /\ Usable(b) <=> "binding" \notin withheld
          /\ Absent \notin {x.referenceBytes, x.profileBytes, x.bindingBytes,
                           x.client, x.bindingFp, x.transport, x.class}
               <=> withheld \cap {"referenceBytes", "profileBytes", "bindingBytes", "client",
                                 "bindingFp", "transport", "class"} = {}
      BY PartsOfChain
    <3>2. QED
      BY <3>1 DEF BindingKnown, AuthorityParts
  <2>3. withheld \cap (AuthorityParts \ {"evaluated"}) = {} => Mismatched(r, b, found)
    BY <2>1, MismatchIsFound
  <2>4. withheld \cap AuthorityParts # {} => ~Stale(r, b, found)
    BY <1>7, StaleIsFound
  <2>5. ~(/\ ~Mismatched(r, b, found)
          /\ Stale(r, b, found) \/ BindingKnown(r, p, b, x, found))
    BY <2>2, <2>3, <2>4
  <2>6. QED
    BY <1>2, <1>7, <2>5 DEF Contradicted
<1>8. CASE code = "unsupported_request"
  <2>1. "resolve_context" \notin binding.operations
    BY <1>8 DEF ReasonHolds, FromSource, SourceReasons
  <2>2. QED
    BY <1>1, <1>2, <1>8, <2>1 DEF Contradicted
<1>9. CASE code = "freshness_verification_required"
  BY <1>9 DEF ReasonHolds, FromSource, SourceReasons
<1>10. QED
  BY <1>3, <1>4, <1>5, <1>6, <1>7, <1>8, <1>9 DEF Refusing, Reasons, SourceReasons

LEMMA ErrorAnswers ==
  ASSUME TypeOK, answer \in Answers, answer.kind # "result"
  PROVE  /\ answer.kind = "error" /\ answer.code \in Reasons /\ answer.request = 1
         /\ answer.observed \in {5, 8} /\ answer.retryable \in BOOLEAN
         /\ answer = ErrorOf(answer.code) <=> answer.observed = 5 /\ ~answer.retryable
         /\ answer.observed = 8 => answer.code = "client_not_allowed"
         /\ answer.retryable => answer.code = "limit_exceeded"
<1>1. answer \in Refusals
  BY AnswersAreShaped
<1>2. \/ \E code \in Reasons : answer = ErrorOf(code)
      \/ answer = [ErrorOf("limit_exceeded") EXCEPT !.retryable = TRUE]
      \/ answer = [ErrorOf("client_not_allowed") EXCEPT !.observed = 8]
  BY DEF Answers, Dishonest, ResultOf
<1>3. /\ answer.kind = "error" /\ answer.code \in Reasons /\ answer.request = 1
      /\ answer.observed \in {5, 8} /\ answer.retryable \in BOOLEAN
  BY <1>1 DEF Refusals, Observed
<1>4. CASE \E code \in Reasons : answer = ErrorOf(code)
  BY <1>3, <1>4 DEF ErrorOf, Observed
<1>5. CASE answer = [ErrorOf("limit_exceeded") EXCEPT !.retryable = TRUE]
  BY <1>3, <1>5 DEF ErrorOf, Observed
<1>6. CASE answer = [ErrorOf("client_not_allowed") EXCEPT !.observed = 8]
  BY <1>3, <1>6 DEF ErrorOf, Observed
<1>7. QED
  BY <1>2, <1>3, <1>4, <1>5, <1>6

\* An error came at its time, unless it says it was observed after it was resolved.
LEMMA IssuesOfError ==
  ASSUME TypeOK, BindingIsMade, answer \in Answers, answer.kind # "result"
  PROVE  Issues =
           Issue(withheld \cap (AuthorityParts \cup {"resolved"}) # {}, "missing")
           \cup Issue(answer.observed = 8 /\ "resolved" \notin withheld, "timestamps")
           \cup (IF FromSource(answer.code, Context.reference)
                 THEN SourceErrorIssues(answer, Context, <<"a">>, Chain)
                 ELSE RefusalIssues(answer, Context, Chain))
<1>1. /\ answer.request = 1 /\ answer.observed \in {5, 8} /\ answer.kind = "error"
  BY ErrorAnswers
<1>2. /\ Context.event = Absent /\ Context.resolved \in {7, Absent}
      /\ Context.resolved = Absent <=> "resolved" \in withheld
      /\ Context.authority.evaluated \in {4, Absent}
  <2>1. /\ Context.event = Absent /\ Context.resolved = Supply("resolved", 7)
        /\ Context.authority.evaluated = Supply("evaluated", 4)
    BY <1>1 DEF Context, Resolved, Evaluated
  <2>2. 7 # Absent
    BY ValuesAreUsable DEF Usable
  <2>3. QED
    BY <2>1, <2>2, SuppliedOrAbsent
<1>3. /\ Late(answer.observed, Context.resolved) <=>
            answer.observed = 8 /\ "resolved" \notin withheld
      /\ ~Late(Context.authority.evaluated, answer.observed)
  <2>1. 5 # Absent /\ 8 # Absent
    BY ValuesAreUsable DEF Usable
  <2>2. QED
    BY <1>1, <1>2, <2>1 DEF Late
<1>4. ErrorIssues(answer, Context, <<"a">>, Chain) =
        Issue(answer.observed = 8 /\ "resolved" \notin withheld, "timestamps")
        \cup (IF FromSource(answer.code, Context.reference)
              THEN SourceErrorIssues(answer, Context, <<"a">>, Chain)
              ELSE RefusalIssues(answer, Context, Chain))
  BY <1>2, <1>3 DEF ErrorIssues, Issue
<1>5. Issue(answer.request # 1, "linkage") = {}
  BY <1>1 DEF Issue
<1>6. QED
  BY <1>1, <1>4, <1>5, IssuesOfAnswer

\* What it takes for an answer to be accepted, and that a true one is not refused.
Settled ==
  /\ withheld \cap Needed # {} => Issues # {}
  /\ withheld \cap Needed = {} => (Issues = {} <=> True)
  /\ True /\ ~Entangled => Issues \subseteq {"missing"}

LEMMA RefusalIsSettled ==
  ASSUME TypeOK, BindingIsMade, answer \in Answers, answer.kind # "result",
         ~FromSource(answer.code, reference)
  PROVE  Settled
<1> DEFINE code == answer.code
           r == Context.reference
           p == Context.profile
           b == Context.binding
           x == Context.authority
<1>1. Parted(r, p, b, x) /\ ChainIs(Chain)
  BY ContextIsParted, ChainIsFound
<1>2. /\ code \in Refusing /\ answer.kind = "error" /\ answer.observed \in {5, 8}
      /\ answer.retryable \in BOOLEAN
      /\ answer = ErrorOf(code) <=> answer.observed = 5 /\ ~answer.retryable
      /\ answer.observed = 8 => code = "client_not_allowed"
      /\ answer.retryable => code = "limit_exceeded"
      /\ code \in SourceReasons => code = "source_unavailable" /\ Field(reference, "status") = code
  BY ErrorAnswers DEF FromSource, Refusing
<1>3. answer.retryable = FALSE
  BY <1>2 DEF Refusing, Reasons, SourceReasons
<1>4. Needed = AuthorityParts \cup {"resolved"}
  BY <1>2 DEF Needed
<1>5. FromSource(code, r) =>
        /\ code = "source_unavailable" /\ reference.status = "source_unavailable"
        /\ "reference" \in withheld
  <2>1. Usable(reference) /\ Field(r, "status") = Supply("reference", reference.status)
    BY <1>1, PartsOfChain, ValuesAreUsable DEF TypeOK
  <2>2. QED
    BY <1>2, <2>1, SuppliedOrAbsent DEF FromSource, Field, SourceReasons
<1>6. Exchanges(Context) = <<>>
  BY <1>2 DEF Context, Exchanges
<1>7. True <=> answer.observed = 5 /\ ReasonHolds(code)
  BY <1>2, <1>3 DEF True
<1>8. ~FromSource(code, r) =>
        RefusalIssues(answer, Context, Chain) =
          IF Contradicted(code, r, p, b, x, Chain) THEN {"evidence"}
          ELSE Issue(~Supported(code, r, p, b, x, Chain), "missing")
  BY <1>6 DEF RefusalIssues, Issue
<1> HIDE DEF code, r, p, b, x
<1>9. Issues =
        Issue(withheld \cap (AuthorityParts \cup {"resolved"}) # {}, "missing")
        \cup Issue(answer.observed = 8 /\ "resolved" \notin withheld, "timestamps")
        \cup (IF FromSource(code, r) THEN SourceErrorIssues(answer, Context, <<"a">>, Chain)
              ELSE IF Contradicted(code, r, p, b, x, Chain) THEN {"evidence"}
              ELSE Issue(~Supported(code, r, p, b, x, Chain), "missing"))
  BY <1>8, IssuesOfError DEF code, r
<1>10. withheld \cap Needed # {} => Issues # {}
  BY <1>4, <1>9 DEF Issue
<1>11. ASSUME withheld \cap Needed = {} PROVE Issues = {} <=> True
  <2>1. withheld \cap AuthorityParts = {} /\ "resolved" \notin withheld /\ "reference" \notin withheld
    BY <1>4, <1>11 DEF AuthorityParts
  <2>2. Supported(code, r, p, b, x, Chain) <=> ReasonHolds(code)
    BY <1>1, <1>2, <2>1, SupportedIsTrue DEF code
  <2>3. ReasonHolds(code) => ~Contradicted(code, r, p, b, x, Chain)
    BY <1>1, <1>2, <2>1, TrueIsNotContradicted DEF code
  <2>4. ~FromSource(code, r)
    BY <1>5, <2>1
  <2>5. Issues = {} <=> answer.observed # 8 /\ ReasonHolds(code)
    BY <1>4, <1>9, <1>11, <2>1, <2>2, <2>3, <2>4 DEF Issue
  <2>6. QED
    BY <1>2, <1>7, <2>5
<1>12. ASSUME True, ~Entangled PROVE Issues \subseteq {"missing"}
  <2>1. answer = ErrorOf(code) /\ answer.observed = 5 /\ ReasonHolds(code)
    BY <1>2, <1>3, <1>7, <1>12
  <2>2. /\ ~(code = "binding_mismatch" /\ binding.referenceFp # reference)
        /\ ~(code = "source_unavailable" /\ reference.status = "source_unavailable")
    BY <1>12, <2>1 DEF Entangled
  <2>3. ~FromSource(code, r)
    BY <1>5, <2>2
  <2>4. ~Contradicted(code, r, p, b, x, Chain)
    BY <1>1, <1>2, <2>1, <2>2, TrueIsNotContradicted DEF code
  <2>5. QED
    BY <1>9, <2>1, <2>3, <2>4 DEF Issue
<1>13. QED
  BY <1>10, <1>11, <1>12 DEF Settled

-----------------------------------------------------------------------------
(* The exchange with the source                                            *)

\* A result of the source is right but for one thing at most.
Is(a, request, locator, truncated, from, fp, observed) ==
  /\ a.request = request /\ a.payload.locator = locator /\ a.limits.truncated = truncated
  /\ a.provenance.source = from /\ a.provenance.fp = fp /\ a.provenance.observed = observed
WrongInOne(a) ==
  \/ Is(a, 2, "a", FALSE, "s", Text, 5)
  \/ Is(a, 2, "a", FALSE, "t", Text, 5) \/ Is(a, 2, "a", FALSE, "s", OtherText, 5)
  \/ Is(a, 2, "a", FALSE, "s", Text, 3) \/ Is(a, 9, "a", FALSE, "s", Text, 5)
  \/ Is(a, 2, "b", FALSE, "s", Text, 5) \/ Is(a, 2, "a", TRUE, "s", Text, 5)

LEMMA ResultsOfSource ==
  ASSUME NEW a \in SourceAnswers, a.kind = "result"
  PROVE  /\ a.adapter = "fs" /\ a.operation = "read" /\ a.source = "s" /\ a.scope = "all"
         /\ a.provenance.scope = "all" /\ a.provenance.adapter = "fs"
         /\ a.provenance.operation = "read"
         /\ a.limits.maxItems = 1 /\ a.limits.maxBytes = 2 /\ a.limits.items = 1
         /\ a.limits.bytes = 1 /\ a.payload.type = "markdown" /\ a.payload.text = Text
         /\ a.payload.count = 1 /\ a.payload.fp = Text
         /\ a.payload.truncated = FALSE /\ a.limits.truncated \in BOOLEAN
         /\ a.request \in {2, 9} /\ a.payload.locator \in {"a", "b"}
         /\ a.provenance.source \in {"s", "t"} /\ a.provenance.fp \in {Text, OtherText}
         /\ a.provenance.observed \in {3, 5}
         /\ a = SourceResult <=>
              /\ a.request = 2 /\ a.payload.locator = "a" /\ ~a.limits.truncated
              /\ a.provenance.source = "s" /\ a.provenance.fp = Text /\ a.provenance.observed = 5
         /\ a \in {[SourceResult EXCEPT !.provenance.source = "t"],
                   [SourceResult EXCEPT !.provenance.fp = OtherText]} <=>
              a.provenance.source = "t" \/ a.provenance.fp = OtherText
         /\ WrongInOne(a) /\ Text # OtherText
<1>1. Text # OtherText
  BY DEF Text, OtherText
<1> DEFINE Shaped ==
             /\ a.adapter = "fs" /\ a.operation = "read" /\ a.source = "s" /\ a.scope = "all"
             /\ a.provenance.scope = "all" /\ a.provenance.adapter = "fs"
             /\ a.provenance.operation = "read"
             /\ a.limits.maxItems = 1 /\ a.limits.maxBytes = 2 /\ a.limits.items = 1
             /\ a.limits.bytes = 1 /\ a.payload.type = "markdown" /\ a.payload.text = Text
             /\ a.payload.count = 1 /\ a.payload.fp = Text
             /\ a.payload.truncated = FALSE /\ a.limits.truncated \in BOOLEAN
           Foreign == [SourceResult EXCEPT !.provenance.source = "t"]
           Forged == [SourceResult EXCEPT !.provenance.fp = OtherText]
<1>2. \A code : SourceError(code).kind = "error"
  BY DEF SourceError
<1>3. /\ SourceResult.request = 2 /\ SourceResult.payload.locator = "a"
      /\ SourceResult.limits.truncated = FALSE /\ SourceResult.provenance.source = "s"
      /\ SourceResult.provenance.fp = Text /\ SourceResult.provenance.observed = 5
  BY DEF SourceResult, Observed
<1>4. /\ Foreign.request = 2 /\ Foreign.payload.locator = "a" /\ Foreign.limits.truncated = FALSE
      /\ Foreign.provenance.source = "t" /\ Foreign.provenance.fp = Text
      /\ Foreign.provenance.observed = 5
  BY DEF SourceResult, Observed
<1>5. /\ Forged.request = 2 /\ Forged.payload.locator = "a" /\ Forged.limits.truncated = FALSE
      /\ Forged.provenance.source = "s" /\ Forged.provenance.fp = OtherText
      /\ Forged.provenance.observed = 5
  BY DEF SourceResult, Observed
<1> HIDE DEF Foreign, Forged
<1>6. CASE a = SourceResult
  <2>1. Shaped
    BY <1>6 DEF SourceResult
  <2>2. a # Foreign /\ a # Forged
    BY <1>1, <1>3, <1>4, <1>5, <1>6
  <2>3. WrongInOne(a)
    BY <1>3, <1>6 DEF WrongInOne, Is
  <2>4. QED
    BY <1>1, <1>3, <1>6, <2>1, <2>2, <2>3 DEF Foreign, Forged
<1>7. CASE a = Foreign
  <2>1. Shaped
    BY <1>7 DEF SourceResult, Foreign
  <2>2. a # SourceResult
    BY <1>3, <1>4, <1>7
  <2>3. WrongInOne(a)
    BY <1>4, <1>7 DEF WrongInOne, Is
  <2>4. QED
    BY <1>1, <1>4, <1>7, <2>1, <2>2, <2>3 DEF Foreign
<1>8. CASE a = Forged
  <2>1. Shaped
    BY <1>8 DEF SourceResult, Forged
  <2>2. a # SourceResult
    BY <1>1, <1>3, <1>5, <1>8
  <2>3. WrongInOne(a)
    BY <1>5, <1>8 DEF WrongInOne, Is
  <2>4. QED
    BY <1>1, <1>5, <1>8, <2>1, <2>2, <2>3 DEF Forged
<1>9. CASE a = [SourceResult EXCEPT !.provenance.observed = 3]
  <2>1. /\ a.request = 2 /\ a.payload.locator = "a" /\ a.limits.truncated = FALSE
        /\ a.provenance.source = "s" /\ a.provenance.fp = Text /\ a.provenance.observed = 3
    BY <1>9 DEF SourceResult, Observed
  <2>2. Shaped
    BY <1>9 DEF SourceResult
  <2>3. a # SourceResult /\ a # Foreign /\ a # Forged
    BY <1>1, <1>3, <1>4, <1>5, <2>1
  <2>4. WrongInOne(a)
    BY <2>1 DEF WrongInOne, Is
  <2>5. QED
    BY <1>1, <2>1, <2>2, <2>3, <2>4 DEF Foreign, Forged
<1>10. CASE a = [SourceResult EXCEPT !.request = 9]
  <2>1. /\ a.request = 9 /\ a.payload.locator = "a" /\ a.limits.truncated = FALSE
        /\ a.provenance.source = "s" /\ a.provenance.fp = Text /\ a.provenance.observed = 5
    BY <1>10 DEF SourceResult, Observed
  <2>2. Shaped
    BY <1>10 DEF SourceResult
  <2>3. a # SourceResult /\ a # Foreign /\ a # Forged
    BY <1>1, <1>3, <1>4, <1>5, <2>1
  <2>4. WrongInOne(a)
    BY <2>1 DEF WrongInOne, Is
  <2>5. QED
    BY <1>1, <2>1, <2>2, <2>3, <2>4 DEF Foreign, Forged
<1>11. CASE a = [SourceResult EXCEPT !.payload.locator = "b"]
  <2>1. /\ a.request = 2 /\ a.payload.locator = "b" /\ a.limits.truncated = FALSE
        /\ a.provenance.source = "s" /\ a.provenance.fp = Text /\ a.provenance.observed = 5
    BY <1>11 DEF SourceResult, Observed
  <2>2. Shaped
    BY <1>11 DEF SourceResult
  <2>3. a # SourceResult /\ a # Foreign /\ a # Forged
    BY <1>1, <1>3, <1>4, <1>5, <2>1
  <2>4. WrongInOne(a)
    BY <2>1 DEF WrongInOne, Is
  <2>5. QED
    BY <1>1, <2>1, <2>2, <2>3, <2>4 DEF Foreign, Forged
<1>12. CASE a = [SourceResult EXCEPT !.limits.truncated = TRUE]
  <2>1. /\ a.request = 2 /\ a.payload.locator = "a" /\ a.limits.truncated = TRUE
        /\ a.provenance.source = "s" /\ a.provenance.fp = Text /\ a.provenance.observed = 5
    BY <1>12 DEF SourceResult, Observed
  <2>2. Shaped
    BY <1>12 DEF SourceResult
  <2>3. a # SourceResult /\ a # Foreign /\ a # Forged
    BY <1>1, <1>3, <1>4, <1>5, <2>1
  <2>4. WrongInOne(a)
    BY <2>1 DEF WrongInOne, Is
  <2>5. QED
    BY <1>1, <2>1, <2>2, <2>3, <2>4 DEF Foreign, Forged
<1>13. QED
  BY <1>2, <1>6, <1>7, <1>8, <1>9, <1>10, <1>11, <1>12 DEF SourceAnswers, Foreign, Forged

LEMMA ErrorsOfSource ==
  ASSUME NEW a \in SourceAnswers, a.kind # "result"
  PROVE  /\ a.kind = "error" /\ a.request = 2 /\ a.adapter = "fs" /\ a.operation = "read"
         /\ a.observed = 5 /\ a.retryable = FALSE /\ a = SourceError(a.code)
         /\ a.code \in {"source_unavailable", "limit_exceeded", "not_found"}
         /\ \A code : a = SourceError(code) <=> a.code = code
<1> DEFINE Results ==
  {SourceResult,
   [SourceResult EXCEPT !.provenance.source = "t"],
   [SourceResult EXCEPT !.provenance.fp = OtherText],
   [SourceResult EXCEPT !.provenance.observed = 3],
   [SourceResult EXCEPT !.request = 9],
   [SourceResult EXCEPT !.payload.locator = "b"],
   [SourceResult EXCEPT !.limits.truncated = TRUE]}
<1>1. \E code \in {"source_unavailable", "limit_exceeded", "not_found"} : a = SourceError(code)
  <2>1. a \notin Results
    BY DEF SourceResult
  <2>2. SourceAnswers = Results \cup
          {SourceError("source_unavailable"), SourceError("limit_exceeded"), SourceError("not_found")}
    BY DEF SourceAnswers
  <2> HIDE DEF Results
  <2>3. QED
    BY <2>1, <2>2
<1>2. PICK code \in {"source_unavailable", "limit_exceeded", "not_found"} : a = SourceError(code)
  BY <1>1
<1>3. \A word : SourceError(word).code = word
  BY DEF SourceError
<1>4. /\ a.kind = "error" /\ a.request = 2 /\ a.adapter = "fs" /\ a.operation = "read"
      /\ a.observed = 5 /\ a.retryable = FALSE /\ a.code = code
  BY <1>2 DEF SourceError, Observed
<1>5. QED
  BY <1>2, <1>3, <1>4

LEMMA SourceFacts ==
  /\ Manifest.adapter = "fs" /\ Manifest.operations = {"read"} /\ Manifest.types = {"markdown"}
  /\ Manifest.maxItems = 1 /\ Manifest.maxBytes = 2
  /\ SourceRequest.request = 2 /\ SourceRequest.adapter = "fs" /\ SourceRequest.operation = "read"
  /\ SourceRequest.source = "s" /\ SourceRequest.scope = "all" /\ SourceRequest.locator = "a"
  /\ SourceRequest.maxItems = 1 /\ SourceRequest.maxBytes = 2
BY DEF Manifest, SourceRequest

\* The check of the exchange finds what is wrong with the answer of the source.
LEMMA ExchangeIsFound ==
  ASSUME NEW a \in SourceAnswers, NEW bytes,
         bytes = Absent \/ (a.kind = "result" /\ bytes = a.payload.text)
  PROVE  ExchangeIssues(Manifest, SourceRequest, a, bytes) =
           IF a.kind # "result" THEN {}
           ELSE IF a = SourceResult \/ a.provenance.observed = 3 THEN {}
           ELSE IF a.provenance.source = "t" THEN {"provenance_source"}
           ELSE IF a.provenance.fp = OtherText THEN {"provenance_fingerprint"}
           ELSE IF a.limits.truncated THEN {"truncation"}
           ELSE IF a.request # 2 THEN {"linkage"} ELSE {"target"}
<1> DEFINE m == Manifest
           q == SourceRequest
<1>1. /\ Absent \notin {m, q, a} /\ Broken \notin {m, q, a}
  BY ValuesAreUsable DEF Usable
<1>2. /\ m.adapter = "fs" /\ m.operations = {"read"} /\ m.types = {"markdown"} /\ m.maxItems = 1
      /\ m.maxBytes = 2 /\ q.request = 2 /\ q.adapter = "fs" /\ q.operation = "read"
      /\ q.source = "s" /\ q.scope = "all" /\ q.locator = "a" /\ q.maxItems = 1 /\ q.maxBytes = 2
  BY SourceFacts
<1> HIDE DEF m, q
<1>3. CASE a.kind # "result"
  <2>1. a.kind = "error" /\ a.request = 2 /\ a.adapter = "fs" /\ a.operation = "read"
        /\ bytes = Absent
    BY <1>3, ErrorsOfSource
  <2>2. AnswerIssues(a) = {} /\ ContentIssues(a, bytes) = {}
    BY <2>1 DEF AnswerIssues, ContentIssues, Issue
  <2>3. \A k \in Repeated(a) : a[k] = q[k]
    BY <1>2, <2>1 DEF Repeated
  <2>4. LinkIssues(m, q, a) = {}
    BY <1>2, <2>3 DEF LinkIssues, Issue
  <2>5. ExchangeIssues(m, q, a, bytes) = {}
    BY <1>1, <2>1, <2>2, <2>4 DEF ExchangeIssues
  <2>6. QED
    BY <1>3, <2>5 DEF m, q
<1>4. CASE a.kind = "result"
  <2>1. /\ a.adapter = "fs" /\ a.operation = "read" /\ a.source = "s" /\ a.scope = "all"
        /\ a.provenance.scope = "all" /\ a.provenance.adapter = "fs"
        /\ a.provenance.operation = "read"
        /\ a.limits.maxItems = 1 /\ a.limits.maxBytes = 2 /\ a.limits.items = 1
        /\ a.limits.bytes = 1 /\ a.payload.type = "markdown" /\ a.payload.text = Text
        /\ a.payload.count = 1 /\ a.payload.fp = Text
        /\ a.payload.truncated = FALSE /\ a.limits.truncated \in BOOLEAN
        /\ a.provenance.source \in {"s", "t"} /\ a.provenance.fp \in {Text, OtherText}
        /\ a.request \in {2, 9} /\ a.payload.locator \in {"a", "b"}
        /\ a.provenance.observed \in {3, 5}
    BY <1>4, ResultsOfSource
  <2>2. /\ Len(Text) = 1 /\ Text # OtherText /\ Text # Absent /\ OtherText # Absent
    BY ValuesAreUsable DEF Text, OtherText, Usable
  <2>3. ProvenanceIssues(a) = Issue(a.provenance.source = "t", "provenance_source")
    <3>1. \A k \in {"scope", "adapter", "operation"} : a.provenance[k] = a[k]
      BY <2>1
    <3>2. a.provenance["source"] # a["source"] <=> a.provenance.source = "t"
      BY <2>1
    <3> DEFINE Of(k) == Issue(a.provenance[k] # a[k],
               CASE k = "source" -> "provenance_source" [] k = "scope" -> "provenance_scope"
                 [] k = "adapter" -> "provenance_adapter" [] OTHER -> "provenance_operation")
    <3>3. \A k \in {"scope", "adapter", "operation"} : Of(k) = {}
      BY <3>1 DEF Issue
    <3>4. Of("source") = Issue(a.provenance.source = "t", "provenance_source")
      BY <3>2 DEF Issue
    <3>5. ProvenanceIssues(a) = UNION {Of(k) : k \in Provenance}
      BY DEF ProvenanceIssues
    <3> HIDE DEF Of
    <3>6. UNION {Of(k) : k \in Provenance} = Of("source")
      BY <3>3 DEF Provenance
    <3>7. QED
      BY <3>4, <3>5, <3>6
  <2>4. ReadIssues(a) = Issue(a.limits.truncated, "truncation")
                        \cup Issue(a.provenance.fp = OtherText, "provenance_fingerprint")
    <3>1. /\ ~(a.limits.items > 1) /\ a.payload.count = Len(a.payload.text)
          /\ ~(Len(a.payload.text) > a.limits.maxBytes) /\ ~(Len(a.payload.text) > a.limits.bytes)
          /\ a.payload.fp = a.payload.text
      BY <2>1, <2>2
    <3>2. a.payload.truncated # a.limits.truncated <=> a.limits.truncated
      BY <2>1
    <3>3. Differ(a.provenance.fp, a.payload.text) <=> a.provenance.fp = OtherText
      BY <2>1, <2>2 DEF Differ
    <3>4. QED
      BY <3>1, <3>2, <3>3 DEF ReadIssues, Issue
  <2>5. AnswerIssues(a) = Issue(a.provenance.source = "t", "provenance_source")
                          \cup Issue(a.limits.truncated, "truncation")
                          \cup Issue(a.provenance.fp = OtherText, "provenance_fingerprint")
    <3>1. ~(a.limits.items > a.limits.maxItems \/ a.limits.bytes > a.limits.maxBytes)
      BY <2>1
    <3>2. QED
      BY <1>4, <2>1, <2>3, <2>4, <3>1 DEF AnswerIssues, Issue
  <2>6. LinkIssues(m, q, a) = Issue(a.request # 2, "linkage")
    <3>1. (\E k \in Repeated(a) : a[k] # q[k]) <=> a.request # 2
      BY <1>2, <1>4, <2>1 DEF Repeated
    <3>2. QED
      BY <1>2, <3>1 DEF LinkIssues, Issue
  <2>7. ResultIssues(m, q, a) = Issue(a.payload.locator # "a", "target")
    BY <1>2, <2>1 DEF ResultIssues, Issue
  <2>8. ContentIssues(a, bytes) = {}
    BY <1>4, <2>1 DEF ContentIssues, Issue
  <2>9. ExchangeIssues(m, q, a, bytes) =
          IF AnswerIssues(a) # {} THEN AnswerIssues(a)
          ELSE Issue(a.request # 2, "linkage") \cup Issue(a.payload.locator # "a", "target")
    BY <1>1, <1>4, <2>6, <2>7, <2>8 DEF ExchangeIssues
  <2>10. /\ a = SourceResult <=> Is(a, 2, "a", FALSE, "s", Text, 5)
         /\ WrongInOne(a)
    BY <1>4, ResultsOfSource DEF Is
  <2>11. CASE Is(a, 2, "a", FALSE, "s", Text, 5)
    BY <1>4, <2>2, <2>5, <2>9, <2>10, <2>11 DEF m, q, Issue, Is
  <2>12. CASE Is(a, 2, "a", FALSE, "t", Text, 5)
    BY <1>4, <2>2, <2>5, <2>9, <2>10, <2>12 DEF m, q, Issue, Is
  <2>13. CASE Is(a, 2, "a", FALSE, "s", OtherText, 5)
    BY <1>4, <2>2, <2>5, <2>9, <2>10, <2>13 DEF m, q, Issue, Is
  <2>14. CASE Is(a, 2, "a", FALSE, "s", Text, 3)
    BY <1>4, <2>2, <2>5, <2>9, <2>10, <2>14 DEF m, q, Issue, Is
  <2>15. CASE Is(a, 9, "a", FALSE, "s", Text, 5)
    BY <1>4, <2>2, <2>5, <2>9, <2>10, <2>15 DEF m, q, Issue, Is
  <2>16. CASE Is(a, 2, "b", FALSE, "s", Text, 5)
    BY <1>4, <2>2, <2>5, <2>9, <2>10, <2>16 DEF m, q, Issue, Is
  <2>17. CASE Is(a, 2, "a", TRUE, "s", Text, 5)
    BY <1>4, <2>2, <2>5, <2>9, <2>10, <2>17 DEF m, q, Issue, Is
  <2>18. QED
    BY <2>10, <2>11, <2>12, <2>13, <2>14, <2>15, <2>16, <2>17 DEF WrongInOne
<1>5. QED
  BY <1>3, <1>4

\* What there is of the exchange is for the entry, with the source of the reference.
LEMMA PartsOfSource ==
  ASSUME TypeOK, source # Absent
  PROVE  /\ Exchange.manifest = Supply("manifest", Manifest)
         /\ Exchange.request = Supply("request", SourceRequest)
         /\ Exchange.response = Supply("response", source)
         /\ \/ Exchange.bytes = Absent
            \/ source.kind = "result" /\ Exchange.bytes = source.payload.text
         /\ source.kind = "result" => (Exchange.bytes = Absent <=> "bytes" \in withheld)
         /\ Usable(Exchange.request) <=> "request" \notin withheld
         /\ Usable(Exchange.response) <=> "response" \notin withheld
         /\ Exchange \in Observations
         /\ PartsOfExchange(Exchange) =
              Issue(withheld \cap {"manifest", "request", "response", "scope"} # {}, "missing")
         /\ SourceLinks(Exchange, Context.reference, <<"a">>) = {}
<1> DEFINE m == Exchange.manifest
           q == Exchange.request
           a == Exchange.response
<1>1. /\ Usable(Manifest) /\ Usable(SourceRequest) /\ Usable(source) /\ Usable("all") /\ Usable("s")
      /\ Usable(reference) /\ Usable(Text) /\ source \in SourceAnswers
  BY ValuesAreUsable DEF TypeOK, Words
<1>2. /\ m = Supply("manifest", Manifest) /\ q = Supply("request", SourceRequest)
      /\ a = Supply("response", source) /\ Exchange.scope = Supply("scope", "all")
      /\ Exchange.bytes = IF source.kind = "result" THEN Supply("bytes", source.payload.text)
                          ELSE Absent
  BY DEF Exchange
<1> HIDE DEF m, q, a
<1>3. source.kind = "result" => source.payload.text = Text
  BY <1>1, ResultsOfSource
<1>4. /\ m \in {Manifest, Absent} /\ (m = Absent <=> "manifest" \in withheld)
      /\ q \in {SourceRequest, Absent} /\ (q = Absent <=> "request" \in withheld)
      /\ a \in {source, Absent} /\ (a = Absent <=> "response" \in withheld)
      /\ Exchange.scope \in {"all", Absent} /\ (Exchange.scope = Absent <=> "scope" \in withheld)
  BY <1>1, <1>2, SuppliedOrAbsent DEF Usable
<1>5. /\ \/ Exchange.bytes = Absent
         \/ source.kind = "result" /\ Exchange.bytes = source.payload.text
      /\ source.kind = "result" => (Exchange.bytes = Absent <=> "bytes" \in withheld)
  BY <1>1, <1>2, <1>3, SuppliedOrAbsent DEF Usable
<1>6. Exchange \in Observations
  <2>1. Exchange.bytes \in {Text, Absent}
    BY <1>3, <1>5
  <2>2. Exchange = [manifest |-> m, request |-> q, response |-> a, scope |-> Exchange.scope,
                    bytes |-> Exchange.bytes]
    BY DEF Exchange, m, q, a
  <2>3. QED
    BY <1>1, <1>4, <2>1, <2>2 DEF Observations
<1>7. PartsOfExchange(Exchange) =
        Issue(withheld \cap {"manifest", "request", "response", "scope"} # {}, "missing")
  <2>1. /\ PartIssues(m) = Issue(m = Absent, "missing")
        /\ PartIssues(q) = Issue(q = Absent, "missing")
        /\ PartIssues(a) = Issue(a = Absent, "missing")
    BY <1>1, <1>4, PartsAreMissingOrSound
  <2>2. QED
    BY <1>4, <2>1 DEF PartsOfExchange, Issue, m, q, a
<1>8. SourceLinks(Exchange, Context.reference, <<"a">>) = {}
  <2>1. /\ Field(q, "source") \in {"s", Absent} /\ Field(q, "scope") \in {"all", Absent}
        /\ Field(Context.reference, "source") \in {"s", Absent}
    <3>1. Context.reference \in {reference, Absent}
      BY SuppliedOrAbsent DEF Context
    <3>2. QED
      BY <1>4, <3>1, SourceFacts, FieldsOfRecords DEF Field, Usable
  <2>2. /\ ~Differ(Field(q, "source"), Field(Context.reference, "source"))
        /\ ~Differ(Field(q, "scope"), Exchange.scope)
    BY <1>4, <2>1 DEF Differ
  <2>3. Usable(q) => q.operation = "read" /\ q.locator = "a"
    BY <1>4, SourceFacts DEF Usable
  <2>4. ~(/\ Usable(q) /\ <<"a">> # Absent
          /\ \A i \in DOMAIN <<"a">> : <<"a">>[i] # q.locator)
    BY <2>3
  <2>5. QED
    BY <2>2, <2>3, <2>4 DEF SourceLinks, Issue, q
<1>9. QED
  BY <1>1, <1>2, <1>4, <1>5, <1>6, <1>7, <1>8 DEF m, q, a, Usable

\* If a part of it is missing the check of the exchange finds no more than that.
LEMMA SourceIsFound ==
  ASSUME TypeOK, source # Absent
  PROVE  P2C(Exchange) =
           IF withheld \cap {"manifest", "request", "response"} # {} THEN {"missing"}
           ELSE ExchangeIssues(Manifest, SourceRequest, source, Exchange.bytes)
<1>1. /\ Exchange.manifest = Supply("manifest", Manifest)
      /\ Exchange.request = Supply("request", SourceRequest)
      /\ Exchange.response = Supply("response", source)
  BY PartsOfSource
<1>2. CASE withheld \cap {"manifest", "request", "response"} # {}
  BY <1>1, <1>2, SuppliedOrAbsent DEF P2C, ExchangeIssues
<1>3. CASE withheld \cap {"manifest", "request", "response"} = {}
  BY <1>1, <1>3, SuppliedOrAbsent DEF P2C
<1>4. QED
  BY <1>2, <1>3

LEMMA OneExchange ==
  ASSUME TypeOK, source # Absent,
         answer.kind = "result" \/ (answer.kind = "error" /\ FromSource(answer.code, reference))
  PROVE  Exchanges(Context) = IF "exchanges" \in withheld THEN <<>> ELSE <<Exchange>>
<1>1. Context.exchanges = Supply("exchanges", <<Exchange>>)
  BY DEF Context
<1>2. <<Exchange>> # Absent
  <2>1. Exchange \in Observations
    BY PartsOfSource
  <2>2. <<Exchange>> \in [1..1 -> Observations]
    BY <2>1
  <2>3. QED
    BY <2>2, MarksAreApart
<1>3. QED
  BY <1>1, <1>2, SuppliedOrAbsent DEF Exchanges

-----------------------------------------------------------------------------
(* Reasons of the source                                                   *)

\* A refusal or failure of the source, told as it was.
LEMMA FailureIsTold ==
  ASSUME TypeOK, source # Absent, answer \in Answers, answer.kind # "result"
  PROVE  LET found == SourceErrorEvidence(Exchange, answer)
             Told == source = SourceError(answer.code) /\ answer = ErrorOf(answer.code)
         IN /\ withheld \cap {"manifest", "request", "response"} = {} => (found = {} <=> Told)
            /\ Told => found \subseteq {"missing"}
<1> DEFINE found == SourceErrorEvidence(Exchange, answer)
           Told == source = SourceError(answer.code) /\ answer = ErrorOf(answer.code)
           a == Exchange.response
           b == P2C(Exchange)
<1>1. a = Supply("response", source) /\ source \in SourceAnswers /\ Usable(source)
  BY PartsOfSource, ValuesAreUsable DEF TypeOK
<1>2. b = IF withheld \cap {"manifest", "request", "response"} # {} THEN {"missing"}
          ELSE ExchangeIssues(Manifest, SourceRequest, source, Exchange.bytes)
  BY SourceIsFound
<1>3. source.kind # "result" =>
        /\ source.kind = "error" /\ source.observed = 5 /\ source.retryable = FALSE
        /\ \A code : source = SourceError(code) <=> source.code = code
        /\ ExchangeIssues(Manifest, SourceRequest, source, Exchange.bytes) = {}
  BY <1>1, ErrorsOfSource, ExchangeIsFound, PartsOfSource
<1>4. answer = ErrorOf(answer.code) <=> answer.observed = 5 /\ answer.retryable = FALSE
  BY ErrorAnswers
<1>5. (source = SourceError(answer.code)) => source.kind # "result"
  BY DEF SourceError
<1>6. Usable(a) <=> "response" \notin withheld
  BY PartsOfSource
<1>7. found = (b \cap {"missing"}) \cup Issue(b \ {"missing"} # {} \/ IsResult(a), "evidence")
              \cup Issue(/\ IsError(a)
                         /\ \/ a.code # answer.code \/ a.retryable # answer.retryable
                            \/ a.observed # answer.observed, "evidence")
  BY DEF SourceErrorEvidence
<1> HIDE DEF found, a, b
<1>8. "response" \notin withheld => a = source
  BY <1>1, SuppliedOrAbsent
<1>9. CASE source.kind = "result"
  <2>1. ~Told
    BY <1>5, <1>9
  <2>2. "response" \notin withheld => "evidence" \in found
    BY <1>1, <1>7, <1>8, <1>9 DEF IsResult, Issue
  <2>3. QED
    BY <2>1, <2>2 DEF found
<1>10. CASE source.kind # "result"
  <2>1. ~IsResult(a)
    BY <1>3, <1>6, <1>8, <1>10 DEF IsResult
  <2>2. b \subseteq {"missing"} /\ (withheld \cap {"manifest", "request", "response"} = {} => b = {})
    BY <1>2, <1>3, <1>10
  <2>3. (/\ IsError(a)
         /\ \/ a.code # answer.code \/ a.retryable # answer.retryable
            \/ a.observed # answer.observed) <=> "response" \notin withheld /\ ~Told
    BY <1>3, <1>4, <1>6, <1>8, <1>10 DEF IsError
  <2>4. found = b \cup Issue("response" \notin withheld /\ ~Told, "evidence")
    BY <1>7, <2>1, <2>2, <2>3 DEF Issue
  <2>5. QED
    BY <2>2, <2>4 DEF Issue, found
<1>11. QED
  BY <1>9, <1>10

\* A result of the source that repeats its own request wrongly, told as that.
Garbled == source \in {[SourceResult EXCEPT !.provenance.source = "t"],
                       [SourceResult EXCEPT !.provenance.fp = OtherText]}

LEMMA GarbledIsTold ==
  ASSUME TypeOK, source # Absent, answer \in Answers, answer.kind # "result",
         answer.code = "provenance_mismatch"
  PROVE  LET found == ProvenanceEvidence(Exchange, answer, Context)
         IN /\ withheld \cap {"manifest", "request", "response", "bytes"} = {} =>
                 (found = {} <=> Garbled)
            /\ "bytes" \in withheld => found # {}
            /\ Garbled => found \subseteq {"missing"}
<1> DEFINE found == ProvenanceEvidence(Exchange, answer, Context)
           m == Exchange.manifest
           q == Exchange.request
           a == Exchange.response
           b == P2C(Exchange)
           There == withheld \cap {"manifest", "request", "response"} = {}
           Known == {"provenance_source", "provenance_scope", "provenance_adapter",
                     "provenance_operation", "provenance_fingerprint"}
           Wrong == \/ q.adapter # m.adapter
                    \/ \E k \in {"request", "adapter", "operation", "source", "scope"} : a[k] # q[k]
                    \/ a.operation # "read" \/ a.payload.locator # q.locator
                    \/ Exchange.bytes # Absent /\ Exchange.bytes # a.payload.text
           Untimely == \/ Late(Context.authority.evaluated, a.provenance.observed)
                       \/ Late(a.provenance.observed, answer.observed)
<1>1. /\ m = Supply("manifest", Manifest) /\ q = Supply("request", SourceRequest)
      /\ a = Supply("response", source) /\ source \in SourceAnswers /\ Usable(source)
      /\ Usable(a) <=> "response" \notin withheld
      /\ \/ Exchange.bytes = Absent
         \/ source.kind = "result" /\ Exchange.bytes = source.payload.text
      /\ source.kind = "result" => (Exchange.bytes = Absent <=> "bytes" \in withheld)
  BY PartsOfSource, ValuesAreUsable DEF TypeOK
<1>2. /\ There => b = ExchangeIssues(Manifest, SourceRequest, source, Exchange.bytes)
      /\ ~There => b = {"missing"}
  BY SourceIsFound
<1>3. "response" \notin withheld => a = source
  BY <1>1, SuppliedOrAbsent
<1>4. There => m = Manifest /\ q = SourceRequest /\ a = source
  BY <1>1, SuppliedOrAbsent
<1>5. /\ found = IF ~IsResult(a) THEN Issue(Usable(a), "evidence") \cup Issue(~Usable(a), "missing")
                 ELSE IF "missing" \in b THEN {"missing"}
                 ELSE IF b = {} \/ ~(b \subseteq Known) THEN {"evidence"}
                 ELSE Issue(Wrong, "evidence") \cup Issue(Exchange.bytes = Absent, "missing")
                      \cup Issue(Untimely, "timestamps")
  BY DEF ProvenanceEvidence
<1>6. answer.observed = 5 /\ Context.authority.evaluated \in {4, Absent} /\ 4 # Absent
  <2>1. Context.authority.evaluated = Supply("evaluated", 4)
    BY DEF Context, Evaluated
  <2>2. QED
    BY <2>1, ErrorAnswers, SuppliedOrAbsent, ValuesAreUsable DEF Usable
<1>7. Garbled => source.kind = "result"
  BY DEF Garbled, SourceResult
<1> HIDE DEF found, m, q, a, b
<1>8. CASE source.kind # "result"
  <2>1. ~IsResult(a)
    BY <1>1, <1>3, <1>8 DEF IsResult
  <2>2. QED
    BY <1>1, <1>5, <1>7, <1>8, <2>1 DEF Issue, found
<1>9. CASE source.kind = "result" /\ "response" \in withheld
  BY <1>1, <1>5, <1>9 DEF Issue, found, IsResult
<1>10. CASE source.kind = "result" /\ "response" \notin withheld /\ ~There
  <2>1. IsResult(a)
    BY <1>1, <1>3, <1>10 DEF IsResult
  <2>2. found = {"missing"}
    BY <1>2, <1>5, <1>10, <2>1
  <2>3. QED
    BY <1>10, <2>2 DEF found
<1>11. CASE source.kind = "result" /\ There
  <2>1. IsResult(a) /\ a = source /\ m = Manifest /\ q = SourceRequest
    BY <1>1, <1>4, <1>11 DEF IsResult
  <2>2. /\ b = IF a = SourceResult \/ a.provenance.observed = 3 THEN {}
               ELSE IF a.provenance.source = "t" THEN {"provenance_source"}
               ELSE IF a.provenance.fp = OtherText THEN {"provenance_fingerprint"}
               ELSE IF a.limits.truncated THEN {"truncation"}
               ELSE IF a.request # 2 THEN {"linkage"} ELSE {"target"}
        /\ Garbled <=> a.provenance.source = "t" \/ a.provenance.fp = OtherText
        /\ WrongInOne(a) /\ Text # OtherText
        /\ a = SourceResult <=> Is(a, 2, "a", FALSE, "s", Text, 5)
        /\ a.adapter = "fs" /\ a.operation = "read" /\ a.source = "s" /\ a.scope = "all"
    <3>1. /\ source.kind = "result" /\ source \in SourceAnswers
          /\ \/ Exchange.bytes = Absent
             \/ source.kind = "result" /\ Exchange.bytes = source.payload.text
      BY <1>1, <1>11
    <3>2. b = ExchangeIssues(Manifest, SourceRequest, source, Exchange.bytes)
      BY <1>2, <1>11
    <3>3. ExchangeIssues(Manifest, SourceRequest, source, Exchange.bytes) =
            IF source = SourceResult \/ source.provenance.observed = 3 THEN {}
            ELSE IF source.provenance.source = "t" THEN {"provenance_source"}
            ELSE IF source.provenance.fp = OtherText THEN {"provenance_fingerprint"}
            ELSE IF source.limits.truncated THEN {"truncation"}
            ELSE IF source.request # 2 THEN {"linkage"} ELSE {"target"}
      BY <3>1, ExchangeIsFound
    <3>4. /\ Garbled <=> source.provenance.source = "t" \/ source.provenance.fp = OtherText
          /\ WrongInOne(source) /\ Text # OtherText
          /\ source = SourceResult <=> Is(source, 2, "a", FALSE, "s", Text, 5)
          /\ source.adapter = "fs" /\ source.operation = "read" /\ source.source = "s"
          /\ source.scope = "all"
      BY <3>1, ResultsOfSource DEF Garbled, Is
    <3>5. QED
      BY <2>1, <3>2, <3>3, <3>4
  <2>3. Garbled => b \subseteq Known /\ b # {} /\ "missing" \notin b
    BY <2>2 DEF WrongInOne, Is
  <2>4. ~Garbled => (b = {} \/ ~(b \subseteq Known)) /\ "missing" \notin b
    BY <2>2
  <2>5. Garbled => ~Wrong /\ ~Untimely
    <3>1. Garbled => /\ a.request = 2 /\ a.payload.locator = "a" /\ a.provenance.observed = 5
                     /\ a.adapter = "fs" /\ a.operation = "read" /\ a.source = "s"
                     /\ a.scope = "all"
      BY <2>2 DEF WrongInOne, Is
    <3>2. Garbled => ~Wrong
      BY <1>1, <2>1, <3>1, SourceFacts
    <3>3. Garbled => ~Untimely
      BY <1>6, <3>1 DEF Late
    <3>4. QED
      BY <3>2, <3>3
  <2>6. CASE Garbled
    <3>1. found = Issue(Exchange.bytes = Absent, "missing")
      BY <1>5, <2>1, <2>3, <2>5, <2>6 DEF Issue
    <3>2. QED
      BY <1>1, <1>11, <2>6, <3>1 DEF Issue, found
  <2>7. CASE ~Garbled
    <3>1. found = {"evidence"}
      BY <1>5, <2>1, <2>4, <2>7
    <3>2. QED
      BY <2>7, <3>1 DEF found
  <2>8. QED
    BY <2>6, <2>7
<1>12. QED
  BY <1>8, <1>9, <1>10, <1>11

LEMMA FailureIsSettled ==
  ASSUME TypeOK, BindingIsMade, source # Absent, answer \in Answers, answer.kind # "result",
         FromSource(answer.code, reference)
  PROVE  Settled
<1> DEFINE code == answer.code
           Told == IF code = "provenance_mismatch" THEN Garbled /\ answer = ErrorOf(code)
                   ELSE source = SourceError(code) /\ answer = ErrorOf(code)
           Inner == IF code = "provenance_mismatch" THEN ProvenanceEvidence(Exchange, answer, Context)
                    ELSE SourceErrorEvidence(Exchange, answer)
           There == {"manifest", "request", "response", "scope"}
           Outer == SourceErrorIssues(answer, Context, <<"a">>, Chain)
<1>1. /\ answer.kind = "error" /\ code \in SourceReasons /\ answer.observed = 5
      /\ code = "provenance_mismatch" => answer = ErrorOf(code)
  <2>1. code \in SourceReasons
    BY DEF FromSource
  <2>2. QED
    BY <2>1, ErrorAnswers DEF SourceReasons
<1>2. FromSource(code, Context.reference)
  <2>1. Field(Context.reference, "status") \in {Field(reference, "status"), Absent}
    <3>1. Usable(reference) /\ Context.reference = Supply("reference", reference)
      BY ValuesAreUsable DEF TypeOK, Context
    <3>2. QED
      BY <3>1, FieldIsSupplied, SuppliedOrAbsent DEF Field
  <2>2. Absent # "source_unavailable"
    BY MarksAreApart DEF Statuses
  <2>3. QED
    BY <2>1, <2>2 DEF FromSource
<1>3. Exchanges(Context) = IF "exchanges" \in withheld THEN <<>> ELSE <<Exchange>>
  BY <1>1, OneExchange
<1>4. Outer = Issue(~(Chain \subseteq {"missing"}), "not_eligible")
              \cup (IF "exchanges" \in withheld THEN {"missing"}
                    ELSE Issue(withheld \cap There # {}, "missing") \cup Inner)
  <2> DEFINE es == Exchanges(Context)
             First == Issue(Decide(Chain) = "REJECT", "not_eligible")
             Middle == UNION {PartsOfExchange(es[i]) : i \in DOMAIN es}
             Last == IF es = <<>> THEN {"missing"}
                     ELSE IF Len(es) # 1 THEN {"invalid"}
                     ELSE SourceLinks(es[1], Context.reference, <<"a">>)
                          \cup (IF code = "provenance_mismatch"
                                THEN ProvenanceEvidence(es[1], answer, Context)
                                ELSE SourceErrorEvidence(es[1], answer))
  <2>1. First = Issue(~(Chain \subseteq {"missing"}), "not_eligible")
    <3>1. Decide(Chain) = "REJECT" <=> ~(Chain \subseteq {"missing"})
      BY ChainIsFound, AuthorityIsFound
    <3>2. QED
      BY <3>1 DEF Issue
  <2>2. Outer = First \cup Middle \cup Last
    BY DEF SourceErrorIssues
  <2>3. es = IF "exchanges" \in withheld THEN <<>> ELSE <<Exchange>>
    BY <1>3
  <2> HIDE DEF es, Outer
  <2>4. CASE "exchanges" \in withheld
    <3>1. Middle = {} /\ Last = {"missing"}
      BY <2>3, <2>4
    <3>2. QED
      BY <2>1, <2>2, <2>4, <3>1
  <2>5. CASE "exchanges" \notin withheld
    <3>1. es # <<>> /\ Len(es) = 1 /\ es[1] = Exchange /\ DOMAIN es = {1}
      BY <2>3, <2>5
    <3>2. Middle = PartsOfExchange(Exchange)
      BY <3>1
    <3>3. Last = Inner
      BY <3>1, PartsOfSource
    <3>4. Middle = Issue(withheld \cap There # {}, "missing")
      BY <3>2, PartsOfSource
    <3>5. QED
      BY <2>1, <2>2, <2>5, <3>3, <3>4
  <2>6. QED
    BY <2>4, <2>5
<1>5. Issues = Issue(withheld \cap (AuthorityParts \cup {"resolved"}) # {}, "missing") \cup Outer
  BY <1>1, <1>2, IssuesOfError DEF Issue
<1>6. Needed = AuthorityParts \cup {"resolved", "exchanges"} \cup There
               \cup (IF code = "provenance_mismatch" THEN {"bytes"} ELSE {})
  BY <1>1 DEF Needed
<1>7. True <=> MayResolve /\ Told
  BY <1>1 DEF True, ReasonHolds, Garbled
<1>8. /\ withheld \cap (There \cup {"bytes"}) = {} => (Inner = {} <=> Told)
      /\ withheld \cap There = {} /\ code # "provenance_mismatch" => (Inner = {} <=> Told)
      /\ code = "provenance_mismatch" /\ "bytes" \in withheld => Inner # {}
      /\ Told => Inner \subseteq {"missing"}
  <2>1. CASE code = "provenance_mismatch"
    BY <1>1, <2>1, GarbledIsTold
  <2>2. CASE code # "provenance_mismatch"
    BY <2>2, FailureIsTold
  <2>3. QED
    BY <2>1, <2>2
<1>9. /\ MayResolve => Chain \subseteq {"missing"}
      /\ withheld \cap AuthorityParts = {} => (Chain \subseteq {"missing"} <=> MayResolve)
  <2>1. withheld \cap AuthorityParts = {} => "missing" \notin Chain
    BY ChainIsFound DEF ChainIs
  <2>2. QED
    BY <2>1, ChainIsFound, AuthorityIsFound
<1> HIDE DEF code, Told, Inner, There, Outer
<1>10. withheld \cap Needed # {} => Issues # {}
  BY <1>4, <1>5, <1>6, <1>8 DEF Issue
<1>11. withheld \cap Needed = {} => (Issues = {} <=> True)
  <2>1. ASSUME withheld \cap Needed = {} PROVE Issues = {} <=> True
    <3>1. /\ withheld \cap (AuthorityParts \cup {"resolved"}) = {} /\ withheld \cap There = {}
          /\ withheld \cap AuthorityParts = {} /\ "exchanges" \notin withheld
          /\ code = "provenance_mismatch" => withheld \cap (There \cup {"bytes"}) = {}
      BY <1>6, <2>1
    <3>2. Issues = Issue(~(Chain \subseteq {"missing"}), "not_eligible") \cup Inner
      BY <1>4, <1>5, <3>1 DEF Issue
    <3>3. QED
      BY <1>7, <1>8, <1>9, <3>1, <3>2 DEF Issue
  <2>2. QED
    BY <2>1
<1>12. True => Issues \subseteq {"missing"}
  BY <1>4, <1>5, <1>7, <1>8, <1>9 DEF Issue
<1>13. QED
  BY <1>10, <1>11, <1>12 DEF Settled

-----------------------------------------------------------------------------
(* Results                                                                 *)

\* A result is of one item, and differs from the honest one in a field it shows.
Sincere == /\ answer.request = 1 /\ answer.referenceFp = reference /\ answer.verified = 6
           /\ answer.payload[1].entry = "a" /\ answer.payload[1].text = Text

LEMMA ResultAnswers ==
  ASSUME TypeOK, answer \in Answers, answer.kind = "result"
  PROVE  /\ answer.reference = "R" /\ answer.binding = "B" /\ answer.source = "s"
         /\ answer.observation = 3 /\ answer.observed = 5 /\ answer.evidence = 4
         /\ answer.request \in {1, 9} /\ answer.verified \in {6, 8}
         /\ answer.referenceFp \in References
         /\ answer.limits.items = 1 /\ answer.limits.bytes = 1 /\ answer.limits.maxItems = 1
         /\ answer.limits.maxBytes = 2
         /\ answer.payload = <<answer.payload[1]>>
         /\ answer.payload[1].count = 1 /\ answer.payload[1].type = "markdown"
         /\ answer.payload[1].text \in {Text, OtherText} /\ answer.payload[1].entry \in {"a", "b"}
         /\ answer.payload[1].fp = answer.payload[1].text /\ answer.fp = answer.payload[1].text
         /\ answer.entries = <<answer.payload[1].entry>>
         /\ answer = ResultOf("a", Text) <=> Sincere
<1> DEFINE Shaped(out) ==
             /\ out.reference = "R" /\ out.binding = "B" /\ out.source = "s"
             /\ out.observation = 3 /\ out.observed = 5 /\ out.evidence = 4
             /\ out.limits.items = 1 /\ out.limits.bytes = 1 /\ out.limits.maxItems = 1
             /\ out.limits.maxBytes = 2
             /\ out.payload = <<out.payload[1]>>
             /\ out.payload[1].count = 1 /\ out.payload[1].type = "markdown"
             /\ out.payload[1].fp = out.payload[1].text /\ out.fp = out.payload[1].text
             /\ out.entries = <<out.payload[1].entry>>
           Fields(out, request, r, verified, entry, text) ==
             /\ out.request = request /\ out.referenceFp = r /\ out.verified = verified
             /\ out.payload[1].entry = entry /\ out.payload[1].text = text
           Honest == ResultOf("a", Text)
           Unasked == [Honest EXCEPT !.request = 9]
           Overdue == [Honest EXCEPT !.verified = 8]
           Outdated == [Honest EXCEPT !.referenceFp = FirstReference]
<1>1. \A entry, text : /\ Shaped(ResultOf(entry, text))
                       /\ Fields(ResultOf(entry, text), 1, reference, 6, entry, text)
  BY DEF ResultOf, Observed, Verified
<1>2. /\ Shaped(Unasked)
      /\ Fields(Unasked, 9, reference, 6, "a", Text)
  BY DEF ResultOf, Observed, Verified
<1>3. /\ Shaped(Overdue)
      /\ Fields(Overdue, 1, reference, 8, "a", Text)
  BY DEF ResultOf, Observed, Verified
<1>4. /\ Shaped(Outdated)
      /\ Fields(Outdated, 1, FirstReference, 6, "a", Text)
      /\ FirstReference = reference => Outdated = Honest
  BY DEF ResultOf, Observed, Verified
<1>5. answer \in {Honest, ResultOf("b", Text), ResultOf("a", OtherText),
                  Unasked, Overdue,
                  Outdated}
  <2>1. \A code : /\ ErrorOf(code).kind = "error"
                  /\ [ErrorOf(code) EXCEPT !.retryable = TRUE].kind = "error"
                  /\ [ErrorOf(code) EXCEPT !.observed = 8].kind = "error"
    BY DEF ErrorOf
  <2>2. QED
    BY <2>1 DEF Answers, Dishonest
<1>6. reference \in References /\ FirstReference \in References /\ Text # OtherText
  BY DEF TypeOK, FirstReference, References, Statuses, Text, OtherText
<1> HIDE DEF Honest, Shaped, Unasked, Overdue, Outdated
<1>7. Shaped(Honest) /\ Fields(Honest, 1, reference, 6, "a", Text)
  BY <1>1 DEF Honest
<1>8. /\ Shaped(answer) /\ answer.request \in {1, 9} /\ answer.verified \in {6, 8}
      /\ answer.referenceFp \in References /\ answer.payload[1].text \in {Text, OtherText}
      /\ answer.payload[1].entry \in {"a", "b"} /\ (answer = Honest <=> Sincere)
  <2>1. CASE answer = Honest
    BY <1>6, <1>7, <2>1 DEF Sincere
  <2>2. CASE answer = ResultOf("b", Text)
    BY <1>1, <1>6, <1>7, <2>2 DEF Sincere
  <2>3. CASE answer = ResultOf("a", OtherText)
    BY <1>1, <1>6, <1>7, <2>3 DEF Sincere
  <2>4. CASE answer = Unasked
    BY <1>2, <1>6, <1>7, <2>4 DEF Sincere
  <2>5. CASE answer = Overdue
    BY <1>3, <1>6, <1>7, <2>5 DEF Sincere
  <2>6. CASE answer = Outdated
    BY <1>4, <1>6, <1>7, <2>6 DEF Sincere
  <2>7. QED
    BY <1>5, <2>1, <2>2, <2>3, <2>4, <2>5, <2>6
<1>9. QED
  BY <1>8 DEF Honest, Shaped

\* One text of one byte is within the limits of the answer and of the request.
LEMMA LimitsAreKept ==
  ASSUME TypeOK, answer \in Answers, answer.kind = "result"
  PROVE  LimitIssues(Query, answer) = {}
<1>1. /\ answer.payload = <<answer.payload[1]>> /\ answer.payload[1].count = 1
      /\ answer.limits.items = 1 /\ answer.limits.bytes = 1 /\ answer.limits.maxItems = 1
      /\ answer.limits.maxBytes = 2
  BY ResultAnswers
<1>2. DOMAIN answer.payload = {1} /\ Len(answer.payload) = 1
  BY <1>1
<1>3. BytesOf(answer) = 1
  <2>1. UNION {{i} \X (1..answer.payload[i].count) : i \in DOMAIN answer.payload} = {<<1, 1>>}
    BY <1>1, <1>2
  <2>2. QED
    BY <2>1, FS_Singleton DEF BytesOf
<1>4. QED
  BY <1>1, <1>2, <1>3 DEF LimitIssues, Query, Issue

LEMMA EventIsFound ==
  ASSUME TypeOK, answer \in Answers, answer.kind = "result"
  PROVE  EventIssues(answer, Context) =
           IF "event" \in withheld THEN {"missing"} ELSE Issue(answer.verified # 6, "event")
<1>1. /\ Context.event = Supply("event", Event) /\ Context.resolved = Supply("resolved", 7)
      /\ Event # Absent
  BY ValuesAreUsable DEF Context, Resolved, Usable
<1>2. /\ Event.observation = 3 /\ Event.evidence = 4 /\ Event.observed = 5 /\ Event.verified = 6
  BY DEF Event, Observed, Verified
<1>3. Context.resolved \in {7, Absent}
  BY <1>1, SuppliedOrAbsent
<1>4. ~Late(5, 6) /\ ~Late(6, Context.resolved)
  BY <1>3 DEF Late
<1>5. answer.observation = 3 /\ answer.observed = 5 /\ answer.evidence = 4
  BY ResultAnswers
<1>6. CASE "event" \in withheld
  <2>1. Context.event = Absent
    BY <1>1, <1>6, SuppliedOrAbsent
  <2>2. QED
    BY <1>6, <2>1 DEF EventIssues
<1>7. CASE "event" \notin withheld
  <2>1. Context.event = Event
    BY <1>1, <1>7, SuppliedOrAbsent
  <2>2. QED
    BY <1>1, <1>2, <1>4, <1>5, <1>7, <2>1 DEF EventIssues, Issue
<1>8. QED
  BY <1>6, <1>7

\* The observation behind a result is the right one and in time.
LEMMA ObservationIsFound ==
  ASSUME TypeOK, source # Absent, answer \in Answers, answer.kind = "result"
  PROVE  LET found == ObservationIssues(Exchange, answer, Context, <<"a">>)
         IN /\ withheld \cap {"manifest", "request", "response", "bytes", "evaluated"} = {} =>
                 (found = {} <=> source = SourceResult)
            /\ "bytes" \in withheld => found # {}
            /\ source = SourceResult => found \subseteq {"missing"}
<1> DEFINE found == ObservationIssues(Exchange, answer, Context, <<"a">>)
           a == Exchange.response
           b == P2C(Exchange)
           r == Context.reference
           There == withheld \cap {"manifest", "request", "response"} = {}
           Elsewhere == /\ IsResult(a)
                        /\ \/ Differ(a.source, Field(r, "source"))
                           \/ Differ(a.provenance.source, Field(r, "source"))
           InTime == ObservationInTime(Exchange, Context)
<1>1. /\ a = Supply("response", source) /\ source \in SourceAnswers /\ Usable(source)
      /\ Usable(a) <=> "response" \notin withheld
      /\ \/ Exchange.bytes = Absent
         \/ source.kind = "result" /\ Exchange.bytes = source.payload.text
      /\ source.kind = "result" => (Exchange.bytes = Absent <=> "bytes" \in withheld)
      /\ SourceLinks(Exchange, r, <<"a">>) = {}
  BY PartsOfSource, ValuesAreUsable DEF TypeOK
<1>2. "response" \notin withheld => a = source
  BY <1>1, SuppliedOrAbsent
<1>3. b = IF ~There THEN {"missing"}
          ELSE ExchangeIssues(Manifest, SourceRequest, source, Exchange.bytes)
  BY SourceIsFound
<1>4. found = Issue(Elsewhere, "source_observation") \cup (b \cap {"missing"})
              \cup Issue(Exchange.bytes = Absent, "missing")
              \cup Issue(b \ {"missing"} # {} \/ IsError(a), "source_observation")
              \cup Issue(~InTime, "timestamps")
  BY <1>1 DEF ObservationIssues
<1>5. /\ Context.authority.evaluated \in {4, Absent}
      /\ "evaluated" \notin withheld => Context.authority.evaluated = 4
      /\ Context.event \in {Event, Absent} /\ Event.observed = 5 /\ 4 # Absent /\ 3 # Absent
  <2>1. /\ Context.authority.evaluated = Supply("evaluated", 4)
        /\ Context.event = Supply("event", Event)
    BY DEF Context, Evaluated
  <2>2. QED
    BY <2>1, SuppliedOrAbsent, ValuesAreUsable DEF Usable, Event, Observed
<1>6. Field(r, "source") \in {"s", Absent}
  <2>1. r \in {reference, Absent}
    BY SuppliedOrAbsent DEF Context
  <2>2. QED
    BY <2>1, FieldsOfRecords DEF Field, Usable
<1>7. SourceResult.kind = "result"
  BY DEF SourceResult
<1> HIDE DEF found, a, b, r
<1>8. CASE source.kind # "result"
  <2>1. source # SourceResult
    BY <1>7, <1>8
  <2>2. Exchange.bytes = Absent
    BY <1>1, <1>8
  <2>3. QED
    BY <1>4, <2>1, <2>2 DEF Issue, found
<1>9. CASE source.kind = "result"
  <2>1. /\ b \ {"missing"} # {} => There /\ source # SourceResult
        /\ There => (b = {} <=> source = SourceResult \/ source.provenance.observed = 3)
        /\ There => "missing" \notin b
        /\ source = SourceResult => b \subseteq {"missing"}
    <3>1. ExchangeIssues(Manifest, SourceRequest, source, Exchange.bytes) =
            IF source = SourceResult \/ source.provenance.observed = 3 THEN {}
            ELSE IF source.provenance.source = "t" THEN {"provenance_source"}
            ELSE IF source.provenance.fp = OtherText THEN {"provenance_fingerprint"}
            ELSE IF source.limits.truncated THEN {"truncation"}
            ELSE IF source.request # 2 THEN {"linkage"} ELSE {"target"}
      BY <1>1, <1>9, ExchangeIsFound
    <3>2. QED
      BY <1>3, <3>1
  <2>2. /\ source.provenance.observed \in {3, 5} /\ source.source = "s"
        /\ source = SourceResult <=> Is(source, 2, "a", FALSE, "s", Text, 5)
    BY <1>1, <1>9, ResultsOfSource DEF Is
  <2>3. ~IsError(a) /\ (IsResult(a) <=> "response" \notin withheld)
    BY <1>1, <1>2, <1>9 DEF IsError, IsResult
  <2>4. source = SourceResult => ~Elsewhere
    BY <1>2, <1>6, <2>2, <2>3 DEF Differ, Is
  <2>5. source = SourceResult => InTime
    <3>1. source = SourceResult /\ IsResult(a) => a.provenance.observed = 5
      BY <1>2, <2>2, <2>3 DEF Is
    <3>2. /\ ~Late(Context.authority.evaluated, 5)
          /\ Context.event # Absent => ~Late(5, Context.event.observed)
      BY <1>5 DEF Late
    <3>3. QED
      BY <3>1, <3>2 DEF ObservationInTime, a
  <2>6. withheld \cap {"response", "evaluated"} = {} /\ source.provenance.observed = 3 => ~InTime
    <3>1. Late(4, 3)
      BY <1>5 DEF Late
    <3> SUFFICES ASSUME withheld \cap {"response", "evaluated"} = {},
                        source.provenance.observed = 3, InTime
                 PROVE FALSE
      OBVIOUS
    <3>2. /\ IsResult(Exchange.response) /\ Exchange.response.provenance.observed = 3
          /\ Context.authority.evaluated = 4
      BY <1>2, <1>5, <2>3 DEF a
    <3>3. ~Late(Context.authority.evaluated, Exchange.response.provenance.observed)
      BY <3>2 DEF ObservationInTime
    <3>4. QED
      BY <3>1, <3>2, <3>3
  <2>7. Exchange.bytes = Absent <=> "bytes" \in withheld
    BY <1>1, <1>9
  <2> HIDE DEF Elsewhere, InTime
  <2>8. source = SourceResult =>
          /\ found \subseteq {"missing"}
          /\ There /\ "bytes" \notin withheld => found = {}
    BY <1>4, <2>1, <2>3, <2>4, <2>5, <2>7 DEF Issue
  <2>9. There /\ "evaluated" \notin withheld /\ found = {} => source = SourceResult
    BY <1>4, <2>1, <2>6 DEF Issue
  <2>10. "bytes" \in withheld => found # {}
    BY <1>4, <2>7 DEF Issue
  <2>11. QED
    BY <2>8, <2>9, <2>10 DEF found
<1>10. QED
  BY <1>8, <1>9

LEMMA OthersAreNoPart == ~Narrows(<<"b">>, <<"a">>)
BY DEF Narrows

\* The item is of the entry that was opened, and its text the one observed.
LEMMA PayloadIsFound ==
  ASSUME TypeOK, source # Absent, answer \in Answers, answer.kind = "result"
  PROVE  LET found == PayloadIssues(answer, Context, <<"a">>)
             Right == answer.payload[1].entry = "a" /\ answer.payload[1].text = Text
         IN /\ withheld \cap {"exchanges", "request", "response"} = {} /\ source.kind = "result" =>
                 (found = {} <=> Right)
            /\ "exchanges" \in withheld => found # {}
            /\ Right => found \subseteq {"missing"}
<1> DEFINE found == PayloadIssues(answer, Context, <<"a">>)
           Right == answer.payload[1].entry = "a" /\ answer.payload[1].text = Text
           entry == answer.payload[1].entry
           text == answer.payload[1].text
           e == Exchange
           es == Exchanges(Context)
           Chosen == {k \in 1..1 : /\ Usable(es[k].request) /\ IsResult(es[k].response)
                                   /\ es[k].response.operation = "read"}
           Items == UNION {ItemIssues(answer.payload[i], es[i]) : i \in Chosen}
<1>1. /\ answer.payload = <<answer.payload[1]>> /\ Len(answer.payload) = 1
      /\ answer.payload[1].count = 1 /\ answer.payload[1].type = "markdown"
      /\ text \in {Text, OtherText} /\ entry \in {"a", "b"}
      /\ answer.payload[1].fp = text /\ answer.fp = text /\ answer.entries = <<entry>>
      /\ Len(answer.payload) = 1
  <2>1. answer.payload = <<answer.payload[1]>>
    BY ResultAnswers
  <2>2. Len(answer.payload) = 1
    BY <2>1
  <2>3. QED
    BY <2>1, <2>2, ResultAnswers
<1>2. es = IF "exchanges" \in withheld THEN <<>> ELSE <<e>>
  BY OneExchange
<1>3. /\ <<"a">> # Absent /\ [i \in 1..1 |-> answer.payload[i].entry] = <<entry>>
      /\ Narrows(<<entry>>, <<"a">>) <=> entry = "a"
      /\ Text # OtherText
  <2>1. <<"a">> # Absent /\ Text # OtherText
    BY ValuesAreUsable DEF Usable, Text, OtherText
  <2>2. Narrows(<<entry>>, <<"a">>) <=> entry = "a"
    <3>1. CASE entry = "a"
      BY <3>1, NarrowsItself
    <3>2. CASE entry = "b"
      BY <3>2, OthersAreNoPart
    <3>3. QED
      BY <1>1, <3>1, <3>2
  <2>3. QED
    BY <2>1, <2>2
<1>4. OneToOne(answer, Context) <=> "exchanges" \notin withheld
  <2>1. CASE "exchanges" \in withheld
    BY <1>1, <1>2, <2>1 DEF OneToOne
  <2>2. CASE "exchanges" \notin withheld
    <3>1. Context.exchanges # Absent
      BY <1>2, <2>2 DEF Exchanges
    <3>2. \A i, j \in 1..1 : i = j
      OBVIOUS
    <3>3. QED
      BY <1>1, <1>2, <2>2, <3>1, <3>2, EvidenceAssumption DEF OneToOne
  <2>3. QED
    BY <2>1, <2>2
<1>5. found = Issue(entry # "a", "selection")
              \cup (IF "exchanges" \in withheld THEN {"missing"}
                    ELSE Items
                         \cup Issue(/\ \A i \in 1..1 : es[i].bytes # Absent
                                    /\ answer.fp # Aggregate(answer, es), "provenance"))
  <2> DEFINE n == Len(answer.payload)
             actual == [i \in 1..n |-> answer.payload[i].entry]
             Outside == \/ <<"a">> # Absent /\ ~Narrows(answer.entries, <<"a">>)
                        \/ \E i \in 1..n : /\ <<"a">> # Absent
                                           /\ \A j \in DOMAIN <<"a">> : <<"a">>[j] # actual[i]
             Other == /\ \A i \in 1..1 : es[i].bytes # Absent
                      /\ answer.fp # Aggregate(answer, es)
  <2>1. found = Issue(Outside, "selection")
                \cup (IF ~OneToOne(answer, Context) THEN {"missing"}
                      ELSE Issue(answer.entries # actual, "provenance")
                           \cup Issue(<<"a">> # Absent /\ ~Narrows(actual, <<"a">>), "selection")
                           \cup Items \cup Issue(Other, "provenance"))
    BY <1>1 DEF PayloadIssues
  <2>2. actual = <<entry>> /\ n = 1
    BY <1>1, <1>3
  <2>3. Outside <=> entry # "a"
    BY <1>1, <1>3, <2>2
  <2> HIDE DEF found, Items, Other, Outside, actual
  <2>4. /\ Issue(answer.entries # actual, "provenance") = {}
        /\ Issue(<<"a">> # Absent /\ ~Narrows(actual, <<"a">>), "selection")
             = Issue(entry # "a", "selection")
    BY <1>1, <1>3, <2>2 DEF Issue
  <2>5. Issue(Outside, "selection") = Issue(entry # "a", "selection")
    BY <2>3 DEF Issue
  <2>6. found = Issue(entry # "a", "selection")
                \cup (IF "exchanges" \in withheld THEN {"missing"}
                      ELSE Items \cup Issue(Other, "provenance"))
    BY <1>4, <2>1, <2>4, <2>5
  <2>7. QED
    BY <2>6 DEF Other
<1> HIDE DEF found, es, Items, e
<1>6. CASE "exchanges" \in withheld
  BY <1>5, <1>6 DEF Issue, found
<1>7. CASE "exchanges" \notin withheld
  <2>1. es = <<e>> /\ es[1] = e
    BY <1>2, <1>7
  <2>2. answer.fp = Aggregate(answer, es)
    BY <1>1, <2>1 DEF Aggregate
  <2>3. Chosen \subseteq {1} /\ (1 \in Chosen <=> /\ Usable(e.request) /\ IsResult(e.response)
                                                  /\ e.response.operation = "read")
    BY <2>1
  <2> HIDE DEF Chosen
  <2>4. Items = IF 1 \in Chosen THEN ItemIssues(answer.payload[1], e) ELSE {}
    <3>1. CASE 1 \in Chosen
      <4>1. Chosen = {1}
        BY <2>3, <3>1
      <4>2. QED
        BY <2>1, <3>1, <4>1 DEF Items
    <3>2. CASE 1 \notin Chosen
      <4>1. Chosen = {}
        BY <2>3, <3>2
      <4>2. QED
        BY <3>2, <4>1 DEF Items
    <3>3. QED
      BY <3>1, <3>2
  <2>5. found = Issue(entry # "a", "selection")
                \cup (IF 1 \in Chosen THEN ItemIssues(answer.payload[1], e) ELSE {})
    BY <1>5, <1>7, <2>2, <2>4 DEF Issue
  <2>6. /\ e.response = Supply("response", source) /\ e.request = Supply("request", SourceRequest)
        /\ Usable(e.request) <=> "request" \notin withheld
        /\ Usable(e.response) <=> "response" \notin withheld
        /\ \/ e.bytes = Absent
           \/ source.kind = "result" /\ e.bytes = source.payload.text
        /\ source \in SourceAnswers
    BY PartsOfSource DEF e, TypeOK
  <2>7. /\ Usable(e.response) => e.response = source
        /\ Usable(e.request) => e.request = SourceRequest
    BY <2>6, SuppliedOrAbsent
  <2>8. 1 \in Chosen <=> withheld \cap {"request", "response"} = {} /\ source.kind = "result"
    <3>1. source.kind = "result" => source.operation = "read"
      BY <2>6, ResultsOfSource
    <3>2. QED
      BY <2>3, <2>6, <2>7, <3>1 DEF IsResult
  <2>9. 1 \in Chosen => ItemIssues(answer.payload[1], e) = Issue(~Right, "payload")
    <3> SUFFICES ASSUME 1 \in Chosen
                 PROVE ItemIssues(answer.payload[1], e) = Issue(~Right, "payload")
      OBVIOUS
    <3>1. /\ e.request.locator = "a" /\ e.response.payload.text = Text
          /\ e.response.payload.type = "markdown" /\ e.bytes \in {Text, Absent}
      <4>1. /\ source.kind = "result" /\ e.response = source /\ e.request = SourceRequest
        BY <2>6, <2>7, <2>8
      <4>2. source.payload.text = Text /\ source.payload.type = "markdown"
        BY <2>6, <4>1, ResultsOfSource
      <4>3. QED
        BY <2>6, <4>1, <4>2, SourceFacts
    <3>2. Differ(entry, "a") <=> entry # "a"
      <4>1. "a" # Absent /\ "b" # Absent
        BY MarksAreApart DEF Words
      <4>2. QED
        BY <1>1, <4>1 DEF Differ
    <3>3. Len(Text) = 1
      BY DEF Text
    <3>4. QED
      BY <1>1, <3>1, <3>2, <3>3 DEF ItemIssues, Issue
  <2>10. found = Issue(entry # "a", "selection") \cup Issue(1 \in Chosen /\ ~Right, "payload")
    BY <2>5, <2>9 DEF Issue
  <2>11. QED
    BY <1>7, <2>8, <2>10 DEF Issue, found
<1>8. QED
  BY <1>6, <1>7

LEMMA ResultIsSettled ==
  ASSUME TypeOK, BindingIsMade, source # Absent, answer \in Answers, answer.kind = "result"
  PROVE  Settled
<1> DEFINE Right == answer.payload[1].entry = "a" /\ answer.payload[1].text = Text
           Payload == PayloadIssues(answer, Context, <<"a">>)
           Observation == ObservationIssues(Exchange, answer, Context, <<"a">>)
           There == {"manifest", "request", "response", "scope"}
           BindingOff == "referenceBytes" \notin withheld /\ answer.referenceFp # reference
           Occurrence == EventIssues(answer, Context)
           Outer == ResultOfIssues(Query, answer, Context, <<"a">>, Chain)
<1>1. Exchanges(Context) = IF "exchanges" \in withheld THEN <<>> ELSE <<Exchange>>
  BY OneExchange
<1>2. /\ (\/ Differ(answer.binding, Field(Context.binding, "id"))
          \/ Differ(answer.referenceFp, FingerprintOf(Context.authority.referenceBytes)))
           <=> BindingOff
      /\ ~Differ(answer.source, Field(Context.reference, "source"))
  <2>1. /\ answer.binding = "B" /\ answer.source = "s" /\ Usable(answer.referenceFp)
        /\ Usable(reference) /\ Usable(binding)
    BY ResultAnswers, ValuesAreUsable DEF TypeOK
  <2>2. /\ Context.reference \in {reference, Absent} /\ Context.binding \in {binding, Absent}
        /\ Context.authority.referenceBytes = Supply("referenceBytes", reference)
    BY SuppliedOrAbsent DEF Context
  <2>3. /\ Field(Context.reference, "source") \in {"s", Absent}
        /\ Field(Context.binding, "id") \in {"B", Absent}
    BY <2>1, <2>2, FieldsOfRecords DEF Field, Usable
  <2>4. FingerprintOf(Context.authority.referenceBytes) =
          IF "referenceBytes" \in withheld THEN Absent ELSE reference
    BY <2>1, <2>2, SuppliedOrAbsent DEF FingerprintOf, Usable
  <2>5. Differ(answer.referenceFp, FingerprintOf(Context.authority.referenceBytes)) <=> BindingOff
    BY <2>1, <2>4 DEF Differ, Usable
  <2>6. QED
    BY <2>1, <2>3, <2>5 DEF Differ
<1>3. Outer = Issue(~(Chain \subseteq {"missing"}), "not_eligible")
              \cup Issue(BindingOff, "binding") \cup Occurrence \cup Payload
              \cup (IF "exchanges" \in withheld THEN {}
                    ELSE Issue(withheld \cap There # {}, "missing") \cup Observation)
  <2> DEFINE es == Exchanges(Context)
             Seen == UNION {PartsOfExchange(e) \cup ObservationIssues(e, answer, Context, <<"a">>) :
                              e \in {es[i] : i \in DOMAIN es}}
             Bound == \/ Differ(answer.binding, Field(Context.binding, "id"))
                      \/ Differ(answer.referenceFp, FingerprintOf(Context.authority.referenceBytes))
             Foreign == Differ(answer.source, Field(Context.reference, "source"))
             First == Issue(Decide(Chain) = "REJECT", "not_eligible")
  <2>1. Outer = First \cup Issue(Bound, "binding") \cup Issue(Foreign, "provenance")
                \cup LimitIssues(Query, answer) \cup Occurrence \cup Payload \cup Seen
    BY DEF ResultOfIssues
  <2>2. First = Issue(~(Chain \subseteq {"missing"}), "not_eligible")
    <3>1. Decide(Chain) = "REJECT" <=> ~(Chain \subseteq {"missing"})
      BY ChainIsFound, AuthorityIsFound
    <3>2. QED
      BY <3>1 DEF Issue
  <2>3. Seen = IF "exchanges" \in withheld THEN {}
               ELSE Issue(withheld \cap There # {}, "missing") \cup Observation
    <3>1. CASE "exchanges" \in withheld
      <4>1. es = <<>>
        BY <1>1, <3>1
      <4>2. {es[i] : i \in DOMAIN es} = {}
        BY <4>1
      <4>3. Seen = {}
        BY <4>2
      <4>4. QED
        BY <3>1, <4>3
    <3>2. CASE "exchanges" \notin withheld
      <4>1. es = <<Exchange>>
        BY <1>1, <3>2
      <4>2. {es[i] : i \in DOMAIN es} = {Exchange}
        BY <4>1
      <4>3. Seen = PartsOfExchange(Exchange) \cup Observation
        BY <4>2
      <4>4. QED
        BY <3>2, <4>3, PartsOfSource
    <3>3. QED
      BY <3>1, <3>2
  <2>4. /\ LimitIssues(Query, answer) = {} /\ Issue(Foreign, "provenance") = {}
        /\ Issue(Bound, "binding") = Issue(BindingOff, "binding")
    BY <1>2, LimitsAreKept DEF Issue
  <2> HIDE DEF Outer, First, Bound, Foreign, Seen, Occurrence, Payload, Observation
  <2>5. QED
    BY <2>1, <2>2, <2>3, <2>4
<1>4. Issues = Issue(withheld \cap (AuthorityParts \cup {"resolved"}) # {}, "missing")
               \cup Issue(answer.request # 1, "linkage") \cup Outer
  BY IssuesOfAnswer
<1>5. Needed = AuthorityParts \cup {"resolved", "bytes", "exchanges", "event"} \cup There
  BY DEF Needed, ExchangeParts
<1>6. True <=> Sincere /\ source = SourceResult /\ MayResolve
  BY ResultAnswers DEF True
<1>7. /\ withheld \cap {"exchanges", "request", "response"} = {} /\ source.kind = "result" =>
            (Payload = {} <=> Right)
      /\ "exchanges" \in withheld => Payload # {}
      /\ Right => Payload \subseteq {"missing"}
  BY PayloadIsFound
<1>8. /\ withheld \cap {"manifest", "request", "response", "bytes", "evaluated"} = {} =>
            (Observation = {} <=> source = SourceResult)
      /\ "bytes" \in withheld => Observation # {}
      /\ source = SourceResult => Observation \subseteq {"missing"}
  BY ObservationIsFound
<1>9. Occurrence = IF "event" \in withheld THEN {"missing"} ELSE Issue(answer.verified # 6, "event")
  BY EventIsFound
<1>10. /\ MayResolve => Chain \subseteq {"missing"}
       /\ withheld \cap AuthorityParts = {} => (Chain \subseteq {"missing"} <=> MayResolve)
  <2>1. withheld \cap AuthorityParts = {} => "missing" \notin Chain
    BY ChainIsFound DEF ChainIs
  <2>2. QED
    BY <2>1, ChainIsFound, AuthorityIsFound
<1>11. SourceResult.kind = "result"
  BY DEF SourceResult
<1>12. Sincere <=> answer.request = 1 /\ answer.referenceFp = reference /\ answer.verified = 6 /\ Right
  BY DEF Sincere
<1> HIDE DEF Right, Payload, Observation, There, BindingOff, Occurrence, Outer
<1>13. withheld \cap Needed # {} => Issues # {}
  BY <1>3, <1>4, <1>5, <1>7, <1>8, <1>9 DEF Issue
<1>14. withheld \cap Needed = {} => (Issues = {} <=> True)
  <2>1. ASSUME withheld \cap Needed = {} PROVE Issues = {} <=> True
    <3>1. /\ withheld \cap (AuthorityParts \cup {"resolved"}) = {} /\ withheld \cap There = {}
          /\ withheld \cap AuthorityParts = {} /\ "exchanges" \notin withheld
          /\ "event" \notin withheld /\ "referenceBytes" \notin withheld
          /\ withheld \cap {"exchanges", "request", "response"} = {}
          /\ withheld \cap {"manifest", "request", "response", "bytes", "evaluated"} = {}
      BY <1>5, <2>1 DEF AuthorityParts, There
    <3>2. Issues = Issue(answer.request # 1, "linkage")
                   \cup Issue(~(Chain \subseteq {"missing"}), "not_eligible")
                   \cup Issue(answer.referenceFp # reference, "binding")
                   \cup Issue(answer.verified # 6, "event") \cup Payload \cup Observation
      BY <1>3, <1>4, <1>9, <3>1 DEF Issue, BindingOff
    <3>3. Issues = {} <=> /\ answer.request = 1 /\ MayResolve /\ answer.referenceFp = reference
                          /\ answer.verified = 6 /\ Payload = {} /\ source = SourceResult
      BY <1>8, <1>10, <3>1, <3>2 DEF Issue
    <3>4. QED
      BY <1>6, <1>7, <1>11, <1>12, <3>1, <3>3
  <2>2. QED
    BY <2>1
<1>15. True => Issues \subseteq {"missing"}
  <2>1. ASSUME True PROVE Issues \subseteq {"missing"}
    <3>1. /\ answer.request = 1 /\ ~BindingOff /\ answer.verified = 6 /\ Right
          /\ Payload \subseteq {"missing"} /\ Observation \subseteq {"missing"}
          /\ Chain \subseteq {"missing"} /\ Occurrence \subseteq {"missing"}
      BY <1>6, <1>7, <1>8, <1>9, <1>10, <1>12, <2>1 DEF BindingOff, Issue
    <3>2. QED
      BY <1>3, <1>4, <3>1 DEF Issue
  <2>2. QED
    BY <2>1
<1>16. QED
  BY <1>13, <1>14, <1>15 DEF Settled

-----------------------------------------------------------------------------
(* The invariant                                                           *)

LEMMA BindingsAreMade ==
  ASSUME NEW r \in References, NEW p \in Profiles,
         NEW operations \in {{"resolve_context"}, {"get_reference"}},
         NEW when \in {2, 3}
  PROVE  /\ BindingOf(r, p, operations, when) \in Bindings
         /\ BindingOf(r, p, operations, when).scope = r.scope
         /\ BindingOf(r, p, operations, when).referenceFp = r
<1>1. r.id = "R" /\ r.scope \in {"all", "some"} /\ p.id = "P"
  BY DEF References, Profiles
<1>2. QED
  BY <1>1 DEF BindingOf, Bindings

LEMMA VerdictsAreFour ==
  ASSUME NEW q, NEW out, NEW c
  PROVE  Verdict(q, out, c) \in {"PASS", "NEEDS_REVIEW", "ERROR", "REJECT"}
BY DEF Verdict, Decide

LEMMA EvidenceStarts == Init => IInv
<1> SUFFICES ASSUME Init PROVE IInv
  OBVIOUS
<1>1. FirstReference \in References /\ FirstProfile \in Profiles
  BY DEF FirstReference, FirstProfile, References, Profiles, Statuses
<1>2. /\ FirstBinding \in Bindings /\ FirstBinding.scope = FirstReference.scope
      /\ FirstBinding.referenceFp = FirstReference
  BY <1>1, BindingsAreMade DEF FirstBinding
<1>3. TypeOK
  BY <1>1, <1>2, EvidenceAssumption DEF Init, TypeOK
<1>4. QED
  BY <1>2, <1>3 DEF Init, IInv, BindingIsMade

\* The owner changes one record at a time, and only while nothing is answered.
LEMMA ChangeKeeps == IInv /\ Change => IInv'
<1> SUFFICES ASSUME IInv, Change PROVE IInv'
  OBVIOUS
<1>1. TypeOK /\ BindingIsMade
  BY DEF IInv
<1>2. /\ source' = source /\ answer' = answer /\ withheld' = withheld /\ verdict' = verdict
      /\ answer = Absent /\ changes' \in 0..MaxChanges
  BY <1>1, EvidenceAssumption DEF Change, TypeOK
<1>3. /\ reference' \in References /\ profile' \in Profiles /\ binding' \in Bindings
      /\ selection' \in [client : {"me", "you"}, transport : {"T", "U"}, binding : Bindings]
      /\ BindingIsMade'
  <2>1. CASE Transit
    <3>1. PICK to \in Statuses : reference' = [reference EXCEPT !.status = to]
      BY <2>1 DEF Transit
    <3>2. reference' \in References
      BY <1>1, <3>1 DEF TypeOK, References
    <3>3. QED
      BY <1>1, <2>1, <3>2 DEF Transit, TypeOK, BindingIsMade
  <2>2. CASE Register
    <3>1. PICK clients \in {{"you"}, {"me"}}, scope \in {"all", "some"} :
            reference' = [reference EXCEPT !.clients = clients, !.scope = scope]
      BY <2>2 DEF Register
    <3>2. reference' \in References
      BY <1>1, <3>1 DEF TypeOK, References
    <3>3. QED
      BY <1>1, <2>2, <3>2 DEF Register, TypeOK, BindingIsMade
  <2>3. CASE Suspend
    <3>1. \A p \in Profiles : /\ [p EXCEPT !.status = "suspended"] \in Profiles
                              /\ [p EXCEPT !.expires = Evaluated] \in Profiles
                              /\ [p EXCEPT !.client = "you"] \in Profiles
      BY DEF Profiles
    <3>2. profile' \in Profiles
      BY <1>1, <2>3, <3>1 DEF Suspend, TypeOK
    <3>3. QED
      BY <1>1, <2>3, <3>2 DEF Suspend, TypeOK, BindingIsMade
  <2>4. CASE Rebind
    <3>1. PICK operations \in {{"resolve_context"}, {"get_reference"}} :
            /\ binding' = BindingOf(reference, profile, operations, 3)
            /\ selection' \in {selection,
                 [selection EXCEPT !.binding = binding', !.client = profile.client]}
      BY <2>4 DEF Rebind
    <3>2. /\ binding' \in Bindings /\ binding'.scope = reference.scope
          /\ binding'.referenceFp = reference
      <4>1. reference \in References /\ profile \in Profiles /\ 3 \in {2, 3}
        BY <1>1 DEF TypeOK
      <4> DEFINE made == BindingOf(reference, profile, operations, 3)
      <4>2. made \in Bindings /\ made.scope = reference.scope /\ made.referenceFp = reference
        BY <4>1, BindingsAreMade
      <4> HIDE DEF made
      <4>3. binding' = made
        BY <3>1 DEF made
      <4>4. QED
        BY <4>2, <4>3
    <3>3. profile.client \in {"me", "you"}
      BY <1>1, FieldsOfRecords
    <3>4. selection' \in [client : {"me", "you"}, transport : {"T", "U"}, binding : Bindings]
      BY <1>1, <3>1, <3>2, <3>3 DEF TypeOK
    <3>5. QED
      BY <1>1, <2>4, <3>2, <3>4 DEF Rebind, TypeOK, BindingIsMade
  <2>5. CASE Reroute
    BY <1>1, <2>5 DEF Reroute, TypeOK, BindingIsMade
  <2>6. QED
    BY <2>1, <2>2, <2>3, <2>4, <2>5 DEF Change
<1>4. TypeOK'
  BY <1>1, <1>2, <1>3 DEF TypeOK
<1>5. QED
  BY <1>2, <1>3, <1>4 DEF IInv

LEMMA AnswersStay == ASSUME reference' = reference PROVE Answers' = Answers
BY DEF Answers, Dishonest, ResultOf, ErrorOf

LEMMA AnswerKeeps == IInv /\ Answer => IInv'
<1> SUFFICES ASSUME IInv, Answer PROVE IInv'
  OBVIOUS
<1>1. TypeOK /\ BindingIsMade
  BY DEF IInv
<1>2. /\ UNCHANGED <<reference, profile, binding, selection, changes, withheld>>
      /\ verdict' = Verdict(Query, answer', Context')
  BY DEF Answer, Check
<1>3. answer' \in Answers
  BY DEF Answer, Answers, Reasons
<1>4. source' \in SourceAnswers
  BY DEF Answer, SourceAnswers
<1>5. answer' \in Disclosures \cup Refusals /\ source' # Absent
  BY <1>1, <1>3, <1>4, AnswersAreShaped, ValuesAreUsable DEF Usable
<1>6. TypeOK'
  BY <1>1, <1>2, <1>4, <1>5, VerdictsAreFour DEF TypeOK
<1>7. BindingIsMade'
  BY <1>1, <1>2 DEF BindingIsMade
<1>8. answer' \in Answers'
  BY <1>2, <1>3, AnswersStay
<1>9. QED
  BY <1>2, <1>5, <1>6, <1>7, <1>8 DEF IInv

LEMMA WithholdKeeps == IInv /\ Withhold => IInv'
<1> SUFFICES ASSUME IInv, Withhold PROVE IInv'
  OBVIOUS
<1>1. /\ TypeOK /\ BindingIsMade /\ answer # Absent /\ source # Absent /\ answer \in Answers
  BY DEF IInv, Withhold
<1>2. /\ UNCHANGED <<reference, profile, binding, selection, source, changes, answer>>
      /\ verdict' = Verdict(Query, answer', Context') /\ withheld' \subseteq Parts
  BY <1>1 DEF Withhold, Check, TypeOK
<1>3. TypeOK'
  BY <1>1, <1>2, VerdictsAreFour DEF TypeOK
<1>4. BindingIsMade'
  BY <1>1, <1>2 DEF BindingIsMade
<1>5. answer' \in Answers'
  BY <1>1, <1>2, AnswersStay
<1>6. QED
  BY <1>1, <1>2, <1>3, <1>4, <1>5 DEF IInv

\* In every reachable state the binding was made of some records of the owner, the
\* answer is one a resolver gives, and the verdict is that of the present evidence.
THEOREM EvidenceInduction == Spec => []IInv
<1>1. IInv /\ UNCHANGED vars => IInv'
  <2> SUFFICES ASSUME IInv, UNCHANGED vars PROVE IInv'
    OBVIOUS
  <2>1. /\ TypeOK' /\ BindingIsMade' /\ answer' = answer /\ source' = source
        /\ verdict' = verdict /\ reference' = reference
    BY DEF IInv, vars, TypeOK, BindingIsMade
  <2>2. Context' = Context
    BY DEF vars, Context, Exchange, Supply, FromSource
  <2>3. QED
    BY <2>1, <2>2, AnswersStay DEF IInv
<1>2. IInv /\ [Next]_vars => IInv'
  BY <1>1, ChangeKeeps, AnswerKeeps, WithholdKeeps DEF Next
<1>3. QED
  BY <1>2, EvidenceStarts, PTL DEF Spec

-----------------------------------------------------------------------------
(* What an accepted answer says                                            *)

\* And a true answer is never refused, two entangled reasons excepted.
Judged ==
  /\ AcceptedExactlyWhenTrue
  /\ answer # Absent /\ True /\ ~Entangled => verdict \in {"PASS", "NEEDS_REVIEW"}

LEMMA AnswersAreJudged == IInv => Judged
<1> SUFFICES ASSUME IInv, answer # Absent
             PROVE  /\ verdict = "PASS" <=> True /\ withheld \cap Needed = {}
                    /\ True /\ ~Entangled => verdict \in {"PASS", "NEEDS_REVIEW"}
  BY DEF Judged, AcceptedExactlyWhenTrue
<1>1. /\ TypeOK /\ BindingIsMade /\ source # Absent /\ answer \in Answers
      /\ verdict = Decide(Issues)
  BY DEF IInv, Verdict, Issues
<1>2. Settled
  BY <1>1, ResultIsSettled, FailureIsSettled, RefusalIsSettled
<1>3. verdict = "PASS" <=> Issues = {}
  BY <1>1, PassIsClean
<1>4. Issues \subseteq {"missing"} => Decide(Issues) \in {"PASS", "NEEDS_REVIEW"}
  BY DEF Decide, Incomplete, Unavailable
<1>5. QED
  BY <1>1, <1>2, <1>3, <1>4 DEF Settled

\* Every answer is judged as it deserves: accepted exactly when it is true with all it
\* needs, and, if true and not entangled, never refused, whatever is missing.
THEOREM EvidenceIsJudged == Spec => []Judged
BY EvidenceInduction, AnswersAreJudged, PTL

\* The records, the answer and the evidence keep their shapes.
THEOREM EvidenceTypes == Spec => []TypeOK
<1>1. IInv => TypeOK
  BY DEF IInv
<1>2. QED
  BY <1>1, EvidenceInduction, PTL

\* The check accepts an answer exactly when it is true of the records of the
\* owner and of the source, and none of the parts the answer needs is withheld.
THEOREM AcceptedIsTrue == Spec => []AcceptedExactlyWhenTrue
<1>1. Judged => AcceptedExactlyWhenTrue
  BY DEF Judged
<1>2. QED
  BY <1>1, EvidenceIsJudged, PTL

\* Withholding a part makes no answer accepted, and no accepted one refused, but
\* for the two entangled reasons.
THEOREM WithholdingLeavesOpen == Spec => WithheldIsUndecided
<1> DEFINE Undecided == withheld' # withheld =>
             /\ verdict' = "PASS" => verdict = "PASS"
             /\ verdict = "PASS" /\ ~Entangled => verdict' # "REJECT"
<1>1. Judged /\ Judged' /\ [Next]_vars => [Undecided]_vars
  <2> SUFFICES ASSUME Judged, Judged', Withhold PROVE Undecided
    BY DEF Next, Change, Answer, vars
  <2>1. /\ answer # Absent /\ answer' = answer /\ reference' = reference /\ profile' = profile
        /\ binding' = binding /\ selection' = selection /\ source' = source
        /\ withheld \subseteq withheld'
    BY DEF Withhold
  <2>2. MayResolve' <=> MayResolve
    BY <2>1 DEF MayResolve, BindingHolds
  <2>3. \A code : ReasonHolds(code)' <=> ReasonHolds(code)
    BY <2>1, <2>2 DEF ReasonHolds
  <2>4. True' <=> True
    BY <2>1, <2>2, <2>3 DEF True, ResultOf, ErrorOf
  <2>5. Needed' = Needed /\ (Entangled' <=> Entangled)
    BY <2>1 DEF Needed, Entangled, ErrorOf
  <2>6. withheld' \cap Needed' = {} => withheld \cap Needed = {}
    BY <2>1, <2>5
  <2>7. QED
    BY <2>1, <2>4, <2>5, <2>6 DEF Judged, AcceptedExactlyWhenTrue
<1>2. QED
  BY <1>1, EvidenceIsJudged, PTL DEF Spec, WithheldIsUndecided
=============================================================================
