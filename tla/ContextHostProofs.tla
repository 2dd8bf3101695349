-------------------------- MODULE ContextHostProofs --------------------------
(***************************************************************************)
(* Theorems about one call of the local host, for any texts, any number of *)
(* changes by the owner and any length of time.                            *)
(***************************************************************************)
EXTENDS ContextHost, FiniteSetTheorems, TLAPS

\* Of two groups of records, no record of the first is newer than that of the second.
NoNewer(y, z) ==
  /\ y[1] = z[1] \/ y[1].rev < z[1].rev
  /\ y[2] = z[2] \/ y[2].rev < z[2].rev
  /\ y[3] = z[3] \/ y[3].rev < z[3].rev

\* A binding names the entries of the reference it was made for.
Bound(b) == b.entries = b.referenceFp.entries

\* Each binding was once in the files with the very records it names; without a
\* restoration what is in the files is the newest.
FilesAreSound ==
  /\ Loading => /\ InFiles \in during
                /\ \A y \in ever : <<y[3].referenceFp, y[3].profileFp, y[3]>> \in ever
  /\ \A y \in ever : /\ Bound(y[3])
                     /\ y[1].rev <= changes /\ y[2].rev <= changes /\ y[3].rev <= changes
  /\ Loading /\ "restored" \notin disturbed => \A y \in ever : NoNewer(y, InFiles)

\* Without a restoration: the files as the first load found them parts what was
\* there before from what came while the call was loading.
LoadIsSound ==
  /\ call.at \in {"profile", "binding"} => call.reference \in References
  /\ call.at = "binding" => call.profile \in Profiles
  /\ call.at \in {"profile", "binding"} /\ "restored" \notin disturbed => \E start \in during :
       /\ start[1] = call.reference
       /\ \A y \in during : NoNewer(start, y)
       /\ \A y \in ever : y \in during \/ NoNewer(y, start)
  /\ call.at = "binding" /\ "restored" \notin disturbed => \E y \in during : y[2] = call.profile

\* All three records are loaded.
Loaded ==
  \/ call.at \in {"gate", "asked", "fetched", "replied"}
  \/ call.outcome \notin {"none", "host_error"}

\* The first gate let the call pass.
Authorised ==
  AuthorityIssues(call.reference, call.profile, call.binding, Chain(call.evaluated)) = {}

\* What a call relies on at each stage.
CallIsSound ==
  /\ call.at = "end" <=> call.outcome # "none"
  /\ Loaded =>
       /\ call.reference \in References /\ call.profile \in Profiles /\ call.binding \in Bindings
       /\ Bound(call.binding)
       /\ Agreed => Together \in ever
       /\ Agreed /\ "restored" \notin disturbed => Together \in during
  /\ call.at # "end" => call.verified = Absent
  /\ call.at \notin {"replied", "end"} => call.reply = Absent
  /\ call.at \in {"asked", "fetched", "replied"} =>
       /\ call.request \in Requests \ {Broken, Absent} /\ Served(call.request)
       /\ call.evaluated \in Times /\ Authorised
       /\ "setBack" \notin disturbed => call.evaluated <= now
  /\ call.at = "fetched" => call.adapter \in Adapters

\* A reply is of its moment, and an adapter of the host answers what it read.
ReplyIsSound == call.at = "replied" =>
  /\ call.adapter \in Adapters /\ call.reply \in Results \cup Failures
  /\ call.reply.kind = "result" => call.text \in Contents
  /\ call.adapter # "foreign" => call.reply \in HonestReplies(Observed)
  /\ call.adapter # "foreign" /\ "setBack" \notin disturbed =>
       call.evaluated <= Observed /\ Observed <= now

IInv ==
  /\ TypeOK /\ FilesAreSound /\ LoadIsSound /\ CallIsSound /\ ReplyIsSound
  /\ DisclosedInForce /\ FailuresSayWhy

-----------------------------------------------------------------------------
(* The first check: when a chain of authority is in force                  *)

\* A verdict is a pass exactly when nothing was found.
LEMMA PassIsClean == ASSUME NEW issues PROVE Decide(issues) = "PASS" <=> issues = {}
BY DEF Decide

LEMMA NoIssue == \A condition, name : Issue(condition, name) = {} <=> ~condition
BY DEF Issue

LEMMA RecordsAreUsable ==
  /\ \A v \in References \cup Profiles \cup Bindings : Usable(v)
  /\ \A v \in Times : v \notin {Absent, Broken, TooLarge}
BY ContextHostAssumption, MarksAreApart DEF Usable, Times

LEMMA WordsAreNoMarks == Absent \notin Words
BY MarksAreApart

\* A list narrows itself.
LEMMA NarrowsItself == ASSUME NEW s PROVE Narrows(s, s)
<1> DEFINE f == [i \in DOMAIN s |-> i]
<1>1. /\ f \in [DOMAIN s -> DOMAIN s]
      /\ \A i, j \in DOMAIN s : i < j => f[i] < f[j]
      /\ \A i \in DOMAIN s : s[i] = s[f[i]]
  OBVIOUS
<1>2. QED
  BY <1>1 DEF Narrows

\* The records of the owner at a moment, as the gate looks at them.
Standing(r, p, b, moment) ==
  /\ b.profileFp = p /\ b.referenceFp = r
  /\ r.status = "active" /\ p.status = "active" /\ "resolve_context" \in b.operations
  /\ b.created <= moment /\ moment < p.expires

LEMMA GateIsStanding ==
  ASSUME NEW r \in References, NEW p \in Profiles, NEW b \in Bindings, NEW moment \in Times,
         NEW x, x.referenceBytes = r, x.profileBytes = p, x.bindingBytes = b,
         x.client = p.client, x.bindingFp = b, x.transport = b.transport, x.class = b.class,
         x.operation = "resolve_context", x.evaluated = moment, b.entries = b.referenceFp.entries
  PROVE  AuthorityIssues(r, p, b, x) = {} <=> Standing(r, p, b, moment)
<1>1. Usable(r) /\ Usable(p) /\ Usable(b) /\ moment \notin {Absent, Broken, TooLarge}
  BY RecordsAreUsable
<1>2. /\ b.profileFp \in Profiles /\ b.referenceFp \in References
      /\ Usable(b.profileFp) /\ Usable(b.referenceFp)
  BY RecordsAreUsable DEF Bindings
<1>3. /\ p.client = "me" /\ b.transport = "T" /\ b.class = "local" /\ r.id = "R" /\ p.id = "P"
      /\ b.reference = "R" /\ b.profile = "P" /\ b.scope = "all" /\ r.scope = "all"
      /\ r.clients = {"me"} /\ r.registered = 0 /\ p.created = 0 /\ p.revoked = Absent
      /\ p.expires \in Nat /\ b.created \in Times
  BY ContextHostAssumption DEF References, Profiles, Bindings
<1>4. SuppliedIssues(r, p, b, x) = {}
  <2>1. PartIssues(r) = {} /\ PartIssues(p) = {} /\ PartIssues(b) = {}
    BY <1>1 DEF PartIssues, Issue, Usable
  <2>2. BytesIssues(r, r) = {} /\ BytesIssues(p, p) = {} /\ BytesIssues(b, b) = {}
    BY <1>1 DEF BytesIssues, Issue, Usable
  <2>3. Absent \notin {x.client, x.bindingFp, x.transport, x.class, x.operation, x.evaluated}
    BY <1>1, <1>3, WordsAreNoMarks DEF Usable, Words
  <2>4. QED
    BY <2>1, <2>2, <2>3 DEF SuppliedIssues, Issue
<1>5. Disagreeing(Identities(r, p, b, x)) = {}
  BY <1>1, <1>3 DEF Disagreeing, Identities, Differ, Field
<1>6. Disagreeing(Routes(r, b, x)) = {}
  BY <1>1, <1>3 DEF Disagreeing, Routes, Differ, Field
<1>7. Disagreeing(Fingerprints(b, x)) = {} <=> b.profileFp = p /\ b.referenceFp = r
  <2>1. FingerprintOf(x.profileBytes) = p /\ FingerprintOf(x.referenceBytes) = r
        /\ FingerprintOf(x.bindingBytes) = b
    BY <1>1 DEF FingerprintOf, Usable
  <2>2. Field(b, "profileFp") = b.profileFp /\ Field(b, "referenceFp") = b.referenceFp
    BY <1>1 DEF Field
  <2>3. /\ Differ(b.profileFp, p) <=> b.profileFp # p
        /\ Differ(b.referenceFp, r) <=> b.referenceFp # r
        /\ ~Differ(b, b)
    BY <1>1, <1>2 DEF Differ, Usable
  <2>4. Fingerprints(b, x) = [profile_fingerprint |-> <<b.profileFp, p>>,
                              reference_fingerprint |-> <<b.referenceFp, r>>,
                              binding_fingerprint |-> <<b, b>>]
    BY <2>1, <2>2 DEF Fingerprints
  <2>5. QED
    BY <2>3, <2>4 DEF Disagreeing
<1>8. RecordIssues(r, p, b, x) = {} <=>
        /\ r.status = "active" /\ p.status = "active" /\ "resolve_context" \in b.operations
        /\ Narrows(b.entries, r.entries)
  <2>1. "resolve_context" # Absent
    BY WordsAreNoMarks DEF Words
  <2>2. QED
    BY <1>1, <1>3, <2>1 DEF RecordIssues, Issue
<1>9. TimeIssues(r, p, b, x) = {} <=> b.created <= moment /\ moment < p.expires
  <2>1. /\ Field(p, "created") = 0 /\ Field(r, "registered") = 0 /\ Field(b, "created") = b.created
        /\ Field(p, "revoked") = Absent /\ Field(p, "expires") = p.expires
    BY <1>1, <1>3 DEF Field
  <2>2. /\ b.created \in Nat /\ moment \in Nat /\ p.expires \in Nat
        /\ b.created # Absent /\ moment # Absent /\ p.expires # Absent /\ 0 # Absent
    BY <1>3, ContextHostAssumption, MarksAreApart DEF Times
  <2>3. /\ ~Late(0, b.created) /\ ~Late(0, moment) /\ ~Late(Absent, moment)
        /\ ~Late(0, p.expires) /\ ~Late(0, Absent)
        /\ Late(b.created, moment) <=> b.created > moment
    BY <2>2 DEF Late
  <2>4. Expired(p, x) <=> moment >= p.expires
    BY <2>1, <2>2 DEF Expired
  <2>5. QED
    BY <2>1, <2>2, <2>3, <2>4 DEF TimeIssues, Issue
<1>10. b.referenceFp = r => Narrows(b.entries, r.entries)
  BY NarrowsItself
<1>11. QED
  BY <1>4, <1>5, <1>6, <1>7, <1>8, <1>9, <1>10 DEF AuthorityIssues, Standing

-----------------------------------------------------------------------------
(* The owner and the clock                                                 *)

LEMMA RevisionsAreNumbers ==
  /\ \A v \in References \cup Profiles \cup Bindings : v.rev \in Nat
  /\ \A t \in Times : t \in Nat
BY ContextHostAssumption DEF References, Profiles, Bindings, Times

\* While the records are loaded nothing has come of the call.
LEMMA NothingYet ==
  ASSUME IInv, Loading, call' = call
  PROVE  /\ CallIsSound' /\ ReplyIsSound' /\ DisclosedInForce' /\ FailuresSayWhy'
<1>1. /\ call.outcome = "none" /\ call.at \in {"reference", "profile", "binding"}
      /\ call.verified = Absent /\ call.reply = Absent
  BY DEF IInv, CallIsSound, Loading
<1>2. CallIsSound'
  BY <1>1 DEF CallIsSound, Loaded
<1>3. ReplyIsSound'
  BY <1>1 DEF ReplyIsSound
<1>4. DisclosedInForce' /\ FailuresSayWhy'
  BY <1>1 DEF DisclosedInForce, FailuresSayWhy
<1>5. QED
  BY <1>2, <1>3, <1>4

\* A record that is put into its file is new, or was there before.
LEMMA PutSound ==
  ASSUME IInv, Loading, call' = call, now' = now, changes' \in 0..MaxChanges,
         changes' = changes + 1,
         NEW kind \in Kinds, NEW record, Put(kind, record),
         kind = "reference" => record \in References,
         kind = "profile" => record \in Profiles,
         kind = "binding" => record \in Bindings /\ Bound(record),
         record.rev <= changes',
         kind = "binding" =>
           \/ <<record.referenceFp, record.profileFp>> = <<records.reference, records.profile>>
           \/ <<record.referenceFp, record.profileFp, record>> \in ever,
         \/ disturbed' = disturbed /\ record.rev = changes'
         \/ disturbed' = disturbed \cup {"restored"}
  PROVE  IInv'
<1>1. /\ records \in [reference : References, profile : Profiles, binding : Bindings]
      /\ InFiles \in during /\ during \subseteq ever
      /\ ever \subseteq References \X Profiles \X Bindings /\ changes \in Nat
  BY ContextHostAssumption DEF IInv, TypeOK, FilesAreSound
<1>2. /\ records' \in [reference : References, profile : Profiles, binding : Bindings]
      /\ InFiles' \in References \X Profiles \X Bindings
      /\ InFiles' = <<IF kind = "reference" THEN record ELSE records.reference,
                     IF kind = "profile" THEN record ELSE records.profile,
                     IF kind = "binding" THEN record ELSE records.binding>>
  BY <1>1 DEF Put, InFiles, Kinds
<1>3. /\ ever' = ever \cup {InFiles'} /\ during' = during \cup {InFiles'} /\ torn' \subseteq torn
  BY DEF Put
<1>4. TypeOK'
  BY <1>1, <1>2, <1>3 DEF IInv, TypeOK
<1> DEFINE new == InFiles'
<1>5. /\ new \in References \X Profiles \X Bindings
      /\ new = <<IF kind = "reference" THEN record ELSE records.reference,
                 IF kind = "profile" THEN record ELSE records.profile,
                 IF kind = "binding" THEN record ELSE records.binding>>
  BY <1>2
<1> HIDE DEF new
<1>6. FilesAreSound'
  <2>1. <<new[3].referenceFp, new[3].profileFp, new[3]>> \in ever'
    <3>1. CASE kind = "binding"
      BY <1>3, <1>5, <3>1 DEF new
    <3>2. CASE kind # "binding"
      BY <1>1, <1>3, <1>5, <3>2 DEF IInv, FilesAreSound, InFiles
    <3>3. QED
      BY <3>1, <3>2
  <2>2. /\ Bound(new[3])
        /\ new[1].rev <= changes' /\ new[2].rev <= changes' /\ new[3].rev <= changes'
    <3>1. /\ Bound(records.binding) /\ records.reference.rev <= changes
          /\ records.profile.rev <= changes /\ records.binding.rev <= changes
      BY <1>1 DEF IInv, FilesAreSound, InFiles
    <3>2. QED
      BY <1>1, <1>5, <3>1, RevisionsAreNumbers
  <2>3. \A y \in ever : y[1].rev <= changes' /\ y[2].rev <= changes' /\ y[3].rev <= changes'
    BY <1>1, RevisionsAreNumbers DEF IInv, FilesAreSound
  <2>4. "restored" \notin disturbed' => \A y \in ever' : NoNewer(y, InFiles')
    <3> SUFFICES ASSUME "restored" \notin disturbed', NEW y \in ever PROVE NoNewer(y, new)
      BY <1>3 DEF new, NoNewer
    <3>1. record.rev = changes' /\ "restored" \notin disturbed
      OBVIOUS
    <3>2. NoNewer(y, InFiles) /\ y[1].rev <= changes /\ y[2].rev <= changes /\ y[3].rev <= changes
      BY <3>1 DEF IInv, FilesAreSound
    <3>3. QED
      BY <1>1, <1>5, <3>1, <3>2, RevisionsAreNumbers DEF NoNewer, InFiles
  <2>5. QED
    BY <1>3, <2>1, <2>2, <2>3, <2>4 DEF IInv, FilesAreSound, new, Bound
<1>7. LoadIsSound'
  <2>1. call.at \in {"profile", "binding"} /\ "restored" \notin disturbed' => \E start \in during' :
          /\ start[1] = call.reference
          /\ \A y \in during' : NoNewer(start, y)
          /\ \A y \in ever' : y \in during' \/ NoNewer(y, start)
    <3> SUFFICES ASSUME call.at \in {"profile", "binding"}, "restored" \notin disturbed'
                 PROVE  \E start \in during' :
                          /\ start[1] = call.reference
                          /\ \A y \in during' : NoNewer(start, y)
                          /\ \A y \in ever' : y \in during' \/ NoNewer(y, start)
      OBVIOUS
    <3>1. record.rev = changes' /\ "restored" \notin disturbed
      OBVIOUS
    <3>2. PICK start \in during : /\ start[1] = call.reference
                                  /\ \A y \in during : NoNewer(start, y)
                                  /\ \A y \in ever : y \in during \/ NoNewer(y, start)
      BY <3>1 DEF IInv, LoadIsSound
    <3>3. NoNewer(start, InFiles) /\ start[1].rev <= changes /\ start[2].rev <= changes
          /\ start[3].rev <= changes
      BY <1>1, <3>2 DEF IInv, FilesAreSound
    <3>4. NoNewer(start, new)
      BY <1>1, <1>5, <3>1, <3>3, RevisionsAreNumbers DEF NoNewer, InFiles
    <3>5. QED
      BY <1>3, <3>2, <3>4 DEF new
  <2>2. QED
    BY <1>3, <2>1 DEF IInv, LoadIsSound
<1>8. QED
  BY <1>4, <1>6, <1>7, NothingYet DEF IInv

LEMMA OwnerSound == ASSUME IInv, Owner PROVE IInv'
<1>1. /\ Loading /\ call' = call /\ now' = now /\ changes' = changes + 1
      /\ changes' \in 0..MaxChanges /\ changes' \in Nat
      /\ records \in [reference : References, profile : Profiles, binding : Bindings]
      /\ now \in Times /\ changes \in Nat /\ InFiles \in during /\ during \subseteq ever
      /\ ever \subseteq References \X Profiles \X Bindings
  BY ContextHostAssumption DEF Owner, IInv, TypeOK, FilesAreSound
<1>2. CASE Publish
  <2>1. PICK kind \in Kinds :
          \E record \in Published(kind) : Put(kind, record) /\ UNCHANGED disturbed
    BY <1>2 DEF Publish
  <2>2. PICK record \in Published(kind) : Put(kind, record) /\ UNCHANGED disturbed
    BY <2>1
  <2>3. CASE kind = "reference"
    <3>1. PICK status \in {"active", "paused"} :
            record = Reference(changes + 1, status, records.reference.entries,
                               records.reference.pinned, records.reference.policies)
      BY <2>2, <2>3 DEF Published
    <3>2. record \in References /\ record.rev = changes' /\ record.rev <= changes'
      BY <1>1, <3>1 DEF References, Reference
    <3>3. QED
      BY <1>1, <2>2, <2>3, <3>2, PutSound
  <2>4. CASE kind = "profile"
    <3>1. record \in {Profile(changes + 1, "active", MaxTime),
                     Profile(changes + 1, "suspended", MaxTime + 1)}
      BY <2>2, <2>4 DEF Published
    <3>2. record \in Profiles /\ record.rev = changes' /\ record.rev <= changes'
      BY <1>1, <3>1, ContextHostAssumption DEF Profiles, Profile
    <3>3. QED
      BY <1>1, <2>2, <2>4, <3>2, PutSound
  <2>5. CASE kind = "binding"
    <3>1. PICK operations \in {{"resolve_context"}, {"get_reference"}} :
            record = Binding(changes + 1, records.reference, records.profile, operations, now)
      BY <2>2, <2>5 DEF Published
    <3>2. /\ record \in Bindings /\ record.rev = changes' /\ record.rev <= changes' /\ Bound(record)
          /\ record.referenceFp = records.reference /\ record.profileFp = records.profile
      BY <1>1, <3>1 DEF Bindings, Binding, Bound, References
    <3>3. QED
      BY <1>1, <2>2, <2>5, <3>2, PutSound
  <2>6. QED
    BY <2>3, <2>4, <2>5 DEF Kinds
<1>3. CASE Restore
  <2>1. PICK kind \in Kinds, together \in ever :
          LET record == CASE kind = "reference" -> together[1] [] kind = "profile" -> together[2]
                          [] OTHER -> together[3]
          IN Put(kind, record) /\ disturbed' = disturbed \cup {"restored"}
    BY <1>3 DEF Restore
  <2>2. /\ together[1] \in References /\ together[2] \in Profiles /\ together[3] \in Bindings
        /\ Bound(together[3]) /\ together[1].rev <= changes' /\ together[2].rev <= changes'
        /\ together[3].rev <= changes'
        /\ <<together[3].referenceFp, together[3].profileFp, together[3]>> \in ever
    BY <1>1, RevisionsAreNumbers DEF IInv, FilesAreSound
  <2>3. CASE kind = "reference"
    BY <1>1, <2>1, <2>2, <2>3, PutSound
  <2>4. CASE kind = "profile"
    BY <1>1, <2>1, <2>2, <2>4, PutSound
  <2>5. CASE kind = "binding"
    BY <1>1, <2>1, <2>2, <2>5, PutSound
  <2>6. QED
    BY <2>3, <2>4, <2>5 DEF Kinds
<1>4. CASE Tear
  <2>1. torn' \subseteq Kinds /\ UNCHANGED <<records, ever, during, disturbed>>
    BY <1>4 DEF Tear, IInv, TypeOK
  <2>2. TypeOK' /\ InFiles' = InFiles
    BY <1>1, <2>1 DEF IInv, TypeOK, InFiles
  <2>3. \A y \in ever : y[1].rev <= changes' /\ y[2].rev <= changes' /\ y[3].rev <= changes'
    BY <1>1, RevisionsAreNumbers DEF IInv, FilesAreSound
  <2>4. FilesAreSound' /\ LoadIsSound'
    BY <1>1, <2>1, <2>2, <2>3 DEF IInv, FilesAreSound, LoadIsSound, Loading
  <2>5. QED
    BY <1>1, <2>2, <2>4, NothingYet DEF IInv
<1>5. QED
  BY <1>2, <1>3, <1>4 DEF Owner

LEMMA ClockSound == ASSUME IInv, Clock PROVE IInv'
<1>1. /\ call.outcome = "none" /\ call.at # "end"
      /\ UNCHANGED <<records, torn, call, changes, ever, during>>
      /\ now' \in Times /\ disturbed' \subseteq {"restored", "setBack"}
      /\ "restored" \in disturbed' <=> "restored" \in disturbed
      /\ "setBack" \notin disturbed' => now <= now' /\ "setBack" \notin disturbed
      /\ now \in Nat /\ now' \in Nat
  <2>1. /\ now \in Nat /\ now <= MaxTime /\ MaxTime \in Nat
        /\ disturbed \subseteq {"restored", "setBack"}
        /\ call.at = "end" <=> call.outcome # "none"
    BY ContextHostAssumption DEF IInv, TypeOK, Times, CallIsSound
  <2>2. /\ call.outcome = "none" /\ UNCHANGED <<records, torn, call, changes, ever, during>>
        /\ \/ now < MaxTime /\ now' = now + 1 /\ disturbed' = disturbed
           \/ now > 0 /\ now' = now - 1 /\ disturbed' = disturbed \cup {"setBack"}
    BY DEF Clock
  <2>3. CASE now < MaxTime /\ now' = now + 1 /\ disturbed' = disturbed
    BY <2>1, <2>2, <2>3 DEF Times
  <2>4. CASE now > 0 /\ now' = now - 1 /\ disturbed' = disturbed \cup {"setBack"}
    <3>1. now' \in Times /\ now' \in Nat
      BY <2>1, <2>4 DEF Times
    <3>2. /\ disturbed' \subseteq {"restored", "setBack"} /\ "setBack" \in disturbed'
          /\ "restored" \in disturbed' <=> "restored" \in disturbed
      BY <2>1, <2>4
    <3>3. QED
      BY <2>1, <2>2, <3>1, <3>2
  <2>5. QED
    BY <2>2, <2>3, <2>4
<1>2. TypeOK' /\ FilesAreSound' /\ LoadIsSound'
  BY <1>1 DEF IInv, TypeOK, FilesAreSound, LoadIsSound, InFiles, Loading
<1>3. CallIsSound'
  <2>1. Authorised' = Authorised /\ Loaded' = Loaded /\ Together' = Together /\ Agreed' = Agreed
    BY <1>1 DEF Authorised, Chain, Loaded, Together, Agreed
  <2>2. call.request \in Requests \ {Broken, Absent} => Served(call.request)' = Served(call.request)
    BY <1>1 DEF Served, EntriesOf
  <2>3. call.at \in {"asked", "fetched", "replied"} =>
          /\ call.evaluated \in Nat
          /\ "setBack" \notin disturbed' => call.evaluated <= now'
    <3>1. call.at \in {"asked", "fetched", "replied"} =>
            call.evaluated \in Times /\ ("setBack" \notin disturbed => call.evaluated <= now)
      BY DEF IInv, CallIsSound
    <3>2. call.at \in {"asked", "fetched", "replied"} => call.evaluated \in Nat
      BY <3>1, RevisionsAreNumbers
    <3>3. QED
      BY <1>1, <3>1, <3>2
  <2>4. QED
    BY <1>1, <2>1, <2>2, <2>3 DEF IInv, CallIsSound
<1>4. ReplyIsSound'
  <2> SUFFICES ASSUME call.at = "replied" PROVE ReplyIsSound'
    BY <1>1 DEF ReplyIsSound
  <2>1. /\ Observed' = Observed /\ SourceRequest' = SourceRequest
        /\ HonestReplies(Observed)' = HonestReplies(Observed)
    BY <1>1 DEF Observed, SourceRequest, EntriesOf, HonestReplies, CodesOf, ErrorFrom, ResultFrom
  <2>2. Observed \in Nat
    BY RevisionsAreNumbers DEF IInv, ReplyIsSound, Observed, Results, Failures
  <2>3. QED
    BY <1>1, <2>1, <2>2 DEF IInv, ReplyIsSound
<1>5. DisclosedInForce' /\ FailuresSayWhy'
  <2>1. InForce(call.evaluated)' = InForce(call.evaluated) /\ Together' = Together
    BY <1>1 DEF InForce, Together, Agreed, Permitted
  <2>2. QED
    BY <1>1, <2>1 DEF IInv, DisclosedInForce, FailuresSayWhy
<1>6. QED
  BY <1>2, <1>3, <1>4, <1>5 DEF IInv

-----------------------------------------------------------------------------
(* The three loads                                                         *)

LEMMA Ended ==
  ASSUME call \in Calls, NEW outcome, End(outcome),
         outcome \in {"host_error", "execution_unavailable", "invalid_input", "source_failure",
                     "validation_failure", "protocol_error", "success"}
  PROVE  /\ call' \in Calls /\ call'.at = "end" /\ call'.outcome = outcome
         /\ call'.request = call.request /\ call'.adapter = call.adapter
         /\ call'.reference = call.reference /\ call'.profile = call.profile
         /\ call'.binding = call.binding /\ call'.evaluated = call.evaluated
         /\ call'.verified = call.verified /\ call'.text = call.text /\ call'.reply = call.reply
<1> DEFINE r == [call EXCEPT !.at = "end", !.outcome = outcome]
<1>1. call' = r
  BY DEF End
<1>2. r \in Calls
  <2> DEFINE q == [call EXCEPT !.at = "end"]
  <2>1. q \in Calls /\ r = [q EXCEPT !.outcome = outcome]
    BY DEF Calls
  <2> HIDE DEF q, r
  <2>2. [q EXCEPT !.outcome = outcome] \in Calls
    BY <2>1 DEF Calls
  <2>3. QED
    BY <2>1, <2>2
<1>3. /\ r.at = "end" /\ r.outcome = outcome
      /\ r.request = call.request /\ r.adapter = call.adapter
      /\ r.reference = call.reference /\ r.profile = call.profile
      /\ r.binding = call.binding /\ r.evaluated = call.evaluated
      /\ r.verified = call.verified /\ r.text = call.text /\ r.reply = call.reply
  BY DEF Calls
<1> HIDE DEF r
<1>4. QED
  BY <1>1, <1>2, <1>3

\* A call that ends while it loads has nothing to say.
LEMMA LoadFails ==
  ASSUME IInv, Loading, End("host_error"),
         UNCHANGED <<records, torn, now, changes, disturbed>>,
         ever' \subseteq ever, during' \subseteq ever'
  PROVE  IInv'
<1>1. call' \in Calls /\ call'.at = "end" /\ call'.outcome = "host_error"
  BY Ended DEF IInv, TypeOK
<1>2. TypeOK' /\ FilesAreSound' /\ LoadIsSound'
  BY <1>1 DEF IInv, TypeOK, FilesAreSound, LoadIsSound, Loading
<1>3. CallIsSound' /\ ReplyIsSound'
  BY <1>1 DEF CallIsSound, ReplyIsSound, Loaded
<1>4. DisclosedInForce' /\ FailuresSayWhy'
  BY <1>1 DEF DisclosedInForce, FailuresSayWhy
<1>5. QED
  BY <1>2, <1>3, <1>4 DEF IInv

LEMMA LoadReferenceSound == ASSUME IInv, Load("reference", "profile") PROVE IInv'
<1>1. /\ call.at = "reference" /\ Loading /\ call \in Calls /\ call.outcome = "none"
      /\ records.reference \in References /\ InFiles \in during /\ during \subseteq ever
      /\ during' = {InFiles} /\ ever' = ever /\ UNCHANGED <<records, torn, now, changes, disturbed>>
      /\ call.verified = Absent /\ call.reply = Absent
  BY DEF Load, Loading, IInv, TypeOK, FilesAreSound, CallIsSound
<1>2. CASE "reference" \in torn
  BY <1>1, <1>2, LoadFails DEF Load
<1>3. CASE "reference" \notin torn
  <2> DEFINE r == [call EXCEPT !.reference = records.reference, !.at = "profile"]
  <2>1. /\ r \in Calls /\ r.at = "profile" /\ r.reference = records.reference
        /\ r.outcome = "none" /\ r.verified = Absent /\ r.reply = Absent
    BY <1>1 DEF Calls
  <2>2. call' = r
    BY <1>3 DEF Load
  <2> HIDE DEF r
  <2>3. TypeOK' /\ InFiles' = InFiles
    BY <1>1, <2>1, <2>2 DEF IInv, TypeOK, InFiles
  <2>4. FilesAreSound'
    BY <1>1, <2>1, <2>2, <2>3 DEF IInv, FilesAreSound, Loading
  <2>5. LoadIsSound'
    <3>1. InFiles[1] = records.reference /\ NoNewer(InFiles, InFiles)
      BY DEF InFiles, NoNewer
    <3>2. "restored" \notin disturbed => \A y \in ever : NoNewer(y, InFiles)
      BY <1>1 DEF IInv, FilesAreSound
    <3>3. QED
      BY <1>1, <2>1, <2>2, <3>1, <3>2 DEF LoadIsSound
  <2>6. CallIsSound' /\ ReplyIsSound' /\ DisclosedInForce' /\ FailuresSayWhy'
    BY <2>1, <2>2 DEF CallIsSound, Loaded, ReplyIsSound, DisclosedInForce, FailuresSayWhy
  <2>7. QED
    BY <2>3, <2>4, <2>5, <2>6 DEF IInv
<1>4. QED
  BY <1>2, <1>3

LEMMA LoadProfileSound == ASSUME IInv, Load("profile", "binding") PROVE IInv'
<1>1. /\ call.at = "profile" /\ Loading /\ call \in Calls /\ call.outcome = "none"
      /\ records.profile \in Profiles /\ InFiles \in during /\ during \subseteq ever
      /\ during' = during /\ ever' = ever /\ UNCHANGED <<records, torn, now, changes, disturbed>>
      /\ call.verified = Absent /\ call.reply = Absent
  BY DEF Load, Loading, IInv, TypeOK, FilesAreSound, CallIsSound
<1>2. CASE "profile" \in torn
  BY <1>1, <1>2, LoadFails DEF Load
<1>3. CASE "profile" \notin torn
  <2> DEFINE r == [call EXCEPT !.profile = records.profile, !.at = "binding"]
  <2>1. /\ r \in Calls /\ r.at = "binding" /\ r.profile = records.profile
        /\ r.reference = call.reference
        /\ r.outcome = "none" /\ r.verified = Absent /\ r.reply = Absent
    BY <1>1 DEF Calls
  <2>2. call' = r
    BY <1>3 DEF Load
  <2> HIDE DEF r
  <2>3. TypeOK' /\ InFiles' = InFiles
    BY <1>1, <2>1, <2>2 DEF IInv, TypeOK, InFiles
  <2>4. FilesAreSound'
    BY <1>1, <2>1, <2>2, <2>3 DEF IInv, FilesAreSound, Loading
  <2>5. LoadIsSound'
    <3>1. InFiles[2] = records.profile
      BY DEF InFiles
    <3>2. QED
      BY <1>1, <2>1, <2>2, <3>1 DEF IInv, LoadIsSound
  <2>6. CallIsSound' /\ ReplyIsSound' /\ DisclosedInForce' /\ FailuresSayWhy'
    BY <2>1, <2>2 DEF CallIsSound, Loaded, ReplyIsSound, DisclosedInForce, FailuresSayWhy
  <2>7. QED
    BY <2>3, <2>4, <2>5, <2>6 DEF IInv
<1>4. QED
  BY <1>2, <1>3

\* What a binding names was in the files with it, and if nothing came back, while
\* the call was loading: before the first load only what the first load found.
LEMMA LoadBindingSound == ASSUME IInv, Load("binding", "gate") PROVE IInv'
<1> DEFINE loaded == <<call'.reference, call'.profile, call'.binding>>
<1>1. /\ call.at = "binding" /\ Loading /\ call \in Calls /\ call.outcome = "none"
      /\ records.binding \in Bindings /\ InFiles \in during /\ during \subseteq ever
      /\ during' = during \cap {loaded} /\ ever' = ever \cap {loaded}
      /\ UNCHANGED <<records, torn, now, changes, disturbed>>
      /\ call.verified = Absent /\ call.reply = Absent
      /\ call.reference \in References /\ call.profile \in Profiles
      /\ ever \subseteq References \X Profiles \X Bindings
  BY DEF Load, Loading, IInv, TypeOK, FilesAreSound, CallIsSound, LoadIsSound
<1>2. CASE "binding" \in torn
  BY <1>1, <1>2, LoadFails DEF Load
<1>3. CASE "binding" \notin torn
  <2> DEFINE b == records.binding
             r == [call EXCEPT !.binding = b, !.at = "gate"]
             named == <<b.referenceFp, b.profileFp, b>>
  <2>1. /\ r \in Calls /\ r.at = "gate" /\ r.binding = b
        /\ r.reference = call.reference /\ r.profile = call.profile
        /\ r.outcome = "none" /\ r.verified = Absent /\ r.reply = Absent
    BY <1>1 DEF Calls
  <2>2. call' = r
    BY <1>3 DEF Load
  <2> HIDE DEF r
  <2>3. TypeOK'
    BY <1>1, <2>1, <2>2 DEF IInv, TypeOK
  <2>4. FilesAreSound' /\ LoadIsSound'
    BY <1>1, <2>1, <2>2 DEF IInv, FilesAreSound, LoadIsSound, Loading
  <2>5. named \in ever /\ Bound(b) /\ InFiles[3] = b
    BY <1>1 DEF IInv, FilesAreSound, InFiles
  <2>6. ASSUME b.referenceFp = call.reference, b.profileFp = call.profile,
               "restored" \notin disturbed
        PROVE  named \in during
    <3>1. PICK start \in during : /\ start[1] = call.reference
                                  /\ \A y \in during : NoNewer(start, y)
                                  /\ \A y \in ever : y \in during \/ NoNewer(y, start)
      BY <1>1, <2>6 DEF IInv, LoadIsSound
    <3>2. PICK y \in during : y[2] = call.profile
      BY <1>1, <2>6 DEF IInv, LoadIsSound
    <3>3. NoNewer(start, y) /\ NoNewer(start, InFiles)
      BY <1>1, <3>1
    <3>4. CASE NoNewer(named, start)
      <4>1. start \in References \X Profiles \X Bindings /\ y \in References \X Profiles \X Bindings
            /\ named[1] = start[1] /\ named[2] = y[2] /\ named[3] = InFiles[3]
        BY <1>1, <2>5, <2>6, <3>1, <3>2
      <4>2. start[2].rev \in Nat /\ start[3].rev \in Nat
            /\ y[2].rev \in Nat /\ InFiles[3].rev \in Nat
        BY <1>1, <2>5, <4>1, RevisionsAreNumbers
      <4>3. named[2] = start[2] /\ named[3] = start[3]
        BY <3>3, <3>4, <4>1, <4>2 DEF NoNewer
      <4>4. named = start
        BY <1>1, <2>5, <4>1, <4>3
      <4>5. QED
        BY <3>1, <4>4
    <3>5. QED
      BY <2>5, <3>1, <3>4
  <2>7. /\ Agreed' <=> b.referenceFp = call.reference /\ b.profileFp = call.profile
        /\ Together' = loaded /\ (Agreed' => loaded = named)
    BY <2>1, <2>2 DEF Agreed, Together
  <2>8. CallIsSound'
    BY <1>1, <2>1, <2>2, <2>5, <2>6, <2>7 DEF CallIsSound, Loaded
  <2>9. ReplyIsSound' /\ DisclosedInForce' /\ FailuresSayWhy'
    BY <2>1, <2>2 DEF ReplyIsSound, DisclosedInForce, FailuresSayWhy
  <2>10. QED
    BY <2>3, <2>4, <2>8, <2>9 DEF IInv
<1>4. QED
  BY <1>2, <1>3

-----------------------------------------------------------------------------
(* From the first gate to the reply                                        *)

\* When all is loaded, a step of the call leaves the owner's side as it is.
LEMMA WorldStays ==
  ASSUME IInv, ~Loading, UNCHANGED World, call' \in Calls,
         call'.at \notin {"reference", "profile", "binding"}
  PROVE  TypeOK' /\ FilesAreSound' /\ LoadIsSound'
<1>1. TypeOK'
  BY DEF IInv, TypeOK, World
<1>2. FilesAreSound'
  BY DEF IInv, FilesAreSound, World, Loading
<1>3. LoadIsSound'
  BY DEF LoadIsSound
<1>4. QED
  BY <1>1, <1>2, <1>3

SameRecords ==
  call'.reference = call.reference /\ call'.profile = call.profile /\ call'.binding = call.binding

\* A call that ends owes no more than what its outcome says.
LEMMA EndSound ==
  ASSUME IInv, call.at \in {"gate", "asked", "fetched", "replied"}, UNCHANGED World, SameRecords,
         call' \in Calls, call'.at = "end", call'.outcome # "none",
         DisclosedInForce', FailuresSayWhy'
  PROVE  IInv'
<1>1. TypeOK' /\ FilesAreSound' /\ LoadIsSound'
  BY WorldStays DEF Loading
<1>2. CallIsSound'
  BY DEF IInv, CallIsSound, Loaded, SameRecords, World, Agreed, Together
<1>3. ReplyIsSound'
  BY DEF ReplyIsSound
<1>4. QED
  BY <1>1, <1>2, <1>3 DEF IInv

\* Nothing is said of what only the host could not do, or the source did not answer.
LEMMA QuietEndSound ==
  ASSUME IInv, UNCHANGED World, NEW outcome, End(outcome),
         \/ /\ outcome \in {"host_error", "execution_unavailable"}
            /\ call.at \in {"gate", "asked", "fetched", "replied"}
         \/ outcome = "source_failure" /\ call.at \in {"asked", "fetched"}
  PROVE  IInv'
<1>1. call \in Calls /\ (outcome = "source_failure" => call.reply = Absent)
  BY DEF IInv, TypeOK, CallIsSound
<1>2. /\ call' \in Calls /\ call'.at = "end" /\ call'.outcome = outcome /\ call'.reply = call.reply
      /\ SameRecords
  BY <1>1, Ended DEF SameRecords
<1>3. DisclosedInForce' /\ FailuresSayWhy'
  BY <1>1, <1>2 DEF DisclosedInForce, FailuresSayWhy
<1>4. QED
  BY <1>2, <1>3, EndSound

\* The gate is open exactly when the records are in force.
LEMMA GateSound ==
  ASSUME IInv, Loaded, NEW moment \in Times
  PROVE  /\ (AuthorityIssues(call.reference, call.profile, call.binding, Chain(moment)) = {})
              <=> InForce(moment)
         /\ Gate(moment) = "PASS" <=> InForce(moment)
         /\ Gate(moment) \in {"PASS", "execution_unavailable", "invalid_input"}
<1>1. /\ call.reference \in References /\ call.profile \in Profiles /\ call.binding \in Bindings
      /\ Bound(call.binding) /\ (Agreed => Together \in ever)
  BY DEF IInv, CallIsSound
<1> DEFINE x == Chain(moment)
<1>2. /\ x.referenceBytes = call.reference /\ x.profileBytes = call.profile
      /\ x.bindingBytes = call.binding /\ x.client = call.profile.client
      /\ x.bindingFp = call.binding
      /\ x.transport = call.binding.transport /\ x.class = call.binding.class
      /\ x.operation = "resolve_context" /\ x.evaluated = moment
  BY DEF Chain
<1> HIDE DEF x
<1>3. AuthorityIssues(call.reference, call.profile, call.binding, x) = {}
        <=> Standing(call.reference, call.profile, call.binding, moment)
  BY <1>1, <1>2, GateIsStanding DEF Bound
<1>4. Standing(call.reference, call.profile, call.binding, moment) <=> InForce(moment)
  BY <1>1 DEF Standing, InForce, Agreed, Permitted
<1>5. Gate(moment) = "PASS" <=> AuthorityIssues(call.reference, call.profile, call.binding, x) = {}
  BY PassIsClean DEF Gate, x
<1>6. Gate(moment) \in {"PASS", "execution_unavailable", "invalid_input"}
  BY DEF Gate
<1>7. QED
  BY <1>3, <1>4, <1>5, <1>6 DEF x

\* A call that comes to another place.
Moved(c, at, outcome) == [c EXCEPT !.at = at, !.outcome = outcome]

LEMMA Advanced ==
  ASSUME NEW c \in Calls, NEW at, NEW outcome, NEW r, r = Moved(c, at, outcome),
         at \in {"asked", "fetched", "replied", "end"},
         outcome \in {"none", "execution_unavailable", "invalid_input", "source_failure",
                     "validation_failure", "protocol_error", "success"}
  PROVE  /\ r \in Calls /\ r.at = at /\ r.outcome = outcome
         /\ r.request = c.request /\ r.adapter = c.adapter
         /\ r.reference = c.reference /\ r.profile = c.profile
         /\ r.binding = c.binding /\ r.evaluated = c.evaluated
         /\ r.verified = c.verified /\ r.text = c.text /\ r.reply = c.reply
<1>0. r = [c EXCEPT !.at = at, !.outcome = outcome]
  BY DEF Moved
<1> DEFINE q == [c EXCEPT !.at = at]
<1>1. /\ r.at = at /\ r.outcome = outcome
      /\ r.request = c.request /\ r.adapter = c.adapter
      /\ r.reference = c.reference /\ r.profile = c.profile
      /\ r.binding = c.binding /\ r.evaluated = c.evaluated
      /\ r.verified = c.verified /\ r.text = c.text /\ r.reply = c.reply
  BY <1>0 DEF Calls
<1>2. q \in Calls /\ r = [q EXCEPT !.outcome = outcome]
  BY <1>0 DEF Calls
<1> HIDE DEF q
<1>3. [q EXCEPT !.outcome = outcome] \in Calls
  BY <1>2 DEF Calls
<1>4. r \in Calls
  BY <1>2, <1>3
<1>5. QED
  BY <1>1, <1>4

LEMMA AskSound == ASSUME IInv, Ask PROVE IInv'
<1>1. /\ call.at = "gate" /\ call.outcome = "none" /\ UNCHANGED World /\ call \in Calls /\ Loaded
      /\ now \in Times /\ now \in Nat /\ call.reply = Absent /\ call.verified = Absent
  BY RevisionsAreNumbers DEF Ask, IInv, TypeOK, CallIsSound, Loaded
<1>2. ASSUME NEW request \in Requests \ {Broken},
             call' = [call EXCEPT
               !.request = request, !.evaluated = now,
               !.at = IF Gate(now) = "PASS" /\ Served(request) THEN "asked" ELSE "end",
               !.outcome = IF Gate(now) # "PASS" THEN Gate(now)
                           ELSE IF Served(request) THEN "none" ELSE "invalid_input"]
      PROVE  IInv'
  <2> DEFINE at == IF Gate(now) = "PASS" /\ Served(request) THEN "asked" ELSE "end"
             outcome == IF Gate(now) # "PASS" THEN Gate(now)
                        ELSE IF Served(request) THEN "none" ELSE "invalid_input"
             c == [call EXCEPT !.request = request, !.evaluated = now]
             r == Moved(c, at, outcome)
  <2>1. call' = r
    BY <1>2 DEF Moved
  <2>2. at \in {"asked", "end"}
        /\ outcome \in {"none", "execution_unavailable", "invalid_input"}
        /\ (at = "end" <=> outcome # "none")
    BY <1>1, GateSound
  <2>3. /\ c \in Calls /\ c.request = request /\ c.evaluated = now
        /\ c.reference = call.reference /\ c.profile = call.profile /\ c.binding = call.binding
        /\ c.reply = Absent /\ c.verified = Absent
    BY <1>1 DEF Calls
  <2>4. /\ Gate(now) = "PASS" <=> InForce(now)
        /\ AuthorityIssues(call.reference, call.profile, call.binding, Chain(now)) = {}
             <=> InForce(now)
    BY <1>1, GateSound
  <2>5. /\ at = "asked" => InForce(now) /\ Served(request)
        /\ outcome = "invalid_input" => ~InForce(now) \/ ~Served(request)
    BY <2>4
  <2> HIDE DEF at, outcome, c
  <2>6. /\ r \in Calls /\ r.at = at /\ r.outcome = outcome /\ r.request = request
        /\ r.evaluated = now /\ r.reference = call.reference /\ r.profile = call.profile
        /\ r.binding = call.binding /\ r.reply = Absent /\ r.verified = Absent
    BY <2>2, <2>3, Advanced
  <2> HIDE DEF r
  <2>7. TypeOK' /\ FilesAreSound' /\ LoadIsSound'
    BY <1>1, <2>1, <2>2, <2>6, WorldStays DEF Loading
  <2>8. /\ InForce(call.evaluated)' <=> InForce(now)
        /\ Served(call.request)' <=> Served(request)
        /\ Together' = Together /\ (Agreed' <=> Agreed)
    BY <1>1, <2>1, <2>6 DEF InForce, Together, Agreed, Permitted, World, Served, EntriesOf
  <2>9. /\ Authorised' <=>
             AuthorityIssues(call.reference, call.profile, call.binding, Chain(now)) = {}
        /\ request # Absent
    BY <2>1, <2>6, MarksAreApart DEF Authorised, Chain
  <2>10. CallIsSound'
    BY <1>1, <2>1, <2>2, <2>4, <2>5, <2>6, <2>8, <2>9 DEF IInv, CallIsSound, Loaded, World
  <2>11. ReplyIsSound' /\ FailuresSayWhy'
    BY <2>1, <2>2, <2>5, <2>6, <2>8 DEF ReplyIsSound, FailuresSayWhy
  <2>12. DisclosedInForce'
    <3>1. InForce(now) /\ "restored" \notin disturbed => Together \in during
      BY <1>1 DEF IInv, CallIsSound, InForce
    <3>2. QED
      BY <1>1, <2>1, <2>2, <2>5, <2>6, <2>8, <3>1 DEF DisclosedInForce, World
  <2>13. QED
    BY <2>7, <2>10, <2>11, <2>12 DEF IInv
<1>3. CASE call' = [call EXCEPT !.request = Broken, !.at = "end", !.outcome = "invalid_input"]
  <2> DEFINE c == [call EXCEPT !.request = Broken]
             r == Moved(c, "end", "invalid_input")
  <2>1. call' = r
    BY <1>3 DEF Moved
  <2>2. /\ c \in Calls /\ c.request = Broken /\ c.verified = Absent
        /\ c.reference = call.reference /\ c.profile = call.profile /\ c.binding = call.binding
    BY <1>1 DEF Calls, Requests
  <2> HIDE DEF c
  <2>3. /\ r \in Calls /\ r.at = "end" /\ r.outcome = "invalid_input" /\ r.request = Broken
        /\ r.verified = Absent
        /\ r.reference = call.reference /\ r.profile = call.profile /\ r.binding = call.binding
    BY <2>2, Advanced
  <2> HIDE DEF r
  <2>4. DisclosedInForce' /\ FailuresSayWhy' /\ SameRecords
    BY <2>1, <2>3 DEF DisclosedInForce, FailuresSayWhy, SameRecords
  <2>5. QED
    BY <1>1, <2>1, <2>3, <2>4, EndSound
<1>4. CASE End("host_error") \/ End("execution_unavailable")
  BY <1>1, <1>4, QuietEndSound
<1>5. QED
  BY <1>2, <1>3, <1>4 DEF Ask

LEMMA BadManifestSound == ASSUME IInv, BadManifest PROVE IInv'
<1>1. /\ call.at = "asked" /\ UNCHANGED World /\ call \in Calls /\ call.reply = Absent
  BY DEF BadManifest, IInv, TypeOK, CallIsSound
<1>2. PICK outcome \in {"source_failure", "validation_failure"} :
        call' = [call EXCEPT !.adapter = "foreign", !.at = "end", !.outcome = outcome]
  BY DEF BadManifest
<1> DEFINE c == [call EXCEPT !.adapter = "foreign"]
           r == Moved(c, "end", outcome)
<1>3. call' = r
  BY <1>2 DEF Moved
<1>4. /\ c \in Calls /\ c.adapter = "foreign" /\ c.reply = Absent
      /\ c.reference = call.reference /\ c.profile = call.profile /\ c.binding = call.binding
  BY <1>1 DEF Calls, Adapters
<1> HIDE DEF c
<1>5. /\ r \in Calls /\ r.at = "end" /\ r.outcome = outcome /\ r.adapter = "foreign"
      /\ r.reply = Absent
      /\ r.reference = call.reference /\ r.profile = call.profile /\ r.binding = call.binding
  BY <1>4, Advanced
<1> HIDE DEF r
<1>6. DisclosedInForce' /\ FailuresSayWhy' /\ SameRecords
  BY <1>3, <1>5 DEF DisclosedInForce, FailuresSayWhy, SameRecords
<1>7. QED
  BY <1>1, <1>3, <1>5, <1>6, EndSound

\* What a call has to rely on when it goes on after the first gate.
LEMMA GoesOn ==
  ASSUME IInv, call.at \in {"asked", "fetched"}, UNCHANGED World, SameRecords, call' \in Calls,
         call'.at \in {"fetched", "replied"}, call'.outcome = call.outcome,
         call'.request = call.request, call'.evaluated = call.evaluated,
         call'.verified = call.verified, call'.adapter \in Adapters,
         call'.at = "fetched" => call'.reply = Absent, ReplyIsSound'
  PROVE  IInv'
<1>1. TypeOK' /\ FilesAreSound' /\ LoadIsSound'
  BY WorldStays DEF Loading
<1>2. /\ InForce(call.evaluated)' <=> InForce(call.evaluated)
      /\ Served(call.request)' <=> Served(call.request)
      /\ Together' = Together /\ (Agreed' <=> Agreed) /\ (Authorised' <=> Authorised)
  BY DEF InForce, Together, Agreed, Permitted, World, Served, EntriesOf, SameRecords,
         Authorised, Chain
<1>3. call.outcome = "none" /\ call.verified = Absent /\ Loaded
  BY DEF IInv, CallIsSound, Loaded
<1>4. CallIsSound'
  BY <1>2, <1>3 DEF IInv, CallIsSound, Loaded, World, SameRecords
<1>5. DisclosedInForce' /\ FailuresSayWhy'
  BY <1>2, <1>3 DEF IInv, DisclosedInForce, FailuresSayWhy, World
<1>6. QED
  BY <1>1, <1>4, <1>5 DEF IInv

LEMMA FetchSound == ASSUME IInv, Fetch PROVE IInv'
<1>1. /\ call.at = "asked" /\ UNCHANGED World /\ call \in Calls /\ call.reply = Absent
  BY DEF Fetch, IInv, TypeOK, CallIsSound
<1>2. PICK adapter \in Adapters, text \in Contents \cup {Absent} :
        \/ End("source_failure")
        \/ call' = [call EXCEPT !.adapter = adapter, !.at = "fetched", !.text = text]
  BY DEF Fetch
<1>3. CASE End("source_failure")
  BY <1>1, <1>3, QuietEndSound
<1>4. CASE call' = [call EXCEPT !.adapter = adapter, !.at = "fetched", !.text = text]
  <2> DEFINE q == [call EXCEPT !.adapter = adapter]
             c == [q EXCEPT !.at = "fetched"]
             r == [c EXCEPT !.text = text]
  <2>1. call' = r
    BY <1>4
  <2>2. /\ q \in Calls /\ q.adapter = adapter /\ q.outcome = call.outcome
        /\ q.request = call.request /\ q.evaluated = call.evaluated /\ q.verified = call.verified
        /\ q.reply = call.reply
        /\ q.reference = call.reference /\ q.profile = call.profile /\ q.binding = call.binding
    BY <1>1 DEF Calls
  <2> HIDE DEF q
  <2>3. /\ c \in Calls /\ c.at = "fetched" /\ c.adapter = adapter /\ c.outcome = call.outcome
        /\ c.request = call.request /\ c.evaluated = call.evaluated /\ c.verified = call.verified
        /\ c.reply = call.reply
        /\ c.reference = call.reference /\ c.profile = call.profile /\ c.binding = call.binding
    BY <2>2 DEF Calls
  <2> HIDE DEF c
  <2>4. /\ r \in Calls /\ r.at = "fetched" /\ r.adapter = adapter /\ r.outcome = call.outcome
        /\ r.request = call.request /\ r.evaluated = call.evaluated /\ r.verified = call.verified
        /\ r.reply = call.reply
        /\ r.reference = call.reference /\ r.profile = call.profile /\ r.binding = call.binding
    BY <2>3 DEF Calls
  <2> HIDE DEF r
  <2>5. SameRecords /\ ReplyIsSound'
    BY <2>1, <2>4 DEF SameRecords, ReplyIsSound
  <2>6. QED
    BY <1>1, <2>1, <2>4, <2>5, GoesOn
<1>5. QED
  BY <1>2, <1>3, <1>4

-----------------------------------------------------------------------------
(* The reply                                                               *)

LEMMA RequestShape ==
  ASSUME NEW q \in Requests \ {Broken}
  PROVE  /\ Usable(q) /\ q.request = 1 /\ q.reference \in {"R", "S"} /\ q.maxItems = 1
         /\ q.maxBytes \in Nat \ {0} /\ q.hints \in BOOLEAN
         /\ q.selection \in {Absent} \cup {<<entry>> : entry \in Locators}
<1>1. Usable(q)
  BY MarksAreApart DEF Usable
<1>2. PICK id \in {"R", "S"}, selection \in {Absent} \cup {<<entry>> : entry \in Locators},
           bytes \in Limits, hints \in BOOLEAN :
        q = [request |-> 1, reference |-> id, selection |-> selection, maxItems |-> 1,
             maxBytes |-> bytes, hints |-> hints]
  <2> DEFINE Asking(id, selection, bytes, hints) ==
               [request |-> 1, reference |-> id, selection |-> selection, maxItems |-> 1,
                maxBytes |-> bytes, hints |-> hints]
  <2>1. <<"a">> \in {<<entry>> : entry \in Locators}
    BY DEF Locators
  <2>2. \/ \E bytes \in Limits : q = Asking("R", Absent, bytes, FALSE)
        \/ \E entry \in Locators, bytes \in Limits : q = Asking("R", <<entry>>, bytes, FALSE)
        \/ \E bytes \in Limits : q = Asking("S", <<"a">>, bytes, FALSE)
        \/ \E bytes \in Limits : q = Asking("R", <<"a">>, bytes, TRUE)
    BY DEF Requests
  <2>3. \E id \in {"R", "S"}, selection \in {Absent} \cup {<<entry>> : entry \in Locators},
           bytes \in Limits, hints \in BOOLEAN : q = Asking(id, selection, bytes, hints)
    <3> HIDE DEF Asking
    <3>1. QED
      BY <2>1, <2>2
  <2>4. QED
    BY <2>3
<1>3. QED
  BY <1>1, <1>2, ContextHostAssumption

\* What is asked of the source is one entry, with the lower of the two limits.
LEMMA SourceRequestSound ==
  ASSUME IInv, call.at \in {"asked", "fetched", "replied"}
  PROVE  /\ SourceRequest \in SourceRequests
         /\ SourceRequest.maxBytes <= call.request.maxBytes /\ SourceRequest.maxBytes <= HardBytes
         /\ SourceRequest.maxBytes \in {call.request.maxBytes, HardBytes}
         /\ call.request.maxBytes \in Nat /\ HardBytes \in Nat
<1>1. /\ call.request \in Requests \ {Broken} /\ Served(call.request)
      /\ call.reference \in References
  BY DEF IInv, CallIsSound, Loaded
<1>2. /\ call.request.maxBytes \in Nat /\ HardBytes \in Nat
      /\ call.request.selection \in {Absent} \cup {<<entry>> : entry \in Locators}
  BY <1>1, RequestShape, ContextHostAssumption
<1>3. EntriesOf(call.request)[1] \in Locators
  BY <1>1, <1>2 DEF EntriesOf, References, EntryLists, Locators
<1>4. QED
  BY <1>2, <1>3 DEF SourceRequest, SourceRequests

LEMMA TextsHaveLengths == \A text \in Contents : Len(text) \in Nat
BY ContextHostAssumption

LEMMA ErrorSound ==
  ASSUME NEW code \in Codes, NEW moment \in Times
  PROVE  /\ ErrorFrom(code, moment) \in Failures /\ ErrorFrom(code, moment).kind = "error"
         /\ ErrorFrom(code, moment).code = code /\ ErrorFrom(code, moment).observed = moment
BY DEF ErrorFrom, Failures

LEMMA ResultSound ==
  ASSUME NEW text \in Contents, NEW moment \in Times, SourceRequest \in SourceRequests
  PROVE  /\ ResultFrom(text, moment) \in Results /\ ResultFrom(text, moment).kind = "result"
         /\ ResultFrom(text, moment).provenance.observed = moment
<1>1. Len(text) \in Nat
  BY TextsHaveLengths
<1>2. QED
  BY <1>1 DEF ResultFrom, Results, SourceRequests

\* A distorted reply is a reply.
LEMMA DistortedSound ==
  /\ \A reply \in Failures : \A d \in Distorted(reply) : d \in Failures
  /\ \A reply \in Results : \A d \in Distorted(reply) : d \in Results \cup Failures
<1>1. ASSUME NEW reply \in Failures, NEW d \in Distorted(reply) PROVE d \in Failures
  <2>1. \/ d = [reply EXCEPT !.request = 9] \/ d = [reply EXCEPT !.observed = 0]
        \/ \E code \in Codes : d = [reply EXCEPT !.code = code]
    BY DEF Distorted, Failures
  <2>2. 0 \in Times
    BY ContextHostAssumption DEF Times
  <2>3. CASE \E code \in Codes : d = [reply EXCEPT !.code = code]
    BY <2>3 DEF Failures
  <2>4. QED
    BY <2>1, <2>2, <2>3 DEF Failures
<1>2. ASSUME NEW reply \in Results, NEW d \in Distorted(reply) PROVE d \in Results \cup Failures
  <2>1. \/ d = [reply EXCEPT !.request = 9] \/ d = [reply EXCEPT !.provenance.source = "t"]
        \/ d = [reply EXCEPT !.payload.locator = "c"]
        \/ d = [reply EXCEPT !.provenance.observed = 0]
        \/ d = [reply EXCEPT !.payload.count = 0]
        \/ d = [reply EXCEPT !.limits.truncated = TRUE, !.payload.truncated = TRUE]
        \/ \E text \in Contents : d = [reply EXCEPT !.payload.text = text]
        \/ d = ErrorFrom("limit_exceeded", reply.provenance.observed)
    BY DEF Distorted, Results
  <2>2. 0 \in Times
    BY ContextHostAssumption DEF Times
  <2>3. CASE d = [reply EXCEPT !.request = 9]
    BY <2>3 DEF Results
  <2>4. CASE d = [reply EXCEPT !.provenance.source = "t"]
    BY <2>4 DEF Results
  <2>5. CASE d = [reply EXCEPT !.payload.locator = "c"]
    BY <2>5 DEF Results, Locators
  <2>6. CASE d = [reply EXCEPT !.provenance.observed = 0]
    BY <2>2, <2>6 DEF Results
  <2>7. CASE d = [reply EXCEPT !.payload.count = 0]
    BY <2>7 DEF Results
  <2>8. CASE d = [reply EXCEPT !.limits.truncated = TRUE, !.payload.truncated = TRUE]
    BY <2>8 DEF Results
  <2>9. CASE \E text \in Contents : d = [reply EXCEPT !.payload.text = text]
    BY <2>9 DEF Results
  <2>10. CASE d = ErrorFrom("limit_exceeded", reply.provenance.observed)
    <3>1. reply.provenance.observed \in Times /\ "limit_exceeded" \in Codes
      BY DEF Results, Codes
    <3>2. QED
      BY <2>10, <3>1, ErrorSound
  <2>11. QED
    BY <2>1, <2>3, <2>4, <2>5, <2>6, <2>7, <2>8, <2>9, <2>10
<1>3. QED
  BY <1>1, <1>2

\* An honest reply is of its moment, and a result only if there is a text.
LEMMA HonestSound ==
  ASSUME IInv, call.at \in {"fetched", "replied"}, NEW moment \in Times,
         NEW honest \in HonestReplies(moment)
  PROVE  \/ honest \in Failures /\ honest.kind = "error" /\ honest.observed = moment
         \/ /\ honest \in Results /\ honest.kind = "result"
            /\ honest.provenance.observed = moment /\ call.text \in Contents
<1>1. SourceRequest \in SourceRequests /\ call.text \in Contents \cup {Absent}
  BY SourceRequestSound DEF IInv, TypeOK, Calls
<1>2. CodesOf(call.text) \subseteq Codes
  BY DEF CodesOf, Codes
<1>3. CASE \E code \in CodesOf(call.text) : honest = ErrorFrom(code, moment)
  BY <1>2, <1>3, ErrorSound
<1>4. CASE call.text # Absent /\ honest = ResultFrom(call.text, moment)
  BY <1>1, <1>4, ResultSound
<1>5. QED
  BY <1>3, <1>4 DEF HonestReplies

LEMMA ReplySound == ASSUME IInv, Reply PROVE IInv'
<1>1. /\ call.at = "fetched" /\ UNCHANGED World /\ call \in Calls /\ now \in Times
      /\ call.adapter \in Adapters /\ call.outcome = "none" /\ call.evaluated \in Times
      /\ "setBack" \notin disturbed => call.evaluated <= now
  BY DEF Reply, IInv, TypeOK, CallIsSound
<1>2. CASE End("source_failure")
  BY <1>1, <1>2, QuietEndSound
<1>3. ASSUME NEW honest \in HonestReplies(now),
             NEW reply \in
               {honest} \cup (IF call.adapter = "foreign" THEN Distorted(honest) ELSE {}),
             call' = [call EXCEPT !.at = "replied", !.reply = reply]
      PROVE  IInv'
  <2> DEFINE seen == IF reply.kind = "error" THEN reply.observed ELSE reply.provenance.observed
  <2>1. /\ reply \in Results \cup Failures
        /\ reply.kind = "result" => call.text \in Contents
        /\ call.adapter # "foreign" => reply = honest /\ seen = now
    <3>1. \/ honest \in Failures /\ honest.kind = "error" /\ honest.observed = now
          \/ /\ honest \in Results /\ honest.kind = "result"
             /\ honest.provenance.observed = now /\ call.text \in Contents
      BY <1>1, HonestSound
    <3>2. CASE reply = honest
      BY <3>1, <3>2
    <3>3. CASE reply # honest
      <4>1. reply \in Distorted(honest) /\ call.adapter = "foreign"
        BY <3>3
      <4>2. reply \in Results \cup Failures
        BY <3>1, <4>1, DistortedSound
      <4>3. CASE honest \in Failures /\ honest.kind = "error"
        <5>1. reply \in Failures
          BY <4>1, <4>3, DistortedSound
        <5>2. reply.kind = "error"
          BY <5>1 DEF Failures
        <5>3. QED
          BY <4>1, <5>1, <5>2
      <4>4. CASE call.text \in Contents
        BY <4>1, <4>2, <4>4
      <4>5. QED
        BY <3>1, <4>3, <4>4, <4>1, <4>2
    <3>4. QED
      BY <3>2, <3>3
  <2> DEFINE c == [call EXCEPT !.at = "replied"]
             r == [c EXCEPT !.reply = reply]
  <2>2. call' = r
    BY <1>3
  <2>3. /\ c \in Calls /\ c.at = "replied" /\ c.adapter = call.adapter /\ c.outcome = call.outcome
        /\ c.request = call.request /\ c.evaluated = call.evaluated /\ c.verified = call.verified
        /\ c.text = call.text
        /\ c.reference = call.reference /\ c.profile = call.profile /\ c.binding = call.binding
    BY <1>1 DEF Calls
  <2> HIDE DEF c
  <2>4. /\ r \in Calls /\ r.at = "replied" /\ r.adapter = call.adapter /\ r.outcome = call.outcome
        /\ r.request = call.request /\ r.evaluated = call.evaluated /\ r.verified = call.verified
        /\ r.text = call.text /\ r.reply = reply
        /\ r.reference = call.reference /\ r.profile = call.profile /\ r.binding = call.binding
    BY <2>1, <2>3 DEF Calls
  <2> HIDE DEF r
  <2>5. /\ SameRecords /\ Observed' = seen
        /\ seen = now => HonestReplies(Observed)' = HonestReplies(now)
    <3>1. SameRecords /\ Observed' = seen /\ SourceRequest' = SourceRequest
      BY <2>2, <2>4 DEF SameRecords, Observed, SourceRequest, EntriesOf
    <3>2. call'.text = call.text
      BY <2>2, <2>4
    <3> HIDE DEF seen
    <3>3. HonestReplies(Observed)' = HonestReplies(seen)
      BY <3>1, <3>2 DEF HonestReplies, CodesOf, ErrorFrom, ResultFrom
    <3>4. QED
      BY <3>1, <3>3
  <2> HIDE DEF seen
  <2>6. ReplyIsSound'
    BY <1>1, <2>1, <2>2, <2>4, <2>5, RevisionsAreNumbers DEF ReplyIsSound, World
  <2>7. QED
    BY <1>1, <2>2, <2>4, <2>5, <2>6, GoesOn
<1>4. QED
  BY <1>2, <1>3 DEF Reply

LEMMA NoClockSound == ASSUME IInv, NoClock PROVE IInv'
BY QuietEndSound DEF NoClock

-----------------------------------------------------------------------------
(* What the second check takes for granted                                 *)

\* What is at hand when a reply is there.
LEMMA AtHand ==
  ASSUME IInv, call.at = "replied"
  PROVE  /\ call.request \in Requests \ {Broken} /\ Served(call.request)
         /\ call.reference \in References /\ call.profile \in Profiles /\ call.binding \in Bindings
         /\ call.binding.entries = call.reference.entries /\ call.reference.status = "active"
         /\ call.evaluated \in Times /\ now \in Times /\ call.reply \in Results \cup Failures
         /\ call.text \in Contents \cup {Absent} /\ call.adapter \in Adapters
         /\ SourceRequest \in SourceRequests
         /\ SourceRequest.maxBytes <= call.request.maxBytes /\ SourceRequest.maxBytes <= HardBytes
         /\ SourceRequest.maxBytes \in {call.request.maxBytes, HardBytes}
         /\ call.request.maxBytes \in Nat /\ HardBytes \in Nat
         /\ Authorised /\ Loaded /\ InForce(call.evaluated)
<1>1. Loaded /\ call.evaluated \in Times /\ Authorised
  BY DEF IInv, CallIsSound, Loaded
<1>2. InForce(call.evaluated)
  BY <1>1, GateSound DEF Authorised
<1>3. call.binding.entries = call.reference.entries /\ call.reference.status = "active"
  BY <1>1, <1>2 DEF IInv, CallIsSound, InForce, Agreed, Permitted, Bound
<1>4. QED
  BY <1>1, <1>2, <1>3, SourceRequestSound DEF IInv, TypeOK, CallIsSound, ReplyIsSound, Calls

\* The parts of the evidence are all there.
LEMMA EvidenceIsUsable ==
  ASSUME IInv, call.at = "replied"
  PROVE  /\ Usable(Manifest) /\ Usable(SourceRequest) /\ Usable(call.reply) /\ Usable(call.request)
         /\ Usable(call.reference) /\ Usable(call.profile) /\ Usable(call.binding)
         /\ Exchange \in Observations /\ <<Exchange>> # Absent
         /\ Raw = IF call.reply.kind = "result" THEN call.text ELSE Absent
         /\ call.reply.kind = "result" => /\ call.reply \in Results /\ Raw \in Contents
                                          /\ Raw # Absent
         /\ call.reply.kind # "result" => call.reply \in Failures /\ call.reply.kind = "error"
<1>1. Manifest \in Manifests
  BY DEF Manifest, Manifests
<1>2. /\ call.reply \in Results \cup Failures /\ SourceRequest \in SourceRequests
      /\ call.request \in Requests \ {Broken}
      /\ call.reference \in References /\ call.profile \in Profiles /\ call.binding \in Bindings
  BY AtHand
<1>3. /\ Raw = IF call.reply.kind = "result" THEN call.text ELSE Absent
      /\ call.reply.kind = "result" => call.reply \in Results /\ Raw \in Contents
      /\ call.reply.kind # "result" => call.reply \in Failures /\ call.reply.kind = "error"
  BY <1>2 DEF Raw, IInv, ReplyIsSound, Results, Failures
<1>4. \A text \in Contents : text # Absent
  BY MarksAreApart
<1>5. Exchange \in Observations
  BY <1>1, <1>2, <1>3 DEF Exchange, Observations
<1>6. <<Exchange>> \in [1..1 -> Observations]
  BY <1>5
<1>7. <<Exchange>> # Absent
  BY <1>6, MarksAreApart
<1>8. /\ Usable(Manifest) /\ Usable(SourceRequest) /\ Usable(call.reply)
  BY <1>1, <1>2, MarksAreApart DEF Usable
<1>9. QED
  BY <1>2, <1>3, <1>4, <1>5, <1>7, <1>8, RequestShape, RecordsAreUsable

\* A disclosure is no mark, and neither is a refusal.
LEMMA AnswersAreUsable ==
  ASSUME IInv, call.at = "replied"
  PROVE  /\ call.reply.kind = "result" => Usable(ResultOf(now))
         /\ call.reply.kind # "result" => Usable(ErrorOf)
<1>1. /\ call.request.request = 1 /\ call.reference.id = "R" /\ call.binding.id = "B"
      /\ call.reference \in References /\ SourceRequest.locator \in Locators /\ now \in Times
  BY AtHand, RequestShape DEF References, Bindings, SourceRequests
<1>2. ASSUME call.reply.kind = "result" PROVE ResultOf(now) \in Disclosures
  <2>1. call.reply \in Results /\ Raw \in Contents /\ Len(Raw) \in Nat
    BY <1>2, EvidenceIsUsable, TextsHaveLengths
  <2>2. /\ call.reply.provenance.observation = 3 /\ call.reply.provenance.observed \in Times
        /\ call.reply.limits.maxBytes \in Nat /\ call.reply.payload.type = "markdown"
        /\ call.reply.payload.text \in Contents
    BY <2>1 DEF Results
  <2> DEFINE item == [entry |-> SourceRequest.locator, type |-> call.reply.payload.type,
                      text |-> call.reply.payload.text, count |-> Len(Raw), fp |-> Raw]
             limits == [maxItems |-> 1, maxBytes |-> call.reply.limits.maxBytes, items |-> 1,
                        bytes |-> Len(Raw)]
  <2>3. item \in [entry : Locators, type : {"markdown"}, text : Contents, count : Nat,
                  fp : Contents]
    BY <1>1, <2>1, <2>2
  <2>4. limits \in [maxItems : {1}, maxBytes : Nat, items : {1}, bytes : Nat]
    BY <2>1, <2>2
  <2>5. <<SourceRequest.locator>> \in [1..1 -> Locators]
    BY <1>1
  <2>6. ResultOf(now) =
          [kind |-> "result", request |-> 1, reference |-> "R", referenceFp |-> call.reference,
           binding |-> "B", source |-> "s", entries |-> <<SourceRequest.locator>>,
           observation |-> 3, observed |-> call.reply.provenance.observed, evidence |-> 4,
           verified |-> now, fp |-> Raw,
           limits |-> limits, payload |-> <<item>>]
    BY <1>1, <2>2 DEF ResultOf
  <2> HIDE DEF item, limits
  <2>7. <<item>> \in [1..1 -> [entry : Locators, type : {"markdown"}, text : Contents, count : Nat,
                               fp : Contents]]
    BY <2>3
  <2>8. QED
    BY <1>1, <2>1, <2>2, <2>4, <2>5, <2>6, <2>7 DEF Disclosures
<1>3. ASSUME call.reply.kind # "result" PROVE ErrorOf \in Refusals
  <2>1. call.reply \in Failures
    BY <1>3, EvidenceIsUsable
  <2>2. QED
    BY <1>1, <2>1 DEF ErrorOf, Refusals, Failures
<1>4. QED
  BY <1>2, <1>3, MarksAreApart DEF Usable

-----------------------------------------------------------------------------
(* What passes the second check is what was read, in time                  *)

LEMMA ExchangedIsRead ==
  ASSUME IInv, call.at = "replied", call.reply.kind = "result",
         Exchanged(Manifest, SourceRequest, call.reply, Raw)
  PROVE  /\ call.reply.payload.text = call.text /\ Len(call.text) <= call.request.maxBytes
         /\ Len(call.text) <= HardBytes
         /\ call.reply.payload.locator = SourceRequest.locator
<1> DEFINE a == call.reply
           q == SourceRequest
<1>1. /\ a \in Results /\ Raw = call.text /\ Raw \in Contents /\ Raw # Absent
      /\ q \in SourceRequests /\ q.maxBytes <= call.request.maxBytes /\ q.maxBytes <= HardBytes
      /\ call.request.maxBytes \in Nat /\ HardBytes \in Nat
  BY EvidenceIsUsable, AtHand
<1>2. ExchangeIssues(Manifest, q, a, Raw) = {}
  BY PassIsClean DEF Exchanged
<1> HIDE DEF a, q
<1>3. a.kind = "result" /\ a.operation = "read"
  BY <1>1 DEF Results
<1>4. AnswerIssues(a) = {} /\ ResultIssues(Manifest, q, a) = {} /\ ContentIssues(a, Raw) = {}
  BY <1>2, <1>3 DEF ExchangeIssues
<1>5. Raw = a.payload.text
  BY <1>1, <1>3, <1>4 DEF ContentIssues, Issue
<1>6. ~(a.limits.maxBytes > q.maxBytes) /\ a.payload.locator = q.locator
  BY <1>3, <1>4 DEF ResultIssues, Issue
<1>7. ReadIssues(a) = {}
  BY <1>3, <1>4 DEF AnswerIssues
<1>8. ~(Len(a.payload.text) > a.limits.maxBytes)
  BY <1>7 DEF ReadIssues, Issue
<1>9. a.limits.maxBytes \in Nat /\ q.maxBytes \in Nat /\ Len(a.payload.text) \in Nat
  BY <1>1, <1>5, TextsHaveLengths DEF Results, SourceRequests
<1>10. QED
  BY <1>1, <1>5, <1>6, <1>8, <1>9 DEF a, q

LEMMA LateIsLater ==
  ASSUME NEW a \in Times, NEW z \in Times PROVE (Late(a, z) <=> a > z) /\ a \in Nat /\ z \in Nat
BY RecordsAreUsable, RevisionsAreNumbers DEF Late

LEMMA VerifiedIsInTime ==
  ASSUME IInv, call.at = "replied", call.reply.kind = "result",
         Verdict(call.request, ResultOf(now), Evidence(now)) = "PASS"
  PROVE  call.evaluated <= Observed /\ Observed <= now
<1> DEFINE out == ResultOf(now)
           c == Evidence(now)
           authority == AuthorityIssues(c.reference, c.profile, c.binding, c.authority)
           entries == Selected(call.request, c.binding)
<1>1. /\ call.reply \in Results /\ call.evaluated \in Times /\ now \in Times /\ Usable(out)
      /\ <<Exchange>> # Absent /\ Usable(call.reply)
  BY EvidenceIsUsable, AtHand, AnswersAreUsable
<1>2. ResolveIssues(call.request, out, c) = {} /\ out.kind = "result"
  BY PassIsClean DEF Verdict, ResultOf
<1>3. /\ c.event = [observation |-> call.reply.provenance.observation, evidence |-> 4,
                    observed |-> call.reply.provenance.observed, verified |-> now]
      /\ c.exchanges = <<Exchange>> /\ c.authority.evaluated = call.evaluated
      /\ Exchange.response = call.reply
  BY <1>1 DEF Evidence, Chain, Exchange, Results
<1>4. Observed = call.reply.provenance.observed /\ Observed \in Times
  BY <1>1 DEF Observed, Results
<1> HIDE DEF out, c
<1>5. ResultOfIssues(call.request, out, c, entries, authority) = {}
  BY <1>1, <1>2 DEF ResolveIssues
<1> HIDE DEF authority, entries
<1>6. EventIssues(out, c) = {}
      /\ \A e \in {Exchanges(c)[i] : i \in DOMAIN Exchanges(c)} :
           ObservationIssues(e, out, c, entries) = {}
  <2> DEFINE S == {Exchanges(c)[i] : i \in DOMAIN Exchanges(c)}
             found == {PartsOfExchange(e) \cup ObservationIssues(e, out, c, entries) : e \in S}
  <2>1. EventIssues(out, c) = {} /\ UNION found = {}
    BY <1>5 DEF ResultOfIssues
  <2> HIDE DEF S
  <2>2. \A e \in S : ObservationIssues(e, out, c, entries) \subseteq UNION found
    OBVIOUS
  <2> HIDE DEF found
  <2>3. \A e \in S : ObservationIssues(e, out, c, entries) = {}
    BY <2>1, <2>2
  <2>4. QED
    BY <2>1, <2>3 DEF S
<1>7. c.event # Absent /\ ~Late(c.event.observed, c.event.verified)
  BY <1>6 DEF EventIssues, Issue
<1>8. Exchange \in {Exchanges(c)[i] : i \in DOMAIN Exchanges(c)}
  BY <1>1, <1>3 DEF Exchanges
<1>9. ObservationInTime(Exchange, c)
  BY <1>6, <1>8 DEF ObservationIssues, Issue
<1>10. ~Late(call.evaluated, Observed)
  BY <1>1, <1>3, <1>4, <1>9 DEF ObservationInTime, IsResult
<1>11. ~Late(Observed, now)
  BY <1>3, <1>4, <1>7
<1>12. QED
  BY <1>1, <1>4, <1>10, <1>11, LateIsLater

LEMMA RefusedIsInTime ==
  ASSUME IInv, call.at = "replied", call.reply.kind # "result",
         Verdict(call.request, ErrorOf, Evidence(now)) = "PASS"
  PROVE  call.evaluated <= Observed /\ Observed <= now
<1> DEFINE out == ErrorOf
           c == Evidence(now)
           authority == AuthorityIssues(c.reference, c.profile, c.binding, c.authority)
           entries == Selected(call.request, c.binding)
<1>1. /\ call.reply \in Failures /\ call.evaluated \in Times /\ now \in Times /\ Usable(out)
  BY EvidenceIsUsable, AtHand, AnswersAreUsable
<1>2. ResolveIssues(call.request, out, c) = {} /\ out.kind = "error"
  BY PassIsClean DEF Verdict, ErrorOf
<1>3. /\ c.resolved = now /\ c.authority.evaluated = call.evaluated
      /\ out.observed = Observed /\ Observed \in Times
  BY <1>1 DEF Evidence, Chain, ErrorOf, Observed, Failures
<1> HIDE DEF out, c
<1>4. ErrorIssues(out, c, entries, authority) = {}
  BY <1>1, <1>2 DEF ResolveIssues
<1> HIDE DEF authority, entries
<1>5. ~Late(Observed, now) /\ ~Late(call.evaluated, Observed)
  BY <1>3, <1>4 DEF ErrorIssues, Issue
<1>6. QED
  BY <1>1, <1>3, <1>5, LateIsLater

-----------------------------------------------------------------------------
(* An adapter of the host that answers what it read passes both checks     *)

Honest == call.reply \in HonestReplies(Observed)

\* The parts of an honest result.
LEMMA HonestResult ==
  ASSUME IInv, call.at = "replied", Honest, call.reply.kind = "result"
  PROVE  /\ call.reply = ResultFrom(call.text, Observed)
         /\ Raw = call.text /\ call.text \in Contents
         /\ Len(call.text) \in Nat /\ Len(call.text) <= SourceRequest.maxBytes
         /\ SourceRequest.maxBytes \in Nat
<1>1. /\ Raw = call.text /\ Raw \in Contents /\ Raw # Absent /\ Len(call.text) \in Nat
      /\ SourceRequest.maxBytes \in Nat
  BY EvidenceIsUsable, TextsHaveLengths, AtHand DEF SourceRequests
<1>2. \A code : ErrorFrom(code, Observed).kind = "error"
  BY DEF ErrorFrom
<1>3. call.reply = ResultFrom(call.text, Observed) /\ Len(call.text) <= SourceRequest.maxBytes
  BY <1>2 DEF Honest, HonestReplies
<1>4. QED
  BY <1>1, <1>3

LEMMA HonestError ==
  ASSUME IInv, call.at = "replied", Honest, call.reply.kind # "result"
  PROVE  \E code \in CodesOf(call.text) : call.reply = ErrorFrom(code, Observed)
<1>1. \A text : ResultFrom(text, Observed).kind = "result"
  BY DEF ResultFrom
<1>2. QED
  BY <1>1 DEF Honest, HonestReplies

\* The exchange with the source is in order.
LEMMA HonestExchange ==
  ASSUME IInv, call.at = "replied", Honest
  PROVE  ExchangeIssues(Manifest, SourceRequest, call.reply, Raw) = {}
<1> DEFINE a == call.reply
           q == SourceRequest
           m == Manifest
<1>1. /\ Usable(m) /\ Usable(q) /\ Usable(a) /\ q \in SourceRequests
      /\ m.adapter = "fs" /\ m.operations = {"read"} /\ m.types = {"markdown"} /\ m.maxItems = 1
      /\ m.maxBytes = HardBytes /\ q.maxBytes <= m.maxBytes /\ HardBytes \in Nat
  BY EvidenceIsUsable, AtHand DEF Manifest
<1>2. /\ q.request = 2 /\ q.adapter = "fs" /\ q.operation = "read" /\ q.source = "s"
      /\ q.scope = "all" /\ q.maxItems = 1 /\ q.maxBytes \in Nat
  BY <1>1 DEF SourceRequests
<1>3. Absent \notin {m, q, a} /\ Broken \notin {m, q, a}
  BY <1>1 DEF Usable
<1>4. CASE a.kind = "result"
  <2>1. /\ a = ResultFrom(call.text, Observed) /\ Raw = call.text
        /\ Len(call.text) \in Nat /\ Len(call.text) <= q.maxBytes
    BY <1>4, HonestResult
  <2>2. /\ a.kind = "result" /\ a.request = 2 /\ a.adapter = "fs" /\ a.operation = "read"
        /\ a.source = "s" /\ a.scope = "all"
        /\ a.provenance.source = "s" /\ a.provenance.scope = "all"
        /\ a.provenance.adapter = "fs" /\ a.provenance.operation = "read"
        /\ a.provenance.fp = call.text
        /\ a.limits.maxItems = 1 /\ a.limits.maxBytes = q.maxBytes /\ a.limits.items = 1
        /\ a.limits.bytes = Len(call.text)
        /\ a.payload.locator = q.locator /\ a.payload.type = "markdown"
        /\ a.payload.text = call.text /\ a.payload.count = Len(call.text)
        /\ a.payload.fp = call.text
    BY <1>2, <2>1 DEF ResultFrom
  <2>11. a.payload.truncated = a.limits.truncated
    <3>1. a.payload.truncated \in BOOLEAN /\ a.limits.truncated \in BOOLEAN
      BY <1>4, EvidenceIsUsable DEF Results
    <3>2. ~a.payload.truncated /\ ~a.limits.truncated
      BY <2>1 DEF ResultFrom
    <3>3. QED
      BY <3>1, <3>2
  <2> HIDE DEF a, q, m
  <2>3. ProvenanceIssues(a) = {}
    <3>1. \A k \in Provenance : a.provenance[k] = a[k]
      BY <2>2 DEF Provenance
    <3>2. \A k \in Provenance : \A name : Issue(a.provenance[k] # a[k], name) = {}
      BY <3>1 DEF Issue
    <3>3. QED
      BY <3>2 DEF ProvenanceIssues
  <2>4. ReadIssues(a) = {}
    <3>1. /\ ~(a.limits.items > 1) /\ a.payload.truncated = a.limits.truncated
          /\ a.payload.count = Len(a.payload.text) /\ ~(Len(a.payload.text) > a.limits.bytes)
          /\ ~(Len(a.payload.text) > a.limits.maxBytes)
          /\ a.payload.fp = a.payload.text /\ a.provenance.fp = a.payload.text
      BY <1>2, <2>1, <2>2, <2>11
    <3>2. QED
      BY <3>1 DEF ReadIssues, Issue, Differ
  <2>5. AnswerIssues(a) = {}
    BY <1>2, <2>1, <2>2, <2>3, <2>4 DEF AnswerIssues, Issue
  <2>6. LinkIssues(m, q, a) = {}
    <3>1. \A k \in Repeated(a) : a[k] = q[k]
      BY <1>2, <2>2 DEF Repeated
    <3>2. QED
      BY <1>1, <1>2, <3>1 DEF LinkIssues, Issue
  <2>7. ResultIssues(m, q, a) = {}
    BY <1>1, <1>2, <2>1, <2>2 DEF ResultIssues, Issue
  <2>8. ContentIssues(a, Raw) = {}
    BY <2>1, <2>2 DEF ContentIssues, Issue
  <2>9. ExchangeIssues(m, q, a, Raw) = {}
    BY <1>3, <2>5, <2>6, <2>7, <2>8 DEF ExchangeIssues
  <2>10. QED
    BY <2>9 DEF a, q, m
<1>5. CASE a.kind # "result"
  <2>1. PICK code : a = ErrorFrom(code, Observed)
    BY <1>5, HonestError
  <2>2. a.kind = "error" /\ a.request = 2 /\ a.adapter = "fs" /\ a.operation = "read"
    BY <2>1 DEF ErrorFrom
  <2>3. Raw = Absent
    BY <1>5 DEF Raw
  <2> HIDE DEF a, q, m
  <2>4. AnswerIssues(a) = {} /\ ContentIssues(a, Raw) = {}
    BY <2>2, <2>3 DEF AnswerIssues, ContentIssues, Issue
  <2>5. LinkIssues(m, q, a) = {}
    <3>1. \A k \in Repeated(a) : a[k] = q[k]
      BY <1>2, <2>2 DEF Repeated
    <3>2. QED
      BY <1>1, <1>2, <3>1 DEF LinkIssues, Issue
  <2>6. ExchangeIssues(m, q, a, Raw) = {}
    BY <1>3, <2>2, <2>4, <2>5 DEF ExchangeIssues
  <2>7. QED
    BY <2>6 DEF a, q, m
<1>6. QED
  BY <1>4, <1>5

\* What an answer is held against, when the source was asked under authority.
LEMMA EvidenceParts ==
  ASSUME IInv, call.at = "replied"
  PROVE  LET c == Evidence(now)
         IN /\ c.reference = call.reference /\ c.profile = call.profile /\ c.binding = call.binding
            /\ c.resolved = now /\ c.resolved # Absent
            /\ c.exchanges # Absent /\ Exchanges(c) = <<Exchange>>
            /\ c.authority = Chain(call.evaluated)
            /\ AuthorityIssues(c.reference, c.profile, c.binding, c.authority) = {}
<1> DEFINE c == Evidence(now)
<1>1. /\ <<Exchange>> # Absent /\ now # Absent
  BY EvidenceIsUsable, AtHand, RecordsAreUsable
<1>2. /\ c.reference = call.reference /\ c.profile = call.profile /\ c.binding = call.binding
      /\ c.resolved = now /\ c.exchanges = <<Exchange>> /\ c.authority = Chain(call.evaluated)
  BY DEF Evidence
<1>3. AuthorityIssues(call.reference, call.profile, call.binding, Chain(call.evaluated)) = {}
  BY AtHand DEF Authorised
<1> HIDE DEF c
<1>4. /\ Exchanges(c) = <<Exchange>> /\ c.resolved # Absent /\ c.exchanges # Absent
      /\ AuthorityIssues(c.reference, c.profile, c.binding, c.authority) = {}
  BY <1>1, <1>2, <1>3 DEF Exchanges
<1>5. QED
  BY <1>2, <1>4 DEF c

\* The entry that was asked of the source is among those that were selected.
LEMMA EntryIsSelected ==
  ASSUME IInv, call.at = "replied"
  PROVE  LET q == call.request
             entries == Selected(q, call.binding)
         IN /\ \E i \in DOMAIN entries : entries[i] = SourceRequest.locator
            /\ q.selection # Absent => Narrows(q.selection, call.binding.entries)
<1>1. /\ Usable(call.request) /\ Usable(call.binding) /\ Served(call.request)
      /\ call.binding.entries = call.reference.entries /\ call.request \in Requests \ {Broken}
      /\ call.request.selection \in {Absent} \cup {<<entry>> : entry \in Locators}
  BY EvidenceIsUsable, AtHand, RequestShape
<1> DEFINE q == call.request
           b == call.binding
           entry == SourceRequest.locator
<1>2. entry = EntriesOf(q)[1]
  BY DEF SourceRequest
<1>3. PICK j \in DOMAIN b.entries : b.entries[j] = entry
  BY <1>1, <1>2 DEF Served
<1>4. Selected(q, b) = IF q.selection # Absent THEN q.selection ELSE b.entries
  BY <1>1 DEF Selected, Field
<1> HIDE DEF entry
<1>5. CASE q.selection = Absent
  BY <1>3, <1>4, <1>5 DEF entry
<1>6. CASE q.selection # Absent
  <2>1. q.selection = <<entry>>
    BY <1>1, <1>2, <1>6 DEF EntriesOf
  <2> DEFINE f == [i \in {1} |-> j]
  <2>2. Narrows(<<entry>>, b.entries)
    <3>1. /\ f \in [DOMAIN <<entry>> -> DOMAIN b.entries]
          /\ \A i, k \in DOMAIN <<entry>> : i < k => f[i] < f[k]
          /\ \A i \in DOMAIN <<entry>> : <<entry>>[i] = b.entries[f[i]]
      BY <1>3
    <3>2. QED
      BY <3>1 DEF Narrows
  <2>3. 1 \in DOMAIN <<entry>> /\ <<entry>>[1] = entry
    OBVIOUS
  <2>4. QED
    BY <1>4, <1>6, <2>1, <2>2, <2>3 DEF entry
<1>7. QED
  BY <1>5, <1>6 DEF entry

\* Whatever the answer, it is one to this request.
LEMMA NoRequestIssues ==
  ASSUME IInv, call.at = "replied", NEW out, Usable(out), out.request = call.request.request,
         out.reference = call.reference.id
  PROVE  RequestIssues(call.request, out, Evidence(now)) = {}
<1> DEFINE q == call.request
           c == Evidence(now)
<1>1. /\ c.reference = call.reference /\ c.profile = call.profile /\ c.binding = call.binding
      /\ c.resolved # Absent /\ c.authority = Chain(call.evaluated)
  BY EvidenceParts
<1>2. Usable(q) /\ Usable(call.reference) /\ Usable(call.binding) /\ q.reference = call.reference.id
  BY EvidenceIsUsable, AtHand DEF Served
<1>3. c.authority.operation = "resolve_context"
  BY <1>1 DEF Chain
<1>4. Field(q, "selection") # Absent => Narrows(q.selection, c.binding.entries)
  BY <1>1, <1>2, EntryIsSelected DEF Field
<1> HIDE DEF c
<1>5. PartIssues(q) = {} /\ PartIssues(out) = {}
  BY <1>2 DEF PartIssues, Issue, Usable
<1>6. \A k \in {"request", "reference"} : Field(out, k) = Field(q, k)
  BY <1>2 DEF Field
<1>7. /\ Field(q, "reference") = Field(c.reference, "id")
      /\ Field(out, "reference") = Field(c.reference, "id")
  BY <1>1, <1>2 DEF Field
<1>8. QED
  BY <1>1, <1>3, <1>4, <1>5, <1>6, <1>7 DEF RequestIssues, Issue, Differ, c

\* The exchange is with the source of the reference.
LEMMA NoSourceIssues ==
  ASSUME IInv, call.at = "replied"
  PROVE  /\ PartsOfExchange(Exchange) = {}
         /\ SourceLinks(Exchange, call.reference, Selected(call.request, call.binding)) = {}
<1> DEFINE e == Exchange
           q == SourceRequest
           entries == Selected(call.request, call.binding)
<1>1. /\ Usable(Manifest) /\ Usable(q) /\ Usable(call.reply) /\ Usable(call.reference)
      /\ q.source = "s" /\ q.scope = "all" /\ q.operation = "read" /\ call.reference.source = "s"
  BY EvidenceIsUsable, AtHand DEF SourceRequests, References
<1>2. e.manifest = Manifest /\ e.request = q /\ e.response = call.reply /\ e.scope = "all"
  BY DEF Exchange
<1>3. \E i \in DOMAIN entries : entries[i] = q.locator
  BY EntryIsSelected
<1> HIDE DEF e, q, entries
<1>4. "all" # Absent
  BY WordsAreNoMarks DEF Words
<1>5. PartsOfExchange(e) = {}
  BY <1>1, <1>2, <1>4 DEF PartsOfExchange, PartIssues, Issue, Usable
<1>6. SourceLinks(e, call.reference, entries) = {}
  BY <1>1, <1>2, <1>3 DEF SourceLinks, Issue, Differ, Field
<1>7. QED
  BY <1>5, <1>6 DEF e, q, entries

LEMMA HonestRefusal ==
  ASSUME IInv, call.at = "replied", Honest, call.reply.kind # "result",
         call.evaluated <= Observed, Observed <= now, PassedOn(call.reply.code)
  PROVE  Verdict(call.request, ErrorOf, Evidence(now)) = "PASS"
<1> DEFINE q == call.request
           a == call.reply
           out == ErrorOf
           c == Evidence(now)
           e == Exchange
           entries == Selected(q, call.binding)
<1>1. /\ a \in Failures /\ a.kind = "error" /\ call.evaluated \in Times /\ now \in Times
      /\ Usable(out) /\ Usable(a) /\ Usable(call.reference) /\ call.reference.status = "active"
      /\ Observed = a.observed /\ Observed \in Times
  BY EvidenceIsUsable, AnswersAreUsable, AtHand DEF Observed, Failures
<1>2. /\ c.reference = call.reference /\ c.profile = call.profile /\ c.binding = call.binding
      /\ c.resolved = now /\ Exchanges(c) = <<e>> /\ c.authority = Chain(call.evaluated)
      /\ AuthorityIssues(c.reference, c.profile, c.binding, c.authority) = {}
  BY EvidenceParts
<1>3. /\ c.event = Absent /\ c.authority.evaluated = call.evaluated
      /\ out.kind = "error" /\ out.request = q.request /\ out.reference = call.reference.id
      /\ out.code = a.code /\ out.retryable = a.retryable /\ out.observed = Observed
      /\ e.response = a
  BY <1>1, <1>2 DEF Evidence, Chain, ErrorOf, Exchange
<1>4. P2C(e) = {}
  BY HonestExchange DEF P2C, Exchange
<1>5. /\ PartsOfExchange(e) = {} /\ SourceLinks(e, call.reference, entries) = {}
      /\ RequestIssues(q, out, c) = {}
  BY <1>1, <1>3, NoSourceIssues, NoRequestIssues
<1>6. a.code \in {"source_unavailable", "limit_exceeded"}
  BY DEF PassedOn
<1> HIDE DEF q, a, out, c, e, entries
<1>7. SourceErrorEvidence(e, out) = {}
  BY <1>1, <1>3, <1>4 DEF SourceErrorEvidence, Issue, IsResult, IsError
<1>8. SourceErrorIssues(out, c, entries, {}) = {}
  <2>1. UNION {PartsOfExchange(<<e>>[i]) : i \in DOMAIN <<e>>} = {}
    BY <1>5
  <2>2. <<e>> # <<>> /\ Len(<<e>>) = 1 /\ <<e>>[1] = e
    OBVIOUS
  <2>3. Decide({}) = "PASS"
    BY PassIsClean
  <2>4. QED
    BY <1>2, <1>3, <1>5, <1>6, <1>7, <2>1, <2>2, <2>3 DEF SourceErrorIssues, Issue
<1>9. FromSource(out.code, c.reference)
  BY <1>1, <1>2, <1>3, <1>6 DEF FromSource, SourceReasons, Field
<1>10. ~Late(out.observed, c.resolved) /\ ~Late(c.authority.evaluated, out.observed)
  BY <1>1, <1>2, <1>3, LateIsLater
<1>11. ErrorIssues(out, c, entries, {}) = {}
  BY <1>3, <1>8, <1>9, <1>10 DEF ErrorIssues, Issue
<1>12. Selected(q, c.binding) = entries
  BY <1>2 DEF entries
<1>13. ResolveIssues(q, out, c) = {}
  BY <1>2, <1>3, <1>5, <1>11, <1>12 DEF ResolveIssues, Carried
<1>14. Verdict(q, out, c) = "PASS"
  BY <1>13, PassIsClean DEF Verdict
<1>15. QED
  BY <1>14 DEF q, out, c

LEMMA BytesOfOne ==
  ASSUME NEW out, out.payload = <<out.payload[1]>>, NEW n \in Nat, out.payload[1].count = n
  PROVE  BytesOf(out) = n
<1>1. UNION {{i} \X (1..out.payload[i].count) : i \in DOMAIN out.payload} = {1} \X (1..n)
  <2>1. DOMAIN out.payload = {1}
    OBVIOUS
  <2>2. {{i} \X (1..out.payload[i].count) : i \in DOMAIN out.payload} = {{1} \X (1..n)}
    BY <2>1
  <2>3. QED
    BY <2>2
<1>2. IsFiniteSet({1}) /\ Cardinality({1}) = 1
  BY FS_Singleton
<1>3. IsFiniteSet(1..n) /\ Cardinality(1..n) = n
  BY FS_Interval
<1>4. Cardinality({1} \X (1..n)) = 1 * n
  BY <1>2, <1>3, FS_Product
<1>5. QED
  BY <1>1, <1>4 DEF BytesOf

LEMMA HonestDisclosure ==
  ASSUME IInv, call.at = "replied", Honest, call.reply.kind = "result",
         call.evaluated <= Observed, Observed <= now
  PROVE  Verdict(call.request, ResultOf(now), Evidence(now)) = "PASS"
<1> DEFINE q == call.request
           a == call.reply
           out == ResultOf(now)
           c == Evidence(now)
           e == Exchange
           s == SourceRequest
           entries == Selected(q, call.binding)
           text == call.text
<1>1. /\ a \in Results /\ call.evaluated \in Times /\ now \in Times
      /\ Usable(out) /\ Usable(a) /\ Usable(call.reference) /\ Usable(call.binding) /\ Usable(q)
      /\ Usable(s) /\ Observed = a.provenance.observed /\ Observed \in Times
  BY EvidenceIsUsable, AnswersAreUsable, AtHand DEF Observed, Results
<1>2. /\ c.reference = call.reference /\ c.profile = call.profile /\ c.binding = call.binding
      /\ c.resolved = now /\ Exchanges(c) = <<e>> /\ c.authority = Chain(call.evaluated)
      /\ AuthorityIssues(c.reference, c.profile, c.binding, c.authority) = {}
      /\ c.exchanges # Absent
  BY EvidenceParts
<1>3. /\ a = ResultFrom(text, Observed) /\ Raw = text /\ text # Absent
      /\ Len(text) \in Nat /\ Len(text) <= s.maxBytes /\ s.maxBytes \in Nat
      /\ s.maxBytes <= q.maxBytes /\ q.maxBytes \in Nat /\ q.maxItems = 1
      /\ call.reference.source = "s"
  BY HonestResult, EvidenceIsUsable, AtHand, RequestShape DEF References
<1>4. /\ c.event = [observation |-> a.provenance.observation, evidence |-> 4,
                    observed |-> a.provenance.observed, verified |-> now]
      /\ c.authority.evaluated = call.evaluated /\ c.authority.referenceBytes = call.reference
  BY <1>1, <1>2 DEF Evidence, Chain, Results
<1>5. c.event # Absent
  <2>1. a.provenance.observation = 3
    BY <1>1 DEF Results
  <2>2. c.event \in Events
    BY <1>1, <1>4, <2>1 DEF Events
  <2>3. QED
    BY <2>2, MarksAreApart
<1>6. /\ a.kind = "result" /\ a.operation = "read" /\ a.source = "s" /\ a.provenance.source = "s"
      /\ a.limits.maxBytes = s.maxBytes /\ a.payload.text = text /\ a.payload.type = "markdown"
  BY <1>3 DEF ResultFrom
<1>7. /\ out.kind = "result" /\ out.request = q.request /\ out.reference = call.reference.id
      /\ out.referenceFp = call.reference /\ out.binding = call.binding.id /\ out.source = "s"
      /\ out.entries = <<s.locator>> /\ out.fp = text
      /\ out.observation = a.provenance.observation /\ out.observed = a.provenance.observed
      /\ out.evidence = 4 /\ out.verified = now
  BY <1>3 DEF ResultOf
<1>8. /\ out.limits.maxItems = 1 /\ out.limits.maxBytes = s.maxBytes /\ out.limits.items = 1
      /\ out.limits.bytes = Len(text)
  BY <1>3, <1>6 DEF ResultOf
<1> DEFINE item == [entry |-> s.locator, type |-> "markdown", text |-> text,
                    count |-> Len(text), fp |-> text]
<1>9. out.payload = <<item>>
  BY <1>3, <1>6 DEF ResultOf
<1>10. /\ e.request = s /\ e.response = a /\ e.bytes = text
  BY <1>3 DEF Exchange
<1>11. P2C(e) = {}
  BY HonestExchange DEF P2C, Exchange
<1>12. \E i \in DOMAIN entries : entries[i] = s.locator
  BY EntryIsSelected
<1> HIDE DEF q, a, out, c, e, s, entries, text
<1>13. /\ PartsOfExchange(e) = {} /\ SourceLinks(e, call.reference, entries) = {}
       /\ RequestIssues(q, out, c) = {}
  BY <1>1, <1>7, NoSourceIssues, NoRequestIssues DEF q, c, e, entries
<1>14. LimitIssues(q, out) = {}
  <2>1. out.payload = <<out.payload[1]>> /\ out.payload[1].count = Len(text) /\ Len(out.payload) = 1
    BY <1>9
  <2>2. BytesOf(out) = Len(text)
    BY <1>3, <2>1, BytesOfOne
  <2>3. QED
    BY <1>3, <1>8, <2>1, <2>2 DEF LimitIssues, Issue
<1>15. EventIssues(out, c) = {}
  <2>1. ~Late(Observed, now) /\ ~Late(now, now)
    BY <1>1, LateIsLater
  <2>2. QED
    BY <1>1, <1>2, <1>4, <1>5, <1>7, <2>1 DEF EventIssues, Issue
<1>16. PayloadIssues(out, c, entries) = {}
  <2>1. PICK j \in DOMAIN entries : entries[j] = s.locator
    BY <1>12
  <2>2. Narrows(<<s.locator>>, entries)
    <3> DEFINE f == [i \in {1} |-> j]
    <3>1. /\ f \in [DOMAIN <<s.locator>> -> DOMAIN entries]
          /\ \A i, k \in DOMAIN <<s.locator>> : i < k => f[i] < f[k]
          /\ \A i \in DOMAIN <<s.locator>> : <<s.locator>>[i] = entries[f[i]]
      BY <2>1
    <3>2. QED
      BY <3>1 DEF Narrows
  <2>3. /\ Len(out.payload) = 1 /\ out.payload[1] = item
        /\ [i \in 1..1 |-> out.payload[i].entry] = <<s.locator>>
    BY <1>9
  <2>4. OneToOne(out, c)
    BY <1>2, <2>3, ContextHostAssumption DEF OneToOne
  <2>5. ItemIssues(out.payload[1], e) = {}
    BY <1>3, <1>6, <1>10, <2>3 DEF ItemIssues, Issue, Differ
  <2>6. Aggregate(out, <<e>>) = text
    BY <2>3 DEF Aggregate
  <2> HIDE DEF item
  <2>7. \E i \in DOMAIN entries : entries[i] = s.locator
    BY <2>1
  <2>8. out.payload[1].entry = s.locator
    BY <2>3 DEF item
  <2>9. UNION {ItemIssues(out.payload[i], <<e>>[i]) : i \in
                 {k \in 1..1 : /\ Usable(<<e>>[k].request) /\ IsResult(<<e>>[k].response)
                               /\ <<e>>[k].response.operation = "read"}} = {}
    BY <2>5
  <2>10. QED
    BY <1>2, <1>7, <1>10, <2>2, <2>3, <2>4, <2>6, <2>7, <2>8, <2>9 DEF PayloadIssues, Issue
<1>17. ObservationIssues(e, out, c, entries) = {}
  <2>1. ObservationInTime(e, c)
    <3>1. ~Late(call.evaluated, Observed) /\ ~Late(Observed, Observed)
      BY <1>1, LateIsLater
    <3>2. QED
      BY <1>1, <1>4, <1>10, <3>1 DEF ObservationInTime
  <2>2. Field(call.reference, "source") = "s"
    BY <1>1, <1>3 DEF Field
  <2>3. QED
    BY <1>2, <1>3, <1>6, <1>10, <1>11, <1>13, <2>1, <2>2
       DEF ObservationIssues, Issue, IsError, Differ
<1>18. ResultOfIssues(q, out, c, entries, {}) = {}
  <2>1. UNION {PartsOfExchange(x) \cup ObservationIssues(x, out, c, entries) :
                 x \in {<<e>>[i] : i \in DOMAIN <<e>>}} = {}
    BY <1>13, <1>17
  <2>2. Decide({}) = "PASS"
    BY PassIsClean
  <2>3. FingerprintOf(c.authority.referenceBytes) = call.reference
    BY <1>1, <1>4 DEF FingerprintOf, Usable
  <2>4. Field(c.binding, "id") = out.binding /\ Field(c.reference, "source") = "s"
    BY <1>1, <1>2, <1>3, <1>7 DEF Field
  <2>5. QED
    BY <1>2, <1>7, <1>14, <1>15, <1>16, <2>1, <2>2, <2>3, <2>4
       DEF ResultOfIssues, Issue, Differ
<1>19. Selected(q, c.binding) = entries
  BY <1>2 DEF entries
<1>20. ResolveIssues(q, out, c) = {}
  BY <1>2, <1>7, <1>13, <1>18, <1>19 DEF ResolveIssues, Carried
<1>21. Verdict(q, out, c) = "PASS"
  BY <1>20, PassIsClean DEF Verdict
<1>22. QED
  BY <1>21 DEF q, out, c

-----------------------------------------------------------------------------
(* The end of a call                                                       *)

LEMMA OutcomeIsOne ==
  ASSUME IInv, call.at = "replied"
  PROVE  Outcome(now) \in {"execution_unavailable", "invalid_input", "source_failure",
                           "validation_failure", "protocol_error", "success"}
BY AtHand, GateSound DEF Outcome, GateAgain, Receipt

\* The input is blamed only if the records are not in force.
LEMMA BlamedInput ==
  ASSUME IInv, call.at = "replied", Outcome(now) = "invalid_input"
  PROVE  ~InForce(now)
BY AtHand, GateSound DEF Outcome, GateAgain, Receipt

\* A limit is blamed only if the text is over it or the entry too deep, and the source
\* only for an entry it does not have, or an observation it has no name for.
LEMMA BlamedSource ==
  ASSUME IInv, call.at = "replied", call.adapter # "foreign"
  PROVE  /\ Outcome(now) = "protocol_error" /\ call.reply.code = "limit_exceeded" =>
              IF call.text = Absent THEN SourceRequest.locator = Deep
              ELSE Len(call.text) > call.request.maxBytes \/ Len(call.text) > HardBytes
         /\ Outcome(now) = "source_failure" =>
              \/ call.text = Absent /\ call.reply.code \in NoText
              \/ call.text # Absent /\ call.reply.code \in Nameless
<1> SUFFICES ASSUME Outcome(now) \in {"protocol_error", "source_failure"}
             PROVE  /\ call.reply.code = "limit_exceeded" =>
                         IF call.text = Absent THEN SourceRequest.locator = Deep
                         ELSE \/ Len(call.text) > call.request.maxBytes
                              \/ Len(call.text) > HardBytes
                    /\ ~PassedOn(call.reply.code) =>
                         \/ call.text = Absent /\ call.reply.code \in NoText
                         \/ call.text # Absent /\ call.reply.code \in Nameless
                    /\ Outcome(now) = "source_failure" => ~PassedOn(call.reply.code)
  OBVIOUS
<1>1. Gate(now) \in {"PASS", "execution_unavailable", "invalid_input"}
  BY AtHand, GateSound
<1>2. /\ call.reply.kind = "error"
      /\ Outcome(now) = "source_failure" => ~PassedOn(call.reply.code)
  BY <1>1 DEF Outcome, GateAgain, Receipt
<1>3. Honest
  BY DEF IInv, ReplyIsSound, Honest
<1>4. PICK code \in CodesOf(call.text) : call.reply = ErrorFrom(code, Observed)
  BY <1>2, <1>3, HonestError
<1>5. call.reply.code = code
  BY <1>4 DEF ErrorFrom
<1>6. CASE call.text = Absent
  BY <1>2, <1>4, <1>5, <1>6 DEF CodesOf, PassedOn, NoText, Unread
<1>7. CASE call.text # Absent
  <2>1. code = "limit_exceeded" => Len(call.text) > SourceRequest.maxBytes
    BY <1>4, <1>7 DEF CodesOf, Unread, Nameless
  <2>2. code \in Unread \cup Nameless \cup {"limit_exceeded"}
    BY <1>4, <1>7 DEF CodesOf
  <2>3. SourceRequest.maxBytes \in {call.request.maxBytes, HardBytes}
    BY AtHand
  <2>4. QED
    BY <1>2, <1>5, <1>7, <2>1, <2>2, <2>3 DEF PassedOn, Unread
<1>8. QED
  BY <1>6, <1>7

\* The evidence is blamed only if it may be wrong.
LEMMA BlamedEvidence ==
  ASSUME IInv, call.at = "replied", Outcome(now) = "validation_failure",
         call.adapter # "foreign", "setBack" \notin disturbed
  PROVE  call.text = <<>> \/ call.reference.pinned \notin {Absent, call.text}
<1>1. /\ Honest /\ call.evaluated <= Observed /\ Observed <= now
  BY DEF IInv, ReplyIsSound, Honest
<1>2. Exchanged(Manifest, SourceRequest, call.reply, Raw)
  BY <1>1, HonestExchange, PassIsClean DEF Exchanged
<1>3. Gate(now) = "PASS"
  BY <1>2, AtHand, GateSound DEF Outcome, GateAgain
<1>4. CASE call.reply.kind = "error"
  <2>1. PassedOn(call.reply.code) /\ Receipt(ErrorOf, now, "protocol_error") = "validation_failure"
    BY <1>2, <1>3, <1>4 DEF Outcome, GateAgain
  <2>2. Verdict(call.request, ErrorOf, Evidence(now)) = "PASS"
    BY <1>1, <1>4, <2>1, HonestRefusal
  <2>3. QED
    BY <2>1, <2>2 DEF Receipt
<1>5. CASE call.reply.kind # "error"
  <2>1. call.reply.kind = "result"
    BY <1>5, EvidenceIsUsable
  <2>2. Verdict(call.request, ResultOf(now), Evidence(now)) = "PASS"
    BY <1>1, <2>1, HonestDisclosure
  <2>3. ~Disclosable
    BY <1>2, <1>3, <1>5, <2>2 DEF Outcome, GateAgain, Receipt
  <2>4. Raw = call.text /\ call.reply = ResultFrom(call.text, Observed)
    BY <1>1, <2>1, HonestResult
  <2>5. ~call.reply.payload.truncated /\ ~call.reply.limits.truncated
    BY <2>4 DEF ResultFrom
  <2>6. QED
    BY <2>3, <2>4, <2>5 DEF Disclosable
<1>6. QED
  BY <1>4, <1>5

\* What is disclosed, or passed on, was asked for, read, and answered in time.
LEMMA DisclosedIsSound ==
  ASSUME IInv, call.at = "replied", Outcome(now) \in {"success", "protocol_error"}
  PROVE  /\ InForce(now) /\ call.evaluated <= Observed /\ Observed <= now
         /\ Outcome(now) = "success" =>
              /\ call.reply.payload.text = call.text /\ Len(call.text) <= call.request.maxBytes
              /\ Len(call.text) <= HardBytes /\ call.reference.pinned \in {Absent, call.text}
              /\ call.reply.payload.locator = SourceRequest.locator
         /\ Outcome(now) = "protocol_error" => call.reply.kind = "error"
<1>1. Exchanged(Manifest, SourceRequest, call.reply, Raw) /\ Gate(now) = "PASS" /\ InForce(now)
  BY AtHand, GateSound DEF Outcome, GateAgain
<1>2. CASE call.reply.kind = "error"
  <2>1. Outcome(now) = "protocol_error" /\ Verdict(call.request, ErrorOf, Evidence(now)) = "PASS"
    BY <1>1, <1>2 DEF Outcome, GateAgain, Receipt
  <2>2. QED
    BY <1>1, <1>2, <2>1, RefusedIsInTime
<1>3. CASE call.reply.kind # "error"
  <2>1. /\ Outcome(now) = "success" /\ Verdict(call.request, ResultOf(now), Evidence(now)) = "PASS"
        /\ Disclosable
    BY <1>1, <1>3 DEF Outcome, GateAgain, Receipt
  <2>2. call.reply.kind = "result" /\ Raw = call.text
    BY <1>3, EvidenceIsUsable
  <2>3. QED
    BY <1>1, <2>1, <2>2, VerifiedIsInTime, ExchangedIsRead DEF Disclosable
<1>4. QED
  BY <1>2, <1>3

LEMMA SettleSound == ASSUME IInv, Settle PROVE IInv'
<1>1. /\ call.at = "replied" /\ UNCHANGED World /\ call \in Calls /\ now \in Times
  BY DEF Settle, IInv, TypeOK
<1> DEFINE outcome == Outcome(now)
           c == [call EXCEPT !.verified = now]
           r == Moved(c, "end", outcome)
<1>2. call' = r
  BY DEF Settle, Moved
<1>3. outcome \in {"execution_unavailable", "invalid_input", "source_failure",
                   "validation_failure", "protocol_error", "success"}
  BY <1>1, OutcomeIsOne
<1> HIDE DEF outcome
<1>4. /\ c \in Calls /\ c.verified = now /\ c.request = call.request /\ c.adapter = call.adapter
      /\ c.reference = call.reference /\ c.profile = call.profile /\ c.binding = call.binding
      /\ c.evaluated = call.evaluated /\ c.text = call.text /\ c.reply = call.reply
  BY <1>1 DEF Calls
<1> HIDE DEF c
<1>5. /\ r \in Calls /\ r.at = "end" /\ r.outcome = outcome /\ r.verified = now
      /\ r.request = call.request /\ r.adapter = call.adapter
      /\ r.reference = call.reference /\ r.profile = call.profile /\ r.binding = call.binding
      /\ r.evaluated = call.evaluated /\ r.text = call.text /\ r.reply = call.reply
  BY <1>3, <1>4, Advanced
<1> HIDE DEF r
<1>6. /\ SameRecords /\ Observed' = Observed /\ SourceRequest' = SourceRequest
      /\ InForce(call.evaluated)' <=> InForce(call.evaluated)
      /\ InForce(call.verified)' <=> InForce(now)
      /\ Together' = Together
  BY <1>1, <1>2, <1>5 DEF SameRecords, Observed, SourceRequest, EntriesOf, InForce, Together,
                          Agreed, Permitted, World
<1>7. DisclosedInForce'
  <2>1. outcome \in {"success", "protocol_error"} =>
          /\ InForce(now) /\ call.evaluated <= Observed /\ Observed <= now
          /\ outcome = "success" =>
               /\ call.reply.payload.text = call.text /\ Len(call.text) <= call.request.maxBytes
               /\ Len(call.text) <= HardBytes /\ call.reference.pinned \in {Absent, call.text}
               /\ call.reply.payload.locator = SourceRequest.locator
    BY <1>1, DisclosedIsSound DEF outcome
  <2>2. InForce(call.evaluated) /\ ("restored" \notin disturbed => Together \in during)
    BY <1>1 DEF IInv, DisclosedInForce
  <2>3. /\ InForce(call.evaluated)' /\ ("restored" \notin disturbed' => Together' \in during')
        /\ call'.outcome \in {"success", "protocol_error"} =>
             InForce(call.verified)' /\ call'.evaluated <= Observed' /\ Observed' <= call'.verified
    BY <1>1, <1>2, <1>5, <1>6, <2>1, <2>2 DEF World
  <2>4. call'.outcome = "success" =>
          /\ call'.reply.payload.text = call'.text /\ Len(call'.text) <= call'.request.maxBytes
          /\ Len(call'.text) <= HardBytes /\ call'.reference.pinned \in {Absent, call'.text}
          /\ call'.reply.payload.locator = SourceRequest'.locator
    BY <1>2, <1>5, <1>6, <2>1
  <2>5. QED
    BY <2>3, <2>4 DEF DisclosedInForce
<1>8. FailuresSayWhy'
  <2>1. now # Absent
    BY <1>1, RecordsAreUsable
  <2>2. outcome = "invalid_input" => ~InForce(now)
    BY <1>1, BlamedInput DEF outcome
  <2>3. outcome = "validation_failure" =>
          \/ call.adapter = "foreign" \/ "setBack" \in disturbed
          \/ call.text = <<>> \/ call.reference.pinned \notin {Absent, call.text}
    BY <1>1, BlamedEvidence DEF outcome
  <2>4. (outcome = "protocol_error" /\ call.reply.code = "limit_exceeded"
         /\ call.adapter # "foreign") =>
          IF call.text = Absent THEN SourceRequest.locator = Deep
          ELSE Len(call.text) > call.request.maxBytes \/ Len(call.text) > HardBytes
    BY <1>1, BlamedSource DEF outcome
  <2>5. (outcome = "source_failure" /\ call.adapter # "foreign") =>
          \/ call.text = Absent /\ call.reply.code \in NoText
          \/ call.text # Absent /\ call.reply.code \in Nameless
    BY <1>1, BlamedSource DEF outcome
  <2>6. QED
    BY <1>1, <1>2, <1>5, <1>6, <2>1, <2>2, <2>3, <2>4, <2>5 DEF FailuresSayWhy, World
<1>9. QED
  BY <1>1, <1>2, <1>3, <1>5, <1>6, <1>7, <1>8, EndSound

-----------------------------------------------------------------------------
(* The theorems                                                            *)

LEMMA InitSound == ASSUME Init PROVE IInv
<1>1. PICK reference \in InitialReferences :
        LET profile == Profile(0, "active", MaxTime)
        IN records = [reference |-> reference, profile |-> profile,
                      binding |-> Binding(0, reference, profile, {"resolve_context"}, 0)]
  BY DEF Init
<1> DEFINE profile == Profile(0, "active", MaxTime)
           binding == Binding(0, reference, profile, {"resolve_context"}, 0)
<1>2. 0 \in Times /\ 0 \in 0..MaxChanges
  BY ContextHostAssumption DEF Times
<1>3. reference \in References /\ reference.rev = 0
  <2>1. (CHOOSE text \in Contents : TRUE) \in Contents
    BY ContextHostAssumption
  <2>2. QED
    BY <1>2, <2>1 DEF InitialReferences, References, Reference, EntryLists
<1>4. profile \in Profiles /\ profile.rev = 0
  BY <1>2, ContextHostAssumption DEF Profiles, Profile
<1>5. /\ binding \in Bindings /\ binding.rev = 0 /\ Bound(binding)
      /\ binding.referenceFp = reference /\ binding.profileFp = profile
  BY <1>2, <1>3, <1>4 DEF Bindings, Binding, Bound, References
<1>6. records = [reference |-> reference, profile |-> profile, binding |-> binding]
  BY <1>1
<1> HIDE DEF profile, binding
<1>7. /\ records \in [reference : References, profile : Profiles, binding : Bindings]
      /\ InFiles = <<reference, profile, binding>>
      /\ InFiles \in References \X Profiles \X Bindings
  BY <1>3, <1>4, <1>5, <1>6 DEF InFiles
<1>8. /\ call.at = "reference" /\ call.outcome = "none" /\ call.verified = Absent
      /\ call.reply = Absent /\ call \in Calls
      /\ torn = {} /\ now = 0 /\ changes = 0
      /\ ever = {InFiles} /\ during = {InFiles} /\ disturbed = {}
  BY DEF Init, Calls
<1>9. TypeOK
  BY <1>2, <1>7, <1>8 DEF TypeOK
<1>10. FilesAreSound
  BY <1>3, <1>4, <1>5, <1>7, <1>8 DEF FilesAreSound, NoNewer
<1>11. LoadIsSound /\ CallIsSound /\ ReplyIsSound
  BY <1>8 DEF LoadIsSound, CallIsSound, ReplyIsSound, Loaded
<1>12. DisclosedInForce /\ FailuresSayWhy
  BY <1>8 DEF DisclosedInForce, FailuresSayWhy
<1>13. QED
  BY <1>9, <1>10, <1>11, <1>12 DEF IInv

LEMMA StutterSound == ASSUME IInv, UNCHANGED vars PROVE IInv'
<1>1. TypeOK' /\ FilesAreSound' /\ LoadIsSound'
  BY DEF vars, IInv, TypeOK, FilesAreSound, LoadIsSound, InFiles, Loading
<1>2. /\ Loaded' = Loaded /\ Authorised' = Authorised /\ Agreed' = Agreed /\ Together' = Together
      /\ Served(call.request)' = Served(call.request)
      /\ InForce(call.evaluated)' = InForce(call.evaluated)
      /\ InForce(call.verified)' = InForce(call.verified)
  BY DEF vars, Loaded, Authorised, Chain, Agreed, Together, Served, EntriesOf, InForce, Permitted
<1>3. /\ Observed' = Observed /\ SourceRequest' = SourceRequest
      /\ HonestReplies(Observed)' = HonestReplies(Observed)
  BY DEF vars, Observed, SourceRequest, EntriesOf, HonestReplies, CodesOf, ErrorFrom, ResultFrom
<1>4. CallIsSound'
  BY <1>2 DEF vars, IInv, CallIsSound
<1>5. ReplyIsSound'
  BY <1>3 DEF vars, IInv, ReplyIsSound
<1>6. DisclosedInForce' /\ FailuresSayWhy'
  BY <1>2, <1>3 DEF vars, IInv, DisclosedInForce, FailuresSayWhy
<1>7. QED
  BY <1>1, <1>4, <1>5, <1>6 DEF IInv

LEMMA NextSound == ASSUME IInv, [Next]_vars PROVE IInv'
<1>1. CASE Owner
  BY <1>1, OwnerSound
<1>2. CASE Clock
  BY <1>2, ClockSound
<1>3. CASE Call
  BY <1>3, LoadReferenceSound, LoadProfileSound, LoadBindingSound, AskSound, BadManifestSound,
     FetchSound, ReplySound, SettleSound, NoClockSound DEF Call
<1>4. CASE UNCHANGED vars
  BY <1>4, StutterSound
<1>5. QED
  BY <1>1, <1>2, <1>3, <1>4 DEF Next

\* Whatever the owner and the clock do between the steps of a call, its records,
\* its reply and its answer are in the relation its checks establish
\* (resolve_registered_context).
THEOREM ContextHostInvariant == Spec => []IInv
<1>1. Init => IInv
  BY InitSound
<1>2. IInv /\ [Next]_vars => IInv'
  BY NextSound
<1>3. QED
  BY <1>1, <1>2, PTL DEF Spec

\* Nothing is asked of the source or disclosed but under records that were in the
\* files together and in force at both gates, and what is disclosed is what was
\* read: two looks at the clock and three loads of files that change are enough.
THEOREM DisclosuresAreInForce == Spec => []DisclosedInForce
<1>1. IInv => DisclosedInForce
  BY DEF IInv
<1>2. QED
  BY <1>1, ContextHostInvariant, PTL

\* A failure says what went wrong, whatever limits the requests come with and the
\* adapter is configured with: a call of an adapter of the host's own that nothing
\* disturbs fails neither check, and blames a limit only for a text above one of the
\* two, or for an entry that is too deep (RuntimeFailureCategory).
THEOREM FailuresAreTrue == Spec => []FailuresSayWhy
<1>1. IInv => FailuresSayWhy
  BY DEF IInv
<1>2. QED
  BY <1>1, ContextHostInvariant, PTL
=============================================================================
