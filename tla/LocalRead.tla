----------------------------- MODULE LocalRead ------------------------------
(***************************************************************************)
(* One read of the local filesystem adapter, while the owner of the file   *)
(* system goes on working in it.                                           *)
(*                                                                         *)
(* Every system call of the adapter is one step: each directory of the     *)
(* path is opened through the handle of the one before it, the entry is    *)
(* looked up, opened, and read one unit (65536 bytes) at a time.  Between  *)
(* any two of them the owner may write, move, link or remove.  A handle    *)
(* stays with its node whatever becomes of its name.                       *)
(*                                                                         *)
(* A node is its device and inode number.  Symbolic links are nodes of     *)
(* their own that no step follows.  A change of a file gives it a change   *)
(* time it never had before.                                               *)
(***************************************************************************)
EXTENDS Naturals, Sequences, FiniteSets

CONSTANTS
  Dirs, Files, Link,  \* nodes of the file system; Link is any symbolic link
  Foreign,            \* nodes on another device than the root
  Slash, Root,        \* "/", and the directory the adapter was made for
  Places,             \* bound: <<directory, name>> pairs that are used
  RootPath, Parts,    \* names from Slash to the root, and from there to the entry
  Layouts,            \* name spaces to start from
  Contents,           \* bound: contents of files, sequences of units
  Undecodable,        \* units that are not UTF-8
  HardMax,            \* hard_max_bytes, in units
  MaxChanges,         \* bound: changes by the owner
  None

Nodes == Dirs \cup Files \cup {Link}
Units == UNION {{c[i] : i \in DOMAIN c} : c \in Contents}

ASSUME LocalReadAssumption ==
  /\ Dirs \cap Files = {} /\ Link \notin Dirs \cup Files /\ None \notin Nodes
  /\ Slash \in Dirs /\ Root \in Dirs \ Foreign /\ Foreign \subseteq Nodes
  /\ Places \subseteq Dirs \X (UNION {{p[2]} : p \in Places})
  /\ IsFiniteSet(Places) /\ Layouts \subseteq [Places -> Nodes \cup {None}]
  /\ Contents \subseteq Seq(Units)
  /\ HardMax \in Nat \ {0} /\ MaxChanges \in Nat
  /\ RootPath \in Seq(STRING) \ {<<>>} /\ Parts \in Seq(STRING) \ {<<>>}

VARIABLES
  names,    \* which node a place names
  content,  \* content of a file
  stamp,    \* change time of a file
  changes,  \* how often the owner has acted
  reader,   \* the call of the adapter
  seen      \* history: <<place, node, content>> since the last byte was read

vars == <<names, content, stamp, changes, reader, seen>>

Errors == {"unsupported_operation", "invalid_locator", "unsupported_content_type",
           "limit_exceeded", "not_found", "containment_failed", "source_unavailable",
           "unsupported_encoding", "provenance_unavailable"}
ASSUME NoneIsNoError == None \notin Errors

\* A request as far as the adapter tells requests apart.
Request == [operation : {"read", "other"},
            locator : {"plain", "malformed", "other_type"},
            limit : 1..HardMax + 1]

\* What a stat call tells of a file.
Stat == [node : Nodes, size : Nat, stamp : Nat, links : Nat]

\* `stage` says which system call comes next; `handles` are the directories
\* opened on the way, `expected` those of the first walk.
Reader == [stage : {"idle", "walk", "entry", "open", "before", "read", "after",
                    "rewalk", "reentry", "decode", "done"},
           request : Request \cup {None},
           handles : Seq(Dirs), expected : Seq(Dirs),
           entry : Nodes \cup {None}, file : Nodes \cup {None},
           before : Stat \cup {None}, bytes : Seq(Units),
           answer : Errors \cup {"none", "ok"}]
Idle == [stage |-> "idle", request |-> None, handles |-> <<>>, expected |-> <<>>,
         entry |-> None, file |-> None, before |-> None, bytes |-> <<>>, answer |-> "none"]

-----------------------------------------------------------------------------
(* The file system (POSIX)                                                 *)

LinksIn(ns, f) == Cardinality({p \in Places : ns[p] = f})

StatOf(f) ==
  [node |-> f, links |-> LinksIn(names, f),
   size |-> IF f \in Files THEN Len(content[f]) ELSE 0,
   stamp |-> IF f \in Files THEN stamp[f] ELSE 0]

At(dir, name) == IF <<dir, name>> \in Places THEN names[<<dir, name>>] ELSE None

\* Bound of the owner: directories are moved, never renamed into each other.
MayHold(p, q) == names[p] \notin Dirs \/ p[1] = q[1] \/ p[2] = q[2]

Touched(files) == [f \in Files |-> IF f \in files THEN stamp[f] + 1 ELSE stamp[f]]

Write(f) == \E c \in Contents \ {content[f]} :
  /\ content' = [content EXCEPT ![f] = c]
  /\ stamp' = Touched({f})
  /\ UNCHANGED names

\* rename(2): a file may replace a file.
Move(p, q) ==
  /\ p # q /\ names[p] # None /\ MayHold(p, q)
  /\ names[q] = None \/ {names[p], names[q]} \cap Dirs = {}
  /\ names[p] # names[q]
  /\ names' = [names EXCEPT ![p] = None, ![q] = names[p]]
  /\ stamp' = Touched({names[q]})
  /\ UNCHANGED content

HardLink(p, q) ==
  /\ names[p] \in Files /\ names[q] = None
  /\ names' = [names EXCEPT ![q] = names[p]]
  /\ stamp' = Touched({names[p]})
  /\ UNCHANGED content

Symlink(q) ==
  /\ names[q] = None
  /\ names' = [names EXCEPT ![q] = Link]
  /\ UNCHANGED <<content, stamp>>

Remove(p) ==
  /\ names[p] \in Files \cup {Link}
  /\ names' = [names EXCEPT ![p] = None]
  /\ stamp' = Touched({names[p]})
  /\ UNCHANGED content

Owner ==
  /\ changes < MaxChanges
  /\ reader.stage # "done"
  /\ changes' = changes + 1
  /\ \/ \E f \in Files : Write(f)
     \/ \E p, q \in Places : Move(p, q) \/ HardLink(p, q)
     \/ \E p \in Places : Symlink(p) \/ Remove(p)
  /\ UNCHANGED reader

-----------------------------------------------------------------------------
(* The adapter                                                             *)

Ends(answer) == reader' = [reader EXCEPT !.stage = "done", !.answer = answer]
Goes(stage) == reader' = [reader EXCEPT !.stage = stage]

\* What a check of metadata finds wrong with a node and its link count.
Fault(node, links) ==
  IF node = Link \/ node \in Foreign THEN "containment_failed"
  ELSE IF node \in Dirs THEN "unsupported_content_type"
  ELSE IF links # 1 THEN "containment_failed" ELSE None

\* The refusals that need no file system.
Refusal(q) ==
  IF q.operation # "read" THEN "unsupported_operation"
  ELSE IF q.locator = "malformed" THEN "invalid_locator"
  ELSE IF q.locator = "other_type" THEN "unsupported_content_type"
  ELSE IF q.limit > HardMax THEN "limit_exceeded" ELSE None

\* execute up to the call of _read.
Begin == \E q \in Request :
  /\ reader.stage = "idle"
  /\ reader' = IF Refusal(q) = None
                THEN [Idle EXCEPT !.stage = "walk", !.request = q]
                ELSE [Idle EXCEPT !.stage = "done", !.request = q, !.answer = Refusal(q)]

\* The directories of the path, by name, and the name of the entry.
Walk == RootPath \o SubSeq(Parts, 1, Len(Parts) - 1)
Name == Parts[Len(Parts)]

\* Where the name at index i of the walk is looked up, on a route of directories.
From(route, i) == IF i = 1 THEN Slash ELSE route[i - 1]
Handle == From(reader.handles, Len(reader.handles) + 1)

\* The directory at index i of the walk is the one the adapter may be in.
Contained(i, node) ==
  /\ i = Len(RootPath) => node = Root
  /\ i > Len(RootPath) => node \notin Foreign

\* O_DIRECTORY and O_NOFOLLOW
OpensAsDirectory(node) == node \in Dirs

\* One directory of the path is opened, without following a link.
OpenDir ==
  LET i == Len(reader.handles) + 1
      node == At(Handle, Walk[i])
      missing == IF reader.stage = "walk" THEN "not_found" ELSE "source_unavailable"
  IN /\ reader.stage \in {"walk", "rewalk"}
     /\ IF node = None THEN Ends(missing)
        ELSE IF ~OpensAsDirectory(node) THEN Ends("containment_failed")
        ELSE IF ~Contained(i, node) THEN Ends("containment_failed")
        ELSE IF reader.stage = "rewalk" /\ i > Len(RootPath) /\ node # reader.expected[i]
             THEN Ends("source_unavailable")
        ELSE reader' = [reader EXCEPT
               !.handles = Append(@, node),
               !.stage = IF i < Len(Walk) THEN @
                         ELSE IF @ = "walk" THEN "entry" ELSE "reentry"]

Entry == At(Handle, Name)

StatEntry ==
  /\ reader.stage = "entry"
  /\ IF Entry = None THEN Ends("not_found")
     ELSE IF Fault(Entry, LinksIn(names, Entry)) # None
          THEN Ends(Fault(Entry, LinksIn(names, Entry)))
     ELSE reader' = [reader EXCEPT !.stage = "open", !.entry = Entry]

OpenFile ==
  /\ reader.stage = "open"
  /\ IF Entry = None THEN Ends("not_found")
     ELSE IF Entry = Link THEN Ends("containment_failed")
     ELSE reader' = [reader EXCEPT !.stage = "before", !.file = Entry]

StatBefore ==
  LET file == reader.file
      before == StatOf(file)
  IN /\ reader.stage = "before"
     /\ IF Fault(file, before.links) # None THEN Ends(Fault(file, before.links))
        ELSE IF file # reader.entry THEN Ends("source_unavailable")
        ELSE IF before.size > reader.request.limit THEN Ends("limit_exceeded")
        ELSE reader' = [reader EXCEPT !.stage = "read", !.before = before]

\* One os.read, up to one unit more than the limit.
ReadUnit ==
  LET count == Len(reader.bytes)
      file == content[reader.file]
  IN /\ reader.stage = "read"
     /\ IF count <= reader.request.limit /\ count < Len(file)
        THEN reader' = [reader EXCEPT !.bytes = Append(@, file[count + 1])]
        ELSE Goes("after")

\* Seeded fault: the change time is not part of what must be stable.
SameSize(before, after) ==
  before.node = after.node /\ before.size = after.size /\ before.links = after.links

\* device, inode, size, change time and link count
Stable(before, after) == before = after

StatAfter ==
  LET after == StatOf(reader.file)
  IN /\ reader.stage = "after"
     /\ IF Len(reader.bytes) > reader.request.limit THEN Ends("limit_exceeded")
        ELSE IF ~Stable(reader.before, after) \/ Len(reader.bytes) # after.size
             THEN Ends("source_unavailable")
        ELSE reader' = [reader EXCEPT !.stage = "rewalk",
                          !.expected = reader.handles, !.handles = <<>>]

\* The entry once more: the same file, unchanged since it was read.
StatAgain ==
  /\ reader.stage = "reentry"
  /\ IF Entry = None \/ Entry \in Dirs THEN Ends("source_unavailable")
     ELSE IF Fault(Entry, LinksIn(names, Entry)) # None
          THEN Ends(Fault(Entry, LinksIn(names, Entry)))
     ELSE IF ~Stable(reader.before, StatOf(Entry)) THEN Ends("source_unavailable")
     ELSE Goes("decode")

\* Seeded fault: what cannot be decoded is left out.
DecodeLeniently ==
  /\ reader.stage = "decode"
  /\ reader' = [reader EXCEPT !.stage = "done", !.answer = "ok",
                  !.bytes = SelectSeq(@, LAMBDA u : u \notin Undecodable)]

Decode ==
  /\ reader.stage = "decode"
  /\ \/ /\ \E i \in DOMAIN reader.bytes : reader.bytes[i] \in Undecodable
        /\ Ends("unsupported_encoding")
     \/ /\ \A i \in DOMAIN reader.bytes : reader.bytes[i] \notin Undecodable
        /\ Ends("ok") \/ Ends("provenance_unavailable")

\* A system call fails with an error number of its own.
CallFails ==
  /\ reader.stage \notin {"idle", "decode", "done"}
  /\ Ends("source_unavailable")

Adapter ==
  /\ \/ Begin \/ OpenDir \/ StatEntry \/ OpenFile \/ StatBefore \/ ReadUnit
     \/ StatAfter \/ StatAgain \/ Decode \/ CallFails
  /\ UNCHANGED <<names, content, stamp, changes>>

-----------------------------------------------------------------------------
Init ==
  /\ names \in Layouts
  /\ content \in [Files -> Contents]
  /\ stamp = [f \in Files |-> 0]
  /\ changes = 0
  /\ reader = Idle
  /\ seen = {}

\* What a walk could meet now: directories, and files that may be handed out.
Glimpse ==
  {<<p, names[p], IF names[p] \in Files THEN content[names[p]] ELSE <<>> >> :
     p \in {q \in Places : \/ names[q] \in Dirs
                           \/ names[q] \in Files /\ Fault(names[q], LinksIn(names, names[q])) = None}}

\* The history is kept from the last byte on.
Record ==
  seen' = IF reader'.stage \in {"after", "rewalk", "reentry", "decode", "done"}
          THEN seen \cup Glimpse' ELSE {}

Next == (Owner \/ Adapter) /\ Record

Spec == Init /\ [][Next]_vars

-----------------------------------------------------------------------------
(* Properties                                                              *)

\* Shapes of the file system, of the call and of the history.
TypeOK ==
  /\ names \in [Places -> Nodes \cup {None}]
  /\ content \in [Files -> Contents]
  /\ stamp \in [Files -> Nat]
  /\ changes \in 0..MaxChanges
  /\ reader \in Reader
  /\ seen \subseteq Places \X Nodes \X (Contents \cup {<<>>})

\* The name led from one node to the other since the last byte was read.
Led(dir, name, node) == \E x \in seen : x[1] = <<dir, name>> /\ x[2] = node

\* The contents the entry had since the last byte was read, below the root the
\* adapter was made for: each name of the path led to the next node at some time.
Reached(dir) == \E route \in [1..Len(Walk) -> Dirs] :
  /\ dir = From(route, Len(Walk) + 1)
  /\ \A i \in 1..Len(Walk) : Contained(i, route[i]) /\ Led(From(route, i), Walk[i], route[i])
Held == {x[3] : x \in {y \in seen : y[2] \in Files /\ y[1][2] = Name /\ Reached(y[1][1])}}

Promise == INSTANCE SourceRead WITH
  held <- Held, answer <- reader.answer,
  text <- IF reader.answer = "ok" THEN reader.bytes ELSE None

\* Whatever the owner does between two system calls, the bytes handed out are
\* whole: a content that the one file at the end of the path had when the
\* reading was over, below the very root the adapter was made for, through
\* directories and names only (_read, _revalidate_namespace).
ReadsOneMoment == Promise!Spec

\* The directories the first k names lead through now (there is one way at most).
Routes(k) ==
  {route \in [1..k -> Dirs] : \A i \in 1..k : At(From(route, i), Walk[i]) = route[i]}

\* The path leads to this node now, below the root and on its device.
LeadsTo(node) == \E route \in Routes(Len(Walk)) :
  /\ \A i \in 1..Len(Walk) : Contained(i, route[i])
  /\ At(From(route, Len(Walk) + 1), Name) = node
NameMissing ==
  \/ \E k \in 1..Len(Walk) : \E route \in Routes(k - 1) : At(From(route, k), Walk[k]) = None
  \/ \E route \in Routes(Len(Walk)) : At(From(route, Len(Walk) + 1), Name) = None

MayBeRead(file) == file \in Files /\ LeadsTo(file) /\ Fault(file, LinksIn(names, file)) = None
Fits(file) == Len(content[file]) <= reader.request.limit
Decodes(file) == \A i \in DOMAIN content[file] : content[file][i] \notin Undecodable

\* What an answer says of the path, as it is now.
Answers(file) == MayBeRead(file) /\ Fits(file)
Exact(answer) ==
  /\ answer = "ok" => \E f \in Files : Answers(f) /\ Decodes(f) /\ reader.bytes = content[f]
  /\ (\E f \in Files : Answers(f)) =>
       answer \in {"ok", "unsupported_encoding", "source_unavailable", "provenance_unavailable"}
  /\ answer = "not_found" => NameMissing
  /\ answer = "containment_failed" => ~\E f \in Files : MayBeRead(f)
  /\ answer = "limit_exceeded" => \E f \in Files : MayBeRead(f) /\ ~Fits(f)
  /\ answer = "unsupported_encoding" => \E f \in Files : Answers(f) /\ ~Decodes(f)

\* While nobody else acts, the answer tells the truth about the path: the
\* content of its entry if there is one that may be read, "not found" only
\* where a name is missing, "limit exceeded" only of a file that is longer;
\* nothing but a failing call can hide a file that may be read (execute).
QuietAnswerIsExact ==
  changes = 0 /\ reader.stage = "done" /\ Refusal(reader.request) = None => Exact(reader.answer)
=============================================================================
