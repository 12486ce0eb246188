------------------------------ MODULE Documents ------------------------------
(***************************************************************************)
(* What becomes of a composition outside the workspace and in print: the   *)
(* manuscripts of a series that come back from a Writer, and the releases  *)
(* of a publication.  The two share nothing but the processes that work on *)
(* them: a behaviour picks one and the other stands still.  The theorems   *)
(* hold for every value of the constants.                                  *)
(***************************************************************************)
EXTENDS Naturals, Sequences, FiniteSets, SequenceTheorems, WellFoundedInduction, TLAPS

CONSTANTS
    Procs, MaxFaults, MaxLosses, None,
    Outlines, MaxRevisions, MaxBatches,
    Manuscripts, Sound, Kinds, MaxConfig, MaxRenderer, MaxBuilds, MaxClock

ASSUME RevisionBound == MaxRevisions \in Nat

VARIABLES
    service,
    comps, selected, inputs, pages, lock, task, tick, stops, gone, answers,
    config, renderer, builds, disk, job, clock, faults, losses, requested, released

Writer == INSTANCE WriterRoundTrip
    WITH disk <- pages, job <- task, clock <- tick, faults <- stops, losses <- gone

Press == INSTANCE PublicationRelease

writerVars == <<comps, selected, inputs, pages, lock, task, tick, stops, gone, answers>>
pressVars == <<config, renderer, builds, disk, job, clock, faults, losses, requested, released>>

Init ==
    /\ service \in {"writer", "press"}
    /\ Writer!Init /\ Press!Init

Next ==
    /\ UNCHANGED service
    /\ \/ service = "writer" /\ Writer!Next /\ UNCHANGED pressVars
       \/ service = "press" /\ Press!Next /\ UNCHANGED writerVars

Spec == Init /\ [][Next]_<<service, writerVars, pressVars>>

(* A revision is written once, from the inputs its sections name, and an   *)
(* interrupted import never leaves a series that refuses the next one.     *)
RevisionsOnce ==
    /\ Writer!RevisionsOnce /\ Writer!InputsPinned /\ Writer!SectionsFit
    /\ Writer!AlwaysReconcilable

(* A release is decided once, for what was current, whatever files were    *)
(* lost, and deaths and failed writes alone never keep an answered request *)
(* from being released.                                                    *)
DecidedCurrent ==
    /\ Press!TypeOK /\ Press!DecidedOnce /\ Press!DecidedCurrent /\ Press!AlwaysReleasable

-----------------------------------------------------------------------------
(* None is none of the records that are made here.                         *)
NoneIsNoRecord ==
    /\ \A x, y : None # [on |-> x, at |-> y] /\ None # [req |-> x, rel |-> y]
    /\ \A x, y, z, w : None # [req |-> x, at |-> y, config |-> z, renderer |-> w]

(* What is on disk about an operation or a request.                        *)
HasRecord(r) == \E x \in disk.ops : x.req = r
NoRecord(on) == \A x \in disk.ops : x.req.on # on
NoCopy(on) == \A c \in disk.copies : c.on # on
Loads(r) ==
    \/ HasRecord(r) /\ \A c \in disk.copies : c.on = r.on => c = r
    \/ NoRecord(r.on) /\ r \in disk.copies

Busy(p) == job[p].op \in {"requesting", "releasing"}

(* No two calls work on one operation.                                     *)
Apart(p) == Busy(p) => \A q \in Procs \ {p} : Busy(q) => job[p].on # job[q].on

(* The decisions that anybody has heard of or may still hear of.           *)
Decisions ==
    released \cup disk.manifests \cup {x.rel : x \in {y \in disk.ops : y.rel # None}}
      \cup {job[p].rel : p \in {q \in Procs : job[q].op = "releasing"}}

Current(m) ==
    /\ m.renderer = m.req.on.build.renderer
    /\ m.req.on.build.kind = "report" => m.config = m.req.on.build.config

Stamped(r) == r # None /\ r.at \in Nat /\ r.at <= clock

FilesSound ==
    /\ DOMAIN disk = {"ops", "copies", "artifacts", "manifests"}
    /\ \A x \in disk.ops :
         /\ x = [req |-> x.req, rel |-> x.rel] /\ x # None
         /\ Stamped(x.req) /\ x.req.on.build \in builds
         /\ x.rel # None => x.rel.req = x.req
    /\ \A x, y \in disk.ops : x.req.on = y.req.on => x = y
    /\ \A c \in disk.copies : Stamped(c)
    /\ \A c, d \in disk.copies : c.on = d.on => c = d

SettingSound ==
    /\ config \in Nat \ {0} /\ renderer \in Nat \ {0} /\ clock \in Nat /\ losses \in Nat
    /\ \A b \in builds : /\ DOMAIN b = {"rev", "kind", "config", "renderer", "pdf"}
                         /\ b.config \in 1..config /\ b.renderer \in 1..renderer

HistorySound == \A r \in requested : Stamped(r) /\ r.on.build \in builds

DecisionsSound ==
    /\ \A m \in Decisions : m # None /\ m.req \in requested /\ m.at \in Nat /\ Current(m)
    /\ \A m, n \in Decisions : m.req = n.req => m = n
    /\ \A x \in disk.ops : x.rel = None => \A m \in released \cup disk.manifests : m.req # x.req

(* Up to three writes, each made only where it is needed.                  *)
Needed(test) == IF test THEN 1 ELSE 0
Writes(a, x, b, y, c, z) == Press!If(a = 1, x) \o Press!If(b = 1, y) \o Press!If(c = 1, z)

(* The files of a release that are still to be made, flag by flag.         *)
Files(a, b, c, r, m) ==
    Writes(a, Press!Put("copy", r), b, Press!Put("artifact", r), c, Press!Put("manifest", m))

Requesting(p) ==
    LET r == job[p].req IN
    \/ /\ job[p].todo = <<Press!Put("op", [req |-> r, rel |-> None]), Press!Put("copy", r)>>
       /\ NoRecord(r.on) /\ NoCopy(r.on) /\ r \notin requested
    \/ job[p].todo = <<Press!Put("copy", r)>> /\ HasRecord(r) /\ NoCopy(r.on)
    \/ job[p].todo = <<>> /\ HasRecord(r) /\ r \in disk.copies

(* The decision on a request is not on its record yet.                     *)
Undecided(r) == \A x \in disk.ops : x.req.on = r.on => x = [req |-> r, rel |-> None]

ReleasingWith(p, a, b, c) ==
    LET r == job[p].req  m == job[p].rel IN
    /\ m.req = r
    /\ a = 1 => NoCopy(r.on)
    /\ b # 1 => r \in disk.artifacts
    /\ \/ /\ job[p].todo = <<Press!Put("op", [req |-> r, rel |-> m])>> \o Files(a, b, c, r, m)
          /\ Undecided(r)
       \/ /\ job[p].todo = Files(a, b, c, r, m)
          /\ [req |-> r, rel |-> m] \in disk.ops

Releasing(p) == \E a, b, c \in {0, 1} : ReleasingWith(p, a, b, c)

JobSound(p) ==
    /\ DOMAIN job[p] = {"op", "on", "req", "rel", "todo"}
    /\ job[p].op \in {"idle", "requesting", "approved", "releasing"}
    /\ job[p].op \in {"idle", "approved"} => job[p].todo = <<>>
    /\ job[p].op # "idle" =>
          job[p].on = job[p].req.on /\ job[p].on.build \in builds /\ Stamped(job[p].req)
    /\ job[p].op \in {"approved", "releasing"} => job[p].req \in requested /\ Loads(job[p].req)
    /\ job[p].op = "requesting" => Requesting(p)
    /\ job[p].op = "releasing" => Releasing(p)

JobsSound ==
    /\ DOMAIN job = Procs
    /\ \A p \in Procs : JobSound(p)
    /\ \A p, q \in Procs : Busy(p) /\ Busy(q) /\ job[p].on = job[q].on => p = q

(* As long as no file is lost every request is recorded, and so is what is *)
(* released.                                                               *)
Whole ==
    /\ \A r \in requested \cup disk.copies : HasRecord(r)
    /\ \A m \in disk.manifests :
         m.req \in disk.artifacts /\ [req |-> m.req, rel |-> m] \in disk.ops

Inv ==
    /\ FilesSound /\ SettingSound /\ HistorySound /\ DecisionsSound /\ JobsSound
    /\ losses = 0 => Whole


-----------------------------------------------------------------------------
(* Reading the files                                                       *)

LEMMA RecordIs ==
    ASSUME FilesSound, NEW on
    PROVE  \/ Press!Record(on) = None /\ NoRecord(on)
           \/ /\ Press!Record(on) # None /\ Press!Record(on) \in disk.ops
                   /\ Press!Record(on).req.on = on
              /\ \A x \in disk.ops : x.req.on = on => x = Press!Record(on)
<1>1. CASE \E x \in disk.ops : x.req.on = on
  <2>1. Press!Record(on) \in disk.ops /\ Press!Record(on).req.on = on
    BY <1>1 DEF Press!Record
  <2> QED BY <2>1 DEF FilesSound
<1>2. CASE ~ \E x \in disk.ops : x.req.on = on
  BY <1>2 DEF Press!Record, NoRecord
<1> QED BY <1>1, <1>2

LEMMA CopyIs ==
    ASSUME FilesSound, NEW on
    PROVE  \/ Press!Copy(on) = None /\ NoCopy(on)
           \/ /\ Press!Copy(on) # None /\ Press!Copy(on) \in disk.copies /\ Press!Copy(on).on = on
              /\ \A c \in disk.copies : c.on = on => c = Press!Copy(on)
<1>1. CASE \E c \in disk.copies : c.on = on
  <2>1. Press!Copy(on) \in disk.copies /\ Press!Copy(on).on = on
    BY <1>1 DEF Press!Copy
  <2> QED BY <2>1 DEF FilesSound, Stamped
<1>2. CASE ~ \E c \in disk.copies : c.on = on
  BY <1>2 DEF Press!Copy, NoCopy
<1> QED BY <1>1, <1>2

LEMMA ManifestIs ==
    ASSUME DecisionsSound, NEW r
    PROVE  \/ Press!Manifest(r) = None /\ \A m \in disk.manifests : m.req # r
           \/ Press!Manifest(r) # None /\ Press!Manifest(r) \in disk.manifests
                /\ Press!Manifest(r).req = r
<1>1. CASE \E m \in disk.manifests : m.req = r
  <2>1. Press!Manifest(r) \in disk.manifests /\ Press!Manifest(r).req = r
    BY <1>1 DEF Press!Manifest
  <2> QED BY <2>1 DEF DecisionsSound, Decisions
<1>2. CASE ~ \E m \in disk.manifests : m.req = r
  BY <1>2 DEF Press!Manifest
<1> QED BY <1>1, <1>2

LEMMA LoadsIs ==
    ASSUME FilesSound, NEW r, r # None
    PROVE  Press!RequestLoads(r) <=> Loads(r)
<1>1. CASE Press!Record(r.on) = None /\ NoRecord(r.on)
  <2>1. ~HasRecord(r)
    BY <1>1 DEF HasRecord, NoRecord
  <2> QED BY <1>1, <2>1, CopyIs DEF Press!RequestLoads, Loads, NoCopy
<1>2. CASE /\ Press!Record(r.on) # None /\ Press!Record(r.on) \in disk.ops
                /\ Press!Record(r.on).req.on = r.on
           /\ \A x \in disk.ops : x.req.on = r.on => x = Press!Record(r.on)
  <2>1. HasRecord(r) <=> Press!Record(r.on).req = r
    BY <1>2 DEF HasRecord
  <2>2. ~NoRecord(r.on)
    BY <1>2 DEF NoRecord
  <2>3. Press!Copy(r.on) \in {None, r} <=> \A c \in disk.copies : c.on = r.on => c = r
    BY CopyIs DEF NoCopy
  <2> QED BY <1>2, <2>1, <2>2, <2>3 DEF Press!RequestLoads, Loads
<1> QED BY <1>1, <1>2, RecordIs

LEMMA SameFiles ==
    ASSUME UNCHANGED disk, NEW r
    PROVE  /\ HasRecord(r)' <=> HasRecord(r)
           /\ NoRecord(r)' <=> NoRecord(r)
           /\ NoCopy(r)' <=> NoCopy(r)
           /\ Loads(r)' <=> Loads(r)
BY DEF HasRecord, NoRecord, NoCopy, Loads

-----------------------------------------------------------------------------
(* What is left of a list of writes                                        *)

LEMMA First ==
    ASSUME NEW S, NEW x \in S, NEW s \in Seq(S)
    PROVE  /\ <<x>> \o s \in Seq(S) /\ <<x>> \o s # <<>>
           /\ Head(<<x>> \o s) = x /\ Tail(<<x>> \o s) = s
<1> DEFINE t == <<x>> \o s
<1>1. <<x>> \in Seq(S) /\ Len(<<x>>) = 1 /\ <<x>>[1] = x
  OBVIOUS
<1>2. /\ t \in Seq(S) /\ Len(t) = 1 + Len(s)
      /\ \A i \in 1..Len(t) : t[i] = IF i <= 1 THEN <<x>>[i] ELSE s[i - 1]
  BY <1>1, ConcatProperties
<1> HIDE DEF t
<1>3. Len(s) \in Nat
  OBVIOUS
<1>4. t # <<>> /\ Head(t) = x
  BY <1>1, <1>2, <1>3
<1>5. /\ Tail(t) \in Seq(S) /\ Len(Tail(t)) = Len(t) - 1
      /\ \A i \in 1..Len(Tail(t)) : Tail(t)[i] = t[i + 1]
  BY <1>2, <1>4, HeadTailProperties
<1>6. Tail(t) = s
  <2>1. \A i \in 1..Len(Tail(t)) : Tail(t)[i] = s[i]
    BY <1>2, <1>3, <1>5
  <2> QED BY <2>1, <1>2, <1>3, <1>5, SeqEqual
<1> QED BY <1>2, <1>4, <1>6 DEF t

LEMMA WritesLeft ==
    ASSUME NEW x, NEW y, NEW z, NEW a, NEW b, NEW c
    PROVE  /\ a = 1 => /\ Writes(a, x, b, y, c, z) # <<>>
                       /\ Head(Writes(a, x, b, y, c, z)) = x
                       /\ Tail(Writes(a, x, b, y, c, z)) = Writes(0, x, b, y, c, z)
           /\ a # 1 /\ b = 1 => /\ Writes(a, x, b, y, c, z) # <<>>
                                /\ Head(Writes(a, x, b, y, c, z)) = y
                                /\ Tail(Writes(a, x, b, y, c, z)) = Writes(0, x, 0, y, c, z)
           /\ a # 1 /\ b # 1 /\ c = 1 => /\ Writes(a, x, b, y, c, z) # <<>>
                                         /\ Head(Writes(a, x, b, y, c, z)) = z
                                         /\ Tail(Writes(a, x, b, y, c, z)) = <<>>
           /\ a # 1 /\ b # 1 /\ c # 1 => Writes(a, x, b, y, c, z) = <<>>
<1> DEFINE S == {x, y, z}  u == Press!If(a = 1, x)  v == Press!If(b = 1, y)  w == Press!If(c = 1, z)
           s == Writes(a, x, b, y, c, z)
<1>1. u \in Seq(S) /\ v \in Seq(S) /\ w \in Seq(S)
  <2>1. <<>> \in Seq(S) /\ <<x>> \in Seq(S) /\ <<y>> \in Seq(S) /\ <<z>> \in Seq(S)
    OBVIOUS
  <2> HIDE DEF S
  <2> QED BY <2>1 DEF Press!If
<1>2. s = u \o (v \o w) /\ <<>> \o v \o w = v \o w /\ <<>> \o <<>> \o w = w
  BY <1>1, ConcatAssociative, ConcatEmptySeq DEF Writes
<1>3. v \o w \in Seq(S)
  BY <1>1, ConcatProperties
<1>4. a = 1 => s # <<>> /\ Head(s) = x /\ Tail(s) = v \o w
  BY <1>2, <1>3, First DEF Press!If
<1>5. a # 1 => s = v \o w
  BY <1>2, <1>3, ConcatEmptySeq DEF Press!If
<1>6. a # 1 /\ b = 1 => s # <<>> /\ Head(s) = y /\ Tail(s) = w
  BY <1>5, <1>1, First DEF Press!If
<1>7. a # 1 /\ b # 1 => s = w
  BY <1>5, <1>1, ConcatEmptySeq DEF Press!If
<1>8. a # 1 /\ b # 1 /\ c = 1 => s # <<>> /\ Head(s) = z /\ Tail(s) = <<>>
  <2>1. <<z>> # <<>> /\ Head(<<z>>) = z /\ Tail(<<z>>) = <<>>
    OBVIOUS
  <2>2. c = 1 => w = <<z>>
    BY DEF Press!If
  <2> QED BY <1>7, <2>1, <2>2
<1>9. Writes(0, x, b, y, c, z) = v \o w /\ Writes(0, x, 0, y, c, z) = w
  BY <1>2 DEF Press!If, Writes
<1>10. a # 1 /\ b # 1 /\ c # 1 => s = <<>>
  BY <1>7 DEF Press!If
<1> HIDE DEF s
<1> QED BY <1>4, <1>6, <1>8, <1>9, <1>10 DEF s

LEMMA Heads ==
    ASSUME NEW x, NEW y, NEW z
    PROVE  /\ Head(<<x>>) = x /\ Head(<<x, y>>) = x /\ Head(<<x, y, z>>) = x
           /\ Tail(<<x>>) = <<>> /\ Tail(<<x, y>>) = <<y>> /\ Tail(<<x, y, z>>) = <<y, z>>
OBVIOUS

LEMMA Prefixed ==
    ASSUME NEW o, NEW x, NEW y, NEW z, NEW a, NEW b, NEW c
    PROVE  /\ <<o>> \o Writes(a, x, b, y, c, z) # <<>>
           /\ Head(<<o>> \o Writes(a, x, b, y, c, z)) = o
           /\ Tail(<<o>> \o Writes(a, x, b, y, c, z)) = Writes(a, x, b, y, c, z)
           /\ <<>> \o Writes(a, x, b, y, c, z) = Writes(a, x, b, y, c, z)
<1> DEFINE S == {o, x, y, z}  s == Writes(a, x, b, y, c, z)
<1>1. Press!If(a = 1, x) \in Seq(S) /\ Press!If(b = 1, y) \in Seq(S)
      /\ Press!If(c = 1, z) \in Seq(S)
  <2>1. <<>> \in Seq(S) /\ <<x>> \in Seq(S) /\ <<y>> \in Seq(S) /\ <<z>> \in Seq(S)
    OBVIOUS
  <2> HIDE DEF S
  <2> QED BY <2>1 DEF Press!If
<1>2. s \in Seq(S) /\ o \in S
  BY <1>1, ConcatProperties DEF Writes
<1> HIDE DEF s
<1>3. <<>> \o s = s /\ <<o>> \o s # <<>> /\ Head(<<o>> \o s) = o /\ Tail(<<o>> \o s) = s
  BY <1>2, First, ConcatEmptySeq
<1> QED BY <1>3 DEF s

(* A release has written everything, or its next write is the operation    *)
(* record, the copy, the artifact or the manifest.                         *)
LEMMA FilesLeft ==
    ASSUME NEW r, NEW m, NEW a, NEW b, NEW c
    PROVE  /\ a = 1 => /\ Files(a, b, c, r, m) # <<>>
                       /\ Head(Files(a, b, c, r, m)) = Press!Put("copy", r)
                       /\ Tail(Files(a, b, c, r, m)) = Files(0, b, c, r, m)
           /\ a # 1 /\ b = 1 => /\ Files(a, b, c, r, m) # <<>>
                                /\ Head(Files(a, b, c, r, m)) = Press!Put("artifact", r)
                                /\ Tail(Files(a, b, c, r, m)) = Files(0, 0, c, r, m)
           /\ a # 1 /\ b # 1 /\ c = 1 => /\ Files(a, b, c, r, m) # <<>>
                                         /\ Head(Files(a, b, c, r, m)) = Press!Put("manifest", m)
                                         /\ Tail(Files(a, b, c, r, m)) = <<>>
           /\ a # 1 /\ b # 1 /\ c # 1 => Files(a, b, c, r, m) = <<>>
BY WritesLeft DEF Files

LEMMA RecordFirst ==
    ASSUME NEW r, NEW m, NEW a, NEW b, NEW c
    PROVE  /\ <<Press!Put("op", [req |-> r, rel |-> m])>> \o Files(a, b, c, r, m) # <<>>
           /\ Head(<<Press!Put("op", [req |-> r, rel |-> m])>> \o Files(a, b, c, r, m))
                = Press!Put("op", [req |-> r, rel |-> m])
           /\ Tail(<<Press!Put("op", [req |-> r, rel |-> m])>> \o Files(a, b, c, r, m))
                = Files(a, b, c, r, m)
           /\ <<>> \o Files(a, b, c, r, m) = Files(a, b, c, r, m)
BY Prefixed DEF Files

-----------------------------------------------------------------------------
(* Steps that change no file                                               *)

LEMMA InitSound == ASSUME NoneIsNoRecord PROVE Press!Init => Inv
<1> SUFFICES ASSUME Press!Init PROVE Inv
  OBVIOUS
<1>1. FilesSound /\ SettingSound /\ HistorySound
  BY DEF Press!Init, FilesSound, SettingSound, HistorySound
<1>2. DecisionsSound
  BY DEF Press!Init, DecisionsSound, Decisions, Press!Idle
<1>3. JobsSound
  BY DEF Press!Init, JobsSound, JobSound, Press!Idle, Busy
<1>4. Whole
  BY DEF Press!Init, Whole
<1> QED BY <1>1, <1>2, <1>3, <1>4 DEF Inv

(* A process is not disturbed by what happens to other operations.         *)
LEMMA JobStays ==
    ASSUME Inv, NEW q \in Procs, UNCHANGED <<disk, job[q]>>, builds \subseteq builds',
           clock' \in Nat, clock <= clock', requested \subseteq requested',
           Busy(q) => job[q].req \in requested \/ job[q].req \notin requested'
    PROVE  JobSound(q)'
<1>1. JobSound(q) /\ clock \in Nat
  BY DEF Inv, JobsSound, SettingSound
<1>2. \A r : Stamped(r) => Stamped(r)'
  BY <1>1 DEF Stamped
<1>3. Requesting(q) /\ job[q].op = "requesting" => Requesting(q)'
  BY SameFiles DEF Requesting, Busy
<1>4. Releasing(q) => Releasing(q)'
  BY SameFiles DEF Releasing, ReleasingWith, Undecided
<1>5. Loads(job[q].req) => Loads(job[q].req)'
  BY DEF Loads, HasRecord, NoRecord
<1> QED BY <1>1, <1>2, <1>3, <1>4, <1>5 DEF JobSound

LEMMA OneJob ==
    ASSUME Inv, NEW p \in Procs, job' = [job EXCEPT ![p] = job'[p]], JobSound(p)',
           \A q \in Procs \ {p} : JobSound(q)',
           Apart(p)'
    PROVE  JobsSound'
<1>1. \A q \in Procs \ {p} : job'[q] = job[q]
  BY DEF Inv, JobsSound
<1>2. DOMAIN job' = Procs /\ \A q \in Procs : JobSound(q)'
  BY DEF Inv, JobsSound
<1>3. \A q \in Procs \ {p} : Busy(q)' <=> Busy(q)
  BY <1>1 DEF Busy
<1>4. ASSUME NEW q \in Procs, NEW r \in Procs, Busy(q)', Busy(r)', job'[q].on = job'[r].on
      PROVE  q = r
  <2>1. CASE q = p
    BY <1>1, <1>3, <1>4, <2>1 DEF Apart
  <2>2. CASE r = p
    BY <1>1, <1>3, <1>4, <2>2 DEF Apart
  <2>3. CASE q # p /\ r # p
    BY <1>1, <1>3, <1>4, <2>3 DEF Inv, JobsSound
  <2> QED BY <2>1, <2>2, <2>3
<1> QED BY <1>2, <1>4 DEF JobsSound

LEMMA Quiet ==
    ASSUME Inv, UNCHANGED <<disk, losses>>, builds \subseteq builds', clock' \in Nat,
           clock <= clock', requested \subseteq requested', SettingSound', DecisionsSound',
           JobsSound',
           \A r \in requested' \ requested : Stamped(r) /\ r.on.build \in builds /\ HasRecord(r)
    PROVE  Inv'
<1>1. clock \in Nat
  BY DEF Inv, SettingSound
<1>2. \A r : Stamped(r) => Stamped(r)'
  BY <1>1 DEF Stamped
<1>3. FilesSound'
  BY <1>2 DEF Inv, FilesSound
<1>4. HistorySound'
  BY <1>2 DEF Inv, HistorySound
<1>5. losses = 0 => Whole'
  BY SameFiles DEF Inv, Whole
<1> QED BY <1>3, <1>4, <1>5 DEF Inv

LEMMA NothingDecided ==
    ASSUME Inv, UNCHANGED disk, requested \subseteq requested', Decisions' \subseteq Decisions,
           \A m \in released' : m \in released \/ \E x \in disk.ops : x.rel = m /\ x.req = m.req
    PROVE  DecisionsSound'
<1>1. DecisionsSound /\ released' \subseteq Decisions
  BY DEF Inv, Decisions
<1>2. ASSUME NEW x \in disk.ops, x.rel = None, NEW m \in released', m.req = x.req
      PROVE  FALSE
  <2>1. PICK y \in disk.ops : y.rel = m /\ y.req = m.req
    BY <1>1, <1>2 DEF DecisionsSound
  <2>2. y = x
    BY <1>2, <2>1 DEF Inv, FilesSound
  <2> QED BY <1>1, <1>2, <2>1, <2>2 DEF DecisionsSound
<1>3. \A m \in Decisions : Current(m) => Current(m)'
  BY DEF Current
<1> QED BY <1>1, <1>2, <1>3 DEF DecisionsSound

(* The decisions change with those of the process that moves.              *)
LEMMA DecisionsOf ==
    ASSUME Inv, NEW p \in Procs, job' = [job EXCEPT ![p] = job'[p]], UNCHANGED <<disk, released>>
    PROVE  /\ job'[p].op # "releasing" => Decisions' \subseteq Decisions
           /\ Decisions' \subseteq Decisions \cup {job'[p].rel}
           /\ Decisions \subseteq Decisions' \cup {job[p].rel}
<1>1. \A q \in Procs \ {p} : job'[q] = job[q]
  BY DEF Inv, JobsSound
<1> QED BY <1>1 DEF Decisions

LEMMA Leaving ==
    ASSUME Inv, NEW p \in Procs, Press!Leave(p)
    PROVE  /\ job' = [job EXCEPT ![p] = job'[p]] /\ job'[p] = Press!Idle
           /\ JobSound(p)' /\ Apart(p)' /\ job'[p].op # "releasing"
<1>1. p \in DOMAIN job /\ job' = [job EXCEPT ![p] = Press!Idle]
  BY DEF Inv, JobsSound, Press!Leave
<1>2. job'[p] = Press!Idle
  BY <1>1
<1> QED BY <1>1, <1>2 DEF JobSound, Busy, Apart, Press!Idle

LEMMA StopsSound == ASSUME NoneIsNoRecord, Inv, NEW p \in Procs, Press!Stops(p) PROVE Inv'
<1>1. /\ Press!Leave(p) /\ UNCHANGED <<config, renderer, builds, disk, clock, losses, requested,
           released>>
      /\ clock \in Nat
  BY DEF Press!Stops, Press!setting, Press!history, Inv, SettingSound
<1>2. \A q \in Procs \ {p} : job'[q] = job[q]
  BY <1>1, Leaving DEF Inv, JobsSound
<1>3. \A q \in Procs \ {p} : JobSound(q)'
  BY <1>1, <1>2, JobStays
<1>4. JobsSound'
  BY <1>1, <1>3, Leaving, OneJob
<1>5. DecisionsSound'
  BY <1>1, Leaving, DecisionsOf, NothingDecided
<1>6. SettingSound'
  BY <1>1 DEF Inv, SettingSound
<1> QED BY <1>1, <1>4, <1>5, <1>6, Quiet

LEMMA AdvanceSound == ASSUME NoneIsNoRecord, Inv, Press!Advance PROVE Inv'
<1>1. /\ UNCHANGED <<builds, disk, job, clock, losses, requested, released>> /\ clock \in Nat
      /\ SettingSound'
  BY DEF Press!Advance, Press!history, Inv, SettingSound
<1>2. \A q \in Procs : JobSound(q)'
  BY <1>1, JobStays
<1>3. JobsSound'
  BY <1>1, <1>2 DEF Inv, JobsSound, Busy
<1>4. DecisionsSound'
  <2>1. Decisions' = Decisions
    BY <1>1 DEF Decisions
  <2> QED BY <1>1, <2>1, NothingDecided
<1> QED BY <1>1, <1>3, <1>4, Quiet

LEMMA BuildsSound ==
    ASSUME NoneIsNoRecord, Inv, NEW b, DOMAIN b = {"rev", "kind", "config", "renderer", "pdf"},
           b.config \in 1..config, b.renderer \in 1..renderer,
           builds' = builds \cup {b},
           UNCHANGED <<config, renderer, disk, job, clock, faults, losses, Press!history>>
    PROVE  Inv'
<1>1. /\ UNCHANGED <<disk, job, clock, losses, requested, released>> /\ clock \in Nat
      /\ SettingSound' /\ builds \subseteq builds'
  BY DEF Press!history, Inv, SettingSound
<1>2. \A q \in Procs : JobSound(q)'
  BY <1>1, JobStays
<1>3. JobsSound'
  BY <1>1, <1>2 DEF Inv, JobsSound, Busy
<1>4. DecisionsSound'
  <2>1. Decisions' = Decisions
    BY <1>1 DEF Decisions
  <2> QED BY <1>1, <2>1, NothingDecided
<1> QED BY <1>1, <1>3, <1>4, Quiet

LEMMA RequestedSound == ASSUME NoneIsNoRecord, Inv, NEW p \in Procs, Press!Requested(p) PROVE Inv'
<1> PICK r : r = job[p].req
  OBVIOUS
<1>1. /\ job[p].op = "requesting" /\ job[p].todo = <<>> /\ requested' = requested \cup {r}
      /\ Press!Leave(p) /\ UNCHANGED <<config, renderer, builds, disk, clock, losses, released>>
      /\ clock \in Nat /\ JobSound(p)
  BY DEF Press!Requested, Press!setting, Inv, SettingSound, JobsSound
<1>2. HasRecord(r) /\ Stamped(r) /\ r.on.build \in builds /\ job[p].on = r.on
  BY <1>1 DEF JobSound, Requesting
<1>3. \A q \in Procs \ {p} : job'[q] = job[q]
  BY <1>1, Leaving DEF Inv, JobsSound
<1>4. \A q \in Procs \ {p} : Busy(q) => job[q].req # r
  BY <1>1, <1>2 DEF Inv, JobsSound, JobSound, Busy
<1>5. \A q \in Procs \ {p} : JobSound(q)'
  BY <1>1, <1>3, <1>4, JobStays DEF Inv, JobsSound, JobSound, Busy
<1>6. JobsSound'
  BY <1>1, <1>5, Leaving, OneJob
<1>7. DecisionsSound'
  BY <1>1, Leaving, DecisionsOf, NothingDecided
<1>8. SettingSound'
  BY <1>1 DEF Inv, SettingSound
<1> QED BY <1>1, <1>2, <1>6, <1>7, <1>8, Quiet

LEMMA BuildSound ==
    ASSUME NoneIsNoRecord, Inv,
           \/ \E m \in Manuscripts, kind \in Kinds : Press!BuildPreview(m, kind)
           \/ \E b \in builds, review \in Press!Reviews : Press!FinalizePdf(b, review)
    PROVE  Inv'
<1>1. config \in 1..config /\ renderer \in 1..renderer
  BY DEF Inv, SettingSound
<1>2. ASSUME NEW m \in Manuscripts, NEW kind \in Kinds, Press!BuildPreview(m, kind) PROVE Inv'
  <2>1. PICK b : b = [rev |-> m, kind |-> kind, config |-> config, renderer |-> renderer,
             pdf |-> None]
    OBVIOUS
  <2>2. DOMAIN b = {"rev", "kind", "config", "renderer", "pdf"} /\ b.config = config
        /\ b.renderer = renderer
    BY <2>1
  <2>3. builds' = builds \cup {b}
        /\ UNCHANGED <<config, renderer, disk, job, clock, faults, losses, Press!history>>
    BY <1>2, <2>1 DEF Press!BuildPreview
  <2> QED BY <1>1, <2>2, <2>3, BuildsSound
<1>3. ASSUME NEW a \in builds, NEW review \in Press!Reviews, Press!FinalizePdf(a, review) PROVE Inv'
  <2>1. PICK b : b = [a EXCEPT !.pdf = review]
    OBVIOUS
  <2>2. /\ DOMAIN b = {"rev", "kind", "config", "renderer", "pdf"}
        /\ b.config \in 1..config /\ b.renderer \in 1..renderer
    BY <2>1 DEF Inv, SettingSound
  <2>3. builds' = builds \cup {b}
        /\ UNCHANGED <<config, renderer, disk, job, clock, faults, losses, Press!history>>
    BY <1>3, <2>1 DEF Press!FinalizePdf
  <2> QED BY <2>2, <2>3, BuildsSound
<1> QED BY <1>2, <1>3

(* A call that begins or goes on disturbs nobody if it keeps to an         *)
(* operation that nobody else works on.                                    *)
LEMMA Going ==
    ASSUME Inv, NEW p \in Procs, job' = [job EXCEPT ![p] = job'[p]], JobSound(p)',
           UNCHANGED <<config, renderer, builds, disk, losses, requested>>,
           clock' \in Nat, clock <= clock', DecisionsSound',
           Apart(p)'
    PROVE  Inv'
<1>1. \A q \in Procs \ {p} : job'[q] = job[q]
  BY DEF Inv, JobsSound
<1>2. \A q \in Procs \ {p} : JobSound(q)'
  BY <1>1, JobStays
<1>3. JobsSound'
  BY <1>2, OneJob
<1>4. SettingSound'
  BY DEF Inv, SettingSound
<1> QED BY <1>3, <1>4, Quiet

LEMMA LoadRequestSound ==
    ASSUME NoneIsNoRecord, Inv, NEW p \in Procs, NEW r \in requested, Press!LoadRequest(p, r)
    PROVE  Inv'
<1>1. /\ UNCHANGED <<config, renderer, builds, disk, clock, losses, requested, released>>
      /\ clock \in Nat /\ p \in DOMAIN job
      /\ job' = [job EXCEPT ![p] = [Press!Idle EXCEPT !.op = "approved", !.on = r.on, !.req = r]]
  BY DEF Press!LoadRequest, Press!setting, Press!history, Inv, SettingSound, JobsSound
<1>2. /\ job' = [job EXCEPT ![p] = job'[p]] /\ job'[p].op = "approved" /\ job'[p].on = r.on
      /\ job'[p].req = r /\ job'[p].todo = <<>>
           /\ DOMAIN job'[p] = {"op", "on", "req", "rel", "todo"}
  BY <1>1 DEF Press!Idle
<1>3. Stamped(r) /\ r.on.build \in builds /\ Loads(r)
  BY LoadsIs DEF Inv, HistorySound, Stamped, Press!LoadRequest
<1>4. Stamped(r)' /\ Loads(r)'
  BY <1>1, <1>3, SameFiles DEF Stamped
<1>5. JobSound(p)' /\ Apart(p)' /\ clock' \in Nat /\ clock <= clock'
  BY <1>1, <1>2, <1>3, <1>4 DEF JobSound, Busy, Apart
<1>6. DecisionsSound'
  BY <1>1, <1>2, DecisionsOf, NothingDecided
<1> QED BY <1>1, <1>2, <1>5, <1>6, Going

LEMMA RequestSound ==
    ASSUME NoneIsNoRecord, Inv, NEW p \in Procs, NEW on, Press!RequestRelease(p, on)
    PROVE  Inv'
<1> DEFINE op == Press!Record(on)  copy == Press!Copy(on)
<1>1. /\ UNCHANGED <<config, renderer, builds, disk, losses, requested, released>>
      /\ clock \in Nat /\ p \in DOMAIN job /\ on.build \in builds
      /\ \A q \in Procs : Busy(q) => job[q].on # on
      /\ Press!Record(on) = None => Press!Copy(on) = None
  BY DEF Press!RequestRelease, Press!setting, Press!history, Inv, SettingSound, JobsSound,
     Press!Locked, Busy, Press!LostFacts
<1>2. CASE /\ op # None /\ copy \in {None, op.req} /\ UNCHANGED clock
           /\ job' = [job EXCEPT ![p]
                = [Press!Idle EXCEPT !.op = "requesting", !.on = on, !.req = op.req,
                                           !.todo = Press!If(copy
                                               = None, Press!Put("copy", op.req))]]
  <2>1. PICK r : r = op.req
    OBVIOUS
  <2>2. /\ r.on = on /\ HasRecord(r) /\ Stamped(r)
    BY <1>2, <2>1, RecordIs DEF HasRecord, Inv, FilesSound
  <2>3. /\ job' = [job EXCEPT ![p] = job'[p]] /\ job'[p].op = "requesting" /\ job'[p].on = on
        /\ job'[p].req = r /\ DOMAIN job'[p] = {"op", "on", "req", "rel", "todo"}
        /\ job'[p].todo = IF copy = None THEN <<Press!Put("copy", r)>> ELSE <<>>
    BY <1>1, <1>2, <2>1 DEF Press!Idle, Press!If
  <2>4. (copy = None /\ NoCopy(on)) \/ (copy # None /\ r \in disk.copies)
    BY <1>2, <2>1, CopyIs DEF Inv
  <2>5. HasRecord(r)' /\ (NoCopy(r.on)' <=> NoCopy(r.on)) /\ Stamped(r)'
    BY <1>1, <1>2, <2>2, SameFiles DEF Stamped
  <2>6. Requesting(p)'
    BY <1>1, <2>2, <2>3, <2>4, <2>5 DEF Requesting
  <2>7. JobSound(p)'
    BY <1>1, <2>2, <2>3, <2>5, <2>6 DEF JobSound
  <2>8. DecisionsSound'
    BY <1>1, <2>3, DecisionsOf, NothingDecided
  <2>9. clock' \in Nat /\ clock <= clock' /\ Apart(p)'
    BY <1>1, <1>2, <2>3 DEF Apart, Busy
  <2> QED BY <1>1, <2>3, <2>7, <2>8, <2>9, Going
<1>3. CASE /\ op = None /\ clock' = clock + 1
           /\ job' = [job EXCEPT ![p] = [Press!Idle EXCEPT !.op = "requesting", !.on = on,
                        !.req = [on |-> on, at |-> clock + 1],
                        !.todo = <<Press!Put("op",
                            [req |-> [on |-> on, at |-> clock + 1], rel |-> None]),
                                   Press!Put("copy", [on |-> on, at |-> clock + 1])>>]]
  <2>1. PICK r : r = [on |-> on, at |-> clock + 1]
    OBVIOUS
  <2>2. r.on = on /\ r.at = clock + 1 /\ r # None /\ NoRecord(on) /\ NoCopy(on)
    BY <1>1, <1>3, <2>1, RecordIs, CopyIs DEF NoneIsNoRecord, Inv
  <2>3. r \notin requested
    BY <1>1, <2>2 DEF Inv, HistorySound, Stamped
  <2>4. /\ job' = [job EXCEPT ![p] = job'[p]] /\ job'[p].op = "requesting" /\ job'[p].on = on
        /\ job'[p].req = r /\ DOMAIN job'[p] = {"op", "on", "req", "rel", "todo"}
        /\ job'[p].todo = <<Press!Put("op", [req |-> r, rel |-> None]), Press!Put("copy", r)>>
    BY <1>1, <1>3, <2>1 DEF Press!Idle
  <2>5. NoRecord(r.on)' /\ NoCopy(r.on)' /\ Stamped(r)'
    BY <1>1, <1>3, <2>2, SameFiles DEF Stamped
  <2>6. Requesting(p)'
    BY <1>1, <2>3, <2>4, <2>5 DEF Requesting
  <2>7. JobSound(p)'
    BY <1>1, <2>2, <2>4, <2>5, <2>6 DEF JobSound
  <2>8. DecisionsSound'
    BY <1>1, <2>4, DecisionsOf, NothingDecided
  <2>9. clock' \in Nat /\ clock <= clock' /\ Apart(p)'
    BY <1>1, <1>3, <2>4 DEF Apart, Busy
  <2> QED BY <1>1, <2>4, <2>7, <2>8, <2>9, Going
<1> QED BY <1>2, <1>3 DEF Press!RequestRelease

-----------------------------------------------------------------------------
(* Decisions                                                               *)

LEMMA ReleasingNow ==
    ASSUME Inv, NEW p \in Procs, job[p].op = "releasing"
    PROVE  /\ JobSound(p) /\ Releasing(p) /\ job[p].rel.req = job[p].req
           /\ job[p].on = job[p].req.on /\ job[p].rel \in Decisions
           /\ job[p].req \in requested
BY DEF Inv, JobsSound, JobSound, Releasing, ReleasingWith, Decisions

LEMMA ReleasedSound == ASSUME NoneIsNoRecord, Inv, NEW p \in Procs, Press!Released(p) PROVE Inv'
<1> PICK r, m : r = job[p].req /\ m = job[p].rel
  OBVIOUS
<1>1. /\ job[p].op = "releasing" /\ job[p].todo = <<>> /\ released' = released \cup {m}
      /\ Press!Leave(p) /\ UNCHANGED <<config, renderer, builds, disk, clock, losses, requested>>
      /\ clock \in Nat /\ clock <= clock /\ requested \subseteq requested'
  BY DEF Press!Released, Press!setting, Inv, SettingSound
<1>2. m.req = r /\ [req |-> r, rel |-> m] \in disk.ops /\ m \in Decisions
  <2>1. m.req = r /\ m \in Decisions /\ Releasing(p)
    BY <1>1, ReleasingNow
  <2>2. PICK a, b, c : \/ <<>> = <<Press!Put("op", [req |-> r, rel |-> m])>> \o Files(a, b, c, r, m)
                       \/ [req |-> r, rel |-> m] \in disk.ops
    BY <1>1, <2>1 DEF Releasing, ReleasingWith
  <2> QED BY <2>1, <2>2, RecordFirst
<1>3. \A q \in Procs \ {p} : job'[q] = job[q]
  BY <1>1, Leaving DEF Inv, JobsSound
<1>4. \A q \in Procs \ {p} : JobSound(q)'
  BY <1>1, <1>3, JobStays
<1>5. JobsSound'
  BY <1>1, <1>4, Leaving, OneJob
<1>6. DecisionsSound'
  <2>1. Decisions' \subseteq Decisions
    BY <1>1, <1>2, <1>3, Leaving DEF Decisions
  <2>2. \A n \in released' : n \in released \/ \E x \in disk.ops : x.rel = n /\ x.req = n.req
    BY <1>1, <1>2
  <2> QED BY <1>1, <2>1, <2>2, NothingDecided
<1>7. SettingSound'
  BY <1>1 DEF Inv, SettingSound
<1> QED BY <1>1, <1>5, <1>6, <1>7, Quiet

LEMMA MissingIs ==
    ASSUME NEW r, NEW m
    PROVE  \E a, b, c \in {0, 1} :
             /\ Press!Missing(r, m) = Files(a, b, c, r, m)
             /\ a = 1 <=> Press!Copy(r.on) = None
             /\ b = 1 <=> r \notin disk.artifacts
<1> PICK a, b, c : /\ a = Needed(Press!Copy(r.on) = None) /\ b = Needed(r \notin disk.artifacts)
                   /\ c = Needed(Press!Manifest(r) = None)
  OBVIOUS
<1>1. /\ a \in {0, 1} /\ b \in {0, 1} /\ c \in {0, 1}
      /\ a = 1 <=> Press!Copy(r.on) = None
      /\ b = 1 <=> r \notin disk.artifacts
      /\ c = 1 <=> Press!Manifest(r) = None
  BY DEF Needed
<1>2. /\ Press!If(Press!Copy(r.on) = None, Press!Put("copy", r))
           = Press!If(a = 1, Press!Put("copy", r))
      /\ Press!If(r \notin disk.artifacts, Press!Put("artifact", r))
           = Press!If(b = 1, Press!Put("artifact", r))
      /\ Press!If(Press!Manifest(r) = None, Press!Put("manifest", m))
           = Press!If(c = 1, Press!Put("manifest", m))
  BY <1>1 DEF Press!If
<1>3. Press!Missing(r, m) = Files(a, b, c, r, m)
  BY <1>2 DEF Press!Missing, Files, Writes
<1> QED BY <1>1, <1>3

(* A process that holds a decision is one that may disagree with nobody.   *)
LEMMA Deciding ==
    ASSUME Inv, NEW p \in Procs, job' = [job EXCEPT ![p] = job'[p]],
           UNCHANGED <<disk, released, requested>>,
           NEW m, m = job'[p].rel, m # None, m.req \in requested, m.at \in Nat, Current(m),
           \A n \in Decisions : n.req = m.req => n = m
    PROVE  DecisionsSound'
<1>1. Decisions' \subseteq Decisions \cup {m}
  BY DecisionsOf
<1>2. \A n : Current(n) => Current(n)'
  BY DEF Current
<1> QED BY <1>1, <1>2 DEF Inv, DecisionsSound

(* What an approval leads to, and what is on disk about it.                *)
LEMMA DecisionIs ==
    ASSUME NoneIsNoRecord, Inv, NEW r, NEW m, m
           = Press!Decision(r), m # None, r \in requested, ~Press!Locked(r.on),
           Loads(r)
    PROVE  /\ m.req = r /\ m.at \in Nat /\ Current(m) /\ \A n \in Decisions : n.req = r => n = m
           /\ \/ Press!Record(r.on) # None /\ Press!Record(r.on).rel # None
                   /\ [req |-> r, rel |-> m] \in disk.ops
              \/ /\ Press!Record(r.on) = None \/ Press!Record(r.on).rel = None
                 /\ Undecided(r)
<1> PICK op, found : op = Press!Record(r.on) /\ found = Press!Manifest(r)
  OBVIOUS
<1>1. /\ FilesSound /\ DecisionsSound /\ clock \in Nat
      /\ \A n, o \in Decisions : n.req = o.req => n = o
      /\ \A n \in Decisions : n.at \in Nat /\ Current(n)
  BY DEF Inv, SettingSound, DecisionsSound
<1>2. \/ op = None /\ NoRecord(r.on)
      \/ /\ op # None /\ op \in disk.ops /\ op.req.on = r.on
         /\ \A x \in disk.ops : x.req.on = r.on => x = op
  BY <1>1, RecordIs
<1>3. \/ found = None /\ \A n \in disk.manifests : n.req # r
      \/ found # None /\ found \in disk.manifests /\ found.req = r
  BY <1>1, ManifestIs
<1>4. op # None => op.req = r
  BY DEF Press!Decision
<1>5. op # None => op = [req |-> r, rel |-> op.rel] /\ op \in disk.ops
  BY <1>1, <1>2, <1>4 DEF FilesSound
<1>6. CASE op # None /\ op.rel # None
  <2>1. m = op.rel
    BY <1>4, <1>6 DEF Press!Decision
  <2>2. m \in Decisions /\ m.req = r
    BY <1>1, <1>4, <1>5, <1>6, <2>1 DEF Decisions, FilesSound
  <2> QED BY <1>1, <1>5, <1>6, <2>1, <2>2
<1>7. CASE op = None
  <2>1. found # None /\ m = found
    BY <1>7 DEF Press!Decision, Press!Unknown
  <2>2. m \in Decisions /\ m.req = r
    BY <1>3, <2>1 DEF Decisions
  <2> QED BY <1>1, <1>2, <1>7, <2>2 DEF NoRecord, Undecided
<1>8. CASE op # None /\ op.rel = None
  <2>1. /\ found = None /\ Press!Decidable(r.on.build)
        /\ m = [req |-> r, at |-> clock + 1, config |-> config, renderer |-> renderer]
    BY <1>4, <1>8 DEF Press!Decision, Press!Unknown
  <2>2. m.req = r /\ m.at \in Nat /\ Current(m)
    BY <1>1, <2>1 DEF Press!Decidable, Press!ConfigCurrent, Current
  <2>3. ASSUME NEW n \in Decisions, n.req = r PROVE FALSE
    <3>1. n \notin released \cup disk.manifests
      BY <1>1, <1>4, <1>5, <1>8, <2>3 DEF DecisionsSound
    <3>2. ASSUME NEW x \in disk.ops, x.rel # None, x.rel = n PROVE FALSE
      BY <1>1, <1>2, <1>8, <2>3, <3>2 DEF FilesSound
    <3>3. ASSUME NEW q \in Procs, job[q].op = "releasing", job[q].rel = n PROVE FALSE
      BY <2>3, <3>3, ReleasingNow DEF Press!Locked
    <3> QED BY <3>1, <3>2, <3>3 DEF Decisions
  <2>4. Undecided(r)
    BY <1>2, <1>5, <1>8 DEF Undecided
  <2> QED BY <1>8, <2>2, <2>3, <2>4
<1> QED BY <1>6, <1>7, <1>8

LEMMA ReleaseSound == ASSUME NoneIsNoRecord, Inv, NEW p \in Procs, Press!Release(p) PROVE Inv'
<1> PICK r, m : r = job[p].req /\ m = Press!Decision(r)
  OBVIOUS
<1>1. /\ job[p].op = "approved" /\ ~Press!Locked(r.on) /\ clock \in Nat /\ JobSound(p)
           /\ p \in DOMAIN job
      /\ UNCHANGED <<config, renderer, builds, disk, losses, requested, released>>
      /\ m = None => Press!Leave(p) /\ UNCHANGED clock
      /\ m # None => /\ clock' = IF m.at > clock THEN m.at ELSE clock
                     /\ job' = [job EXCEPT ![p].op = "releasing", ![p].rel = m,
                                           ![p].todo = Press!Recording(r, m)]
  BY DEF Press!Release, Press!setting, Press!history, Inv, SettingSound, JobsSound
<1>2. /\ r \in requested /\ Loads(r) /\ Stamped(r) /\ r.on.build \in builds /\ job[p].on = r.on
      /\ DOMAIN job[p] = {"op", "on", "req", "rel", "todo"}
  BY <1>1 DEF JobSound
<1>3. CASE m = None
  <2>1. DecisionsSound'
    BY <1>1, <1>3, Leaving, DecisionsOf, NothingDecided
  <2>2. clock' \in Nat /\ clock <= clock'
    BY <1>1, <1>3
  <2> QED BY <1>1, <1>3, <2>1, <2>2, Leaving, Going
<1>4. CASE m # None
  <2>1. /\ m.req = r /\ m.at \in Nat /\ Current(m) /\ \A n \in Decisions : n.req = r => n = m
        /\ \/ Press!Record(r.on) # None /\ Press!Record(r.on).rel # None
                /\ [req |-> r, rel |-> m] \in disk.ops
           \/ /\ Press!Record(r.on) = None \/ Press!Record(r.on).rel = None
              /\ Undecided(r)
    BY <1>1, <1>2, <1>4, DecisionIs
  <2>2. clock' \in Nat /\ clock <= clock'
    BY <1>1, <1>4, <2>1
  <2>3. /\ job' = [job EXCEPT ![p] = job'[p]] /\ job'[p].op = "releasing" /\ job'[p].on = r.on
        /\ job'[p].req = r /\ job'[p].rel = m /\ job'[p].todo = Press!Recording(r, m)
        /\ DOMAIN job'[p] = {"op", "on", "req", "rel", "todo"}
    <3>1. job'[p] = [job[p] EXCEPT !.op = "releasing", !.rel = m, !.todo = Press!Recording(r, m)]
      BY <1>1, <1>4
    <3>2. job' = [job EXCEPT ![p] = job'[p]]
      BY <1>1, <1>4
    <3> QED BY <1>2, <3>1, <3>2
  <2>4. DecisionsSound'
    <3>1. /\ m = job'[p].rel /\ m # None /\ m.req \in requested /\ m.at \in Nat /\ Current(m)
          /\ job' = [job EXCEPT ![p] = job'[p]] /\ UNCHANGED <<disk, released, requested>>
      BY <1>1, <1>2, <1>4, <2>1, <2>3
    <3>2. \A n \in Decisions : n.req = m.req => n = m
      BY <2>1
    <3> QED BY <3>1, <3>2, Deciding
  <2>5. Apart(p)' /\ Stamped(r)' /\ Loads(r)'
    <3>1. \A q \in Procs \ {p} : Busy(q)' => job'[q].on # r.on
      <4>1. \A q \in Procs \ {p} : job'[q] = job[q]
        BY <2>3 DEF Inv, JobsSound
      <4> QED BY <1>1, <4>1 DEF Busy, Press!Locked
    <3>2. Loads(r)'
      BY <1>1, <1>2, SameFiles
    <3> QED BY <1>1, <1>2, <2>2, <2>3, <3>1, <3>2 DEF Apart, Stamped
  <2>6. PICK a \in {0, 1}, b \in {0, 1}, c \in {0, 1} :
          /\ Press!Missing(r, m) = Files(a, b, c, r, m)
          /\ a = 1 <=> Press!Copy(r.on) = None
          /\ b = 1 <=> r \notin disk.artifacts
    BY MissingIs
  <2>7. a = 1 => NoCopy(r.on)'
    BY <1>1, <2>6, CopyIs, SameFiles DEF Inv
  <2>8. \/ /\ job'[p].todo = <<Press!Put("op", [req |-> r, rel |-> m])>> \o Files(a, b, c, r, m)
           /\ Undecided(r)
        \/ /\ job'[p].todo = Files(a, b, c, r, m)
           /\ [req |-> r, rel |-> m] \in disk.ops
    <3>1. Press!Recording(r, m) = (IF Press!Record(r.on) = None \/ Press!Record(r.on).rel = None
                             THEN <<Press!Put("op", [req |-> r, rel |-> m])>> ELSE <<>>)
                              \o Files(a, b, c, r, m)
      BY <2>6 DEF Press!Recording, Press!If
    <3>2. CASE Press!Record(r.on) = None \/ Press!Record(r.on).rel = None
      BY <2>1, <2>3, <3>1, <3>2, RecordFirst
    <3>3. CASE ~(Press!Record(r.on) = None \/ Press!Record(r.on).rel = None)
      <4>1. Press!Recording(r, m) = <<>> \o Files(a, b, c, r, m)
        BY <3>1, <3>3
      <4> QED BY <2>1, <2>3, <3>3, <4>1, RecordFirst
    <3> QED BY <3>2, <3>3
  <2>9. Releasing(p)'
    BY <1>1, <2>1, <2>3, <2>6, <2>7, <2>8 DEF Releasing, ReleasingWith, Undecided
  <2>10. JobSound(p)'
    BY <1>1, <1>2, <2>3, <2>5, <2>9 DEF JobSound
  <2> QED BY <1>1, <2>2, <2>3, <2>4, <2>5, <2>10, Going
<1> QED BY <1>3, <1>4

-----------------------------------------------------------------------------
(* Writing a file                                                          *)

(* A write is about one operation.                                         *)
Elsewhere(on) ==
    /\ \A x \in disk.ops \cup disk'.ops : x.req.on # on => (x \in disk.ops <=> x \in disk'.ops)
    /\ \A c \in disk.copies \cup disk'.copies : c.on # on
         => (c \in disk.copies <=> c \in disk'.copies)
    /\ disk.artifacts \subseteq disk'.artifacts

LoadsKept == \A r \in requested : Loads(r) => Loads(r)'

LEMMA Persisting ==
    ASSUME Inv, NEW p \in Procs, Press!Persist(p)
    PROVE  /\ JobSound(p) /\ Busy(p) /\ disk' = Press!Written(disk, Head(job[p].todo))
                /\ job[p].todo # <<>>
           /\ job' = [job EXCEPT ![p] = job'[p]] /\ job'[p].todo = Tail(job[p].todo)
           /\ job'[p].op = job[p].op /\ job'[p].on = job[p].on /\ job'[p].req = job[p].req
           /\ job'[p].rel = job[p].rel /\ DOMAIN job'[p] = DOMAIN job[p]
           /\ \A q \in Procs \ {p} : job'[q] = job[q]
           /\ \A q \in Procs \ {p} : Busy(q) => job[q].on # job[p].on
           /\ UNCHANGED <<config, renderer, builds, clock, losses, requested, released>>
           /\ clock \in Nat /\ FilesSound /\ DecisionsSound /\ job[p].on = job[p].req.on
           /\ Stamped(job[p].req) /\ job[p].on.build \in builds
<1>1. /\ p \in DOMAIN job /\ JobSound(p) /\ DOMAIN job = Procs /\ clock \in Nat
      /\ FilesSound /\ DecisionsSound
      /\ \A q, s \in Procs : Busy(q) /\ Busy(s) /\ job[q].on = job[s].on => q = s
  BY DEF Inv, JobsSound, SettingSound
<1>2. /\ job[p].todo # <<>> /\ disk' = Press!Written(disk, Head(job[p].todo))
      /\ job' = [job EXCEPT ![p].todo = Tail(job[p].todo)]
      /\ UNCHANGED <<config, renderer, builds, clock, losses, requested, released>>
  BY <1>1 DEF Press!Persist, Press!setting, Press!history
<1>3. job'[p] = [job[p] EXCEPT !.todo = Tail(job[p].todo)]
  BY <1>1, <1>2
<1>4. job[p].op \in {"requesting", "releasing"}
      /\ DOMAIN job[p] = {"op", "on", "req", "rel", "todo"}
      /\ job[p].on = job[p].req.on /\ Stamped(job[p].req) /\ job[p].on.build \in builds
  BY <1>1, <1>2 DEF JobSound
<1>5. /\ job'[p].op = job[p].op /\ job'[p].on = job[p].on /\ job'[p].req = job[p].req
      /\ job'[p].rel = job[p].rel /\ DOMAIN job'[p] = DOMAIN job[p]
      /\ job'[p].todo = Tail(job[p].todo)
  BY <1>3, <1>4
<1>6. job' = [job EXCEPT ![p] = job'[p]] /\ \A q \in Procs \ {p} : job'[q] = job[q]
  BY <1>1, <1>2
<1>7. \A q \in Procs \ {p} : Busy(q) => job[q].on # job[p].on
  BY <1>1, <1>4 DEF Busy
<1> QED BY <1>1, <1>2, <1>4, <1>5, <1>6, <1>7 DEF Busy

LEMMA SameElsewhere ==
    ASSUME NEW on, Elsewhere(on), NEW r, r.on # on
    PROVE  /\ HasRecord(r) <=> HasRecord(r)'
           /\ NoRecord(r.on) <=> NoRecord(r.on)'
           /\ NoCopy(r.on) <=> NoCopy(r.on)'
           /\ Loads(r) <=> Loads(r)'
           /\ \A x \in disk'.ops : x.req.on = r.on => x \in disk.ops
           /\ \A m : [req |-> r, rel |-> m] \in disk.ops => [req |-> r, rel |-> m] \in disk'.ops
           /\ r \in disk.copies => r \in disk'.copies
           /\ r \in disk.artifacts => r \in disk'.artifacts
<1>1. HasRecord(r) <=> HasRecord(r)'
  BY DEF Elsewhere, HasRecord
<1>2. NoRecord(r.on) <=> NoRecord(r.on)'
  BY DEF Elsewhere, NoRecord
<1>3. NoCopy(r.on) <=> NoCopy(r.on)'
  BY DEF Elsewhere, NoCopy
<1>4. Loads(r) <=> Loads(r)'
  BY <1>1, <1>2 DEF Elsewhere, Loads
<1>5. \A m : [req |-> r, rel |-> m] \in disk.ops => [req |-> r, rel |-> m] \in disk'.ops
  BY DEF Elsewhere
<1> QED BY <1>1, <1>2, <1>3, <1>4, <1>5 DEF Elsewhere

LEMMA OthersStay ==
    ASSUME Inv, NEW p \in Procs, Press!Persist(p), Elsewhere(job[p].on), LoadsKept,
           NEW q \in Procs \ {p}
    PROVE  JobSound(q)'
<1> PICK r, m : r = job[q].req /\ m = job[q].rel
  OBVIOUS
<1>1. /\ JobSound(q) /\ job'[q] = job[q]
      /\ Busy(q) => job[q].on # job[p].on
      /\ UNCHANGED <<builds, clock, requested>>
  BY Persisting DEF Inv, JobsSound
<1>2. Stamped(r) => Stamped(r)'
  BY <1>1 DEF Stamped
<1>3. job[q].op \in {"approved", "releasing"} => r \in requested /\ Loads(r)'
  BY <1>1 DEF JobSound, LoadsKept
<1>4. CASE job[q].op = "requesting"
  <2>1. r.on # job[p].on /\ Requesting(q)
    BY <1>1, <1>4 DEF JobSound, Busy
  <2>2. /\ HasRecord(r) <=> HasRecord(r)'
        /\ NoRecord(r.on) <=> NoRecord(r.on)'
        /\ NoCopy(r.on) <=> NoCopy(r.on)'
        /\ r \in disk.copies => r \in disk'.copies
    BY <2>1, SameElsewhere
  <2>3. Requesting(q)'
    BY <1>1, <2>1, <2>2 DEF Requesting
  <2> QED BY <1>1, <1>2, <1>4, <2>3 DEF JobSound
<1>5. CASE job[q].op = "releasing"
  <2>1. r.on # job[p].on /\ Releasing(q)
    BY <1>1, <1>5 DEF JobSound, Busy
  <2>2. /\ NoCopy(r.on) <=> NoCopy(r.on)'
        /\ \A x \in disk'.ops : x.req.on = r.on => x \in disk.ops
        /\ [req |-> r, rel |-> m] \in disk.ops => [req |-> r, rel |-> m] \in disk'.ops
        /\ r \in disk.artifacts => r \in disk'.artifacts
    BY <2>1, SameElsewhere
  <2>3. PICK a \in {0, 1}, b \in {0, 1}, c \in {0, 1} : ReleasingWith(q, a, b, c)
    BY <2>1 DEF Releasing
  <2>4. Undecided(r) => Undecided(r)'
    BY <2>2 DEF Undecided
  <2>5. ReleasingWith(q, a, b, c)'
    BY <1>1, <2>2, <2>3, <2>4 DEF ReleasingWith
  <2>6. Releasing(q)'
    BY <2>5 DEF Releasing
  <2> QED BY <1>1, <1>2, <1>3, <1>5, <2>6 DEF JobSound
<1>6. CASE job[q].op \in {"idle", "approved"}
  BY <1>1, <1>2, <1>3, <1>6 DEF JobSound
<1> QED BY <1>1, <1>4, <1>5, <1>6 DEF JobSound

LEMMA Persisted ==
    ASSUME NoneIsNoRecord, Inv, NEW p \in Procs, Press!Persist(p), Elsewhere(job[p].on), LoadsKept,
           FilesSound', DecisionsSound', losses = 0 => Whole',
           job[p].op = "requesting" => Requesting(p)',
           job[p].op = "releasing" => Releasing(p)'
    PROVE  Inv'
<1> PICK r : r = job[p].req
  OBVIOUS
<1>1. /\ JobSound(p) /\ Busy(p) /\ job' = [job EXCEPT ![p] = job'[p]]
      /\ job'[p].op = job[p].op /\ job'[p].on = job[p].on /\ job'[p].req = r
      /\ DOMAIN job'[p] = DOMAIN job[p]
      /\ \A q \in Procs \ {p} : job'[q] = job[q]
      /\ \A q \in Procs \ {p} : Busy(q) => job[q].on # job[p].on
      /\ UNCHANGED <<config, renderer, builds, clock, losses, requested, released>>
  BY Persisting
<1>2. Stamped(r)'
  BY <1>1, Persisting DEF Stamped
<1>3. job[p].op = "releasing" => r \in requested /\ Loads(r)'
  BY <1>1 DEF JobSound, LoadsKept
<1>4. JobSound(p)' /\ Apart(p)'
  <2>1. JobSound(p)'
    BY <1>1, <1>2, <1>3 DEF JobSound, Busy
  <2> QED BY <1>1, <2>1 DEF Apart, Busy
<1>5. JobsSound'
  <2>1. \A q \in Procs \ {p} : JobSound(q)'
    BY OthersStay
  <2> QED BY <1>1, <1>4, <2>1, OneJob
<1>6. SettingSound' /\ HistorySound'
  BY <1>1 DEF Inv, SettingSound, HistorySound, Stamped
<1> QED BY <1>1, <1>5, <1>6 DEF Inv

(* Nobody decides by writing.                                              *)
LEMMA DecisionsKept ==
    ASSUME Inv, NEW p \in Procs, Press!Persist(p),
           \A m \in disk'.manifests : m \in Decisions,
           \A x \in disk'.ops : x.rel # None => x.rel \in Decisions,
           \A x \in disk'.ops : x.rel = None =>
             \A m \in released \cup disk'.manifests : m.req # x.req
    PROVE  DecisionsSound'
<1>1. /\ job'[p].op = job[p].op /\ job'[p].rel = job[p].rel
           /\ \A q \in Procs \ {p} : job'[q] = job[q]
      /\ UNCHANGED <<requested, released>>
  BY Persisting
<1>2. Decisions' \subseteq Decisions
  BY <1>1 DEF Decisions
<1>3. \A m : Current(m) => Current(m)'
  BY DEF Current
<1> QED BY <1>1, <1>2, <1>3 DEF Inv, DecisionsSound

LEMMA RequestWritten ==
    ASSUME NoneIsNoRecord, Inv, NEW p \in Procs, Press!Persist(p), job[p].op = "requesting",
           NEW r, r = job[p].req,
           job[p].todo = <<Press!Put("op", [req |-> r, rel |-> None]), Press!Put("copy", r)>>,
           NoRecord(r.on), NoCopy(r.on), r \notin requested
    PROVE  Inv'
<1> PICK z : z = [req |-> r, rel |-> None]
  OBVIOUS
<1>1. /\ z.req = r /\ z.rel = None /\ z = [req |-> z.req, rel |-> z.rel] /\ z # None
      /\ job[p].on = r.on /\ r.on.build \in builds /\ Stamped(r) /\ FilesSound /\ DecisionsSound
      /\ UNCHANGED <<builds, clock, losses, requested, released>> /\ job'[p].req = r
  BY Persisting DEF NoneIsNoRecord
<1>2. job[p].todo = <<Press!Put("op", z), Press!Put("copy", r)>>
  OBVIOUS
<1>3. job'[p].todo = <<Press!Put("copy", r)>> /\ disk' = Press!Written(disk, Press!Put("op", z))
  <2>1. Head(job[p].todo) = Press!Put("op", z) /\ Tail(job[p].todo) = <<Press!Put("copy", r)>>
    BY <1>2, Heads
  <2>2. job'[p].todo = Tail(job[p].todo) /\ disk' = Press!Written(disk, Head(job[p].todo))
    BY Persisting
  <2> QED BY <2>1, <2>2
<1>4. /\ disk'.ops = disk.ops \cup {z} /\ disk'.copies = disk.copies
      /\ disk'.artifacts = disk.artifacts /\ disk'.manifests = disk.manifests
      /\ DOMAIN disk' = {"ops", "copies", "artifacts", "manifests"}
  <2>1. disk' = [disk EXCEPT !.ops = {x \in disk.ops : x.req.on # z.req.on} \cup {z}]
    BY <1>3 DEF Press!Written, Press!Put
  <2>2. {x \in disk.ops : x.req.on # z.req.on} = disk.ops
    BY <1>1 DEF NoRecord
  <2> QED BY <1>1, <2>1, <2>2 DEF FilesSound
<1>5. Elsewhere(job[p].on)
  BY <1>1, <1>4 DEF Elsewhere
<1>6. LoadsKept
  <2>1. ASSUME NEW s \in requested, Loads(s) PROVE Loads(s)'
    <3>1. s.on # r.on
      BY <1>1, <2>1 DEF Loads, HasRecord, NoRecord, NoCopy
    <3> QED BY <1>1, <1>5, <2>1, <3>1, SameElsewhere
  <2> QED BY <2>1 DEF LoadsKept
<1>7. FilesSound'
  BY <1>1, <1>4 DEF FilesSound, NoRecord, Stamped
<1>8. DecisionsSound'
  <2>1. \A m \in disk'.manifests : m \in Decisions
    BY <1>4 DEF Decisions
  <2>2. \A x \in disk'.ops : x.rel # None => x.rel \in Decisions
    BY <1>1, <1>4 DEF Decisions
  <2>3. ASSUME NEW x \in disk'.ops, x.rel = None, NEW m \in released \cup disk'.manifests
        PROVE  m.req # x.req
    <3>1. m \in Decisions /\ m.req \in requested
      BY <1>1, <1>4, <2>3 DEF Decisions, DecisionsSound
    <3> QED BY <1>1, <1>4, <2>3, <3>1 DEF DecisionsSound
  <2> QED BY <2>1, <2>2, <2>3, DecisionsKept
<1>9. losses = 0 => Whole'
  BY <1>1, <1>4 DEF Inv, Whole, HasRecord
<1>10. Requesting(p)'
  BY <1>1, <1>3, <1>4 DEF Requesting, HasRecord, NoCopy
<1> QED BY <1>5, <1>6, <1>7, <1>8, <1>9, <1>10, Persisted

(* The copy of a request follows its record.                               *)
LEMMA CopyWritten ==
    ASSUME NoneIsNoRecord, Inv, NEW p \in Procs, Press!Persist(p), NEW r, r = job[p].req,
           Head(job[p].todo) = Press!Put("copy", r), HasRecord(r), NoCopy(r.on)
    PROVE  /\ disk' = [disk EXCEPT !.copies = @ \cup {r}]
           /\ disk'.ops = disk.ops /\ disk'.copies = disk.copies \cup {r}
           /\ disk'.artifacts = disk.artifacts /\ disk'.manifests = disk.manifests
           /\ HasRecord(r)' /\ r \in disk'.copies
           /\ /\ job[p].op = "requesting" => Requesting(p)'
              /\ job[p].op = "releasing" => Releasing(p)'
              => Inv'
<1>1. /\ job[p].on = r.on /\ r.on.build \in builds /\ Stamped(r) /\ FilesSound /\ DecisionsSound
      /\ UNCHANGED <<builds, clock, losses, requested, released>>
  BY Persisting
<1>2. disk' = [disk EXCEPT !.copies = @ \cup {r}]
  <2>1. disk' = Press!Written(disk, Press!Put("copy", r))
    BY Persisting
  <2> QED BY <2>1 DEF Press!Written, Press!Put
<1>3. /\ disk'.ops = disk.ops /\ disk'.copies = disk.copies \cup {r}
      /\ disk'.artifacts = disk.artifacts /\ disk'.manifests = disk.manifests
      /\ DOMAIN disk' = {"ops", "copies", "artifacts", "manifests"}
  BY <1>1, <1>2 DEF FilesSound
<1>4. Elsewhere(job[p].on)
  BY <1>1, <1>3 DEF Elsewhere
<1>5. HasRecord(r)' /\ r \in disk'.copies
  BY <1>3 DEF HasRecord
<1>6. LoadsKept
  <2>1. ASSUME NEW s \in requested, Loads(s) PROVE Loads(s)'
    <3>1. CASE s.on # r.on
      BY <1>1, <1>4, <2>1, <3>1, SameElsewhere
    <3>2. CASE s.on = r.on
      <4>1. s = r
        BY <1>1, <2>1, <3>2 DEF Loads, HasRecord, NoCopy, FilesSound
      <4>2. \A c \in disk'.copies : c.on = r.on => c = r
        BY <1>3 DEF NoCopy
      <4> QED BY <1>5, <4>1, <4>2 DEF Loads
    <3> QED BY <3>1, <3>2
  <2> QED BY <2>1 DEF LoadsKept
<1>7. FilesSound'
  BY <1>1, <1>3 DEF FilesSound, NoCopy, Stamped
<1>8. DecisionsSound'
  <2>1. \A m \in disk'.manifests : m \in Decisions
    BY <1>3 DEF Decisions
  <2>2. \A x \in disk'.ops : x.rel # None => x.rel \in Decisions
    BY <1>3 DEF Decisions
  <2>3. \A x \in disk'.ops : x.rel = None =>
          \A m \in released \cup disk'.manifests : m.req # x.req
    BY <1>1, <1>3 DEF DecisionsSound
  <2> QED BY <2>1, <2>2, <2>3, DecisionsKept
<1>9. losses = 0 => Whole'
  BY <1>1, <1>3, <1>5 DEF Inv, Whole, HasRecord
<1> QED BY <1>2, <1>3, <1>4, <1>5, <1>6, <1>7, <1>8, <1>9, Persisted

LEMMA DecisionWritten ==
    ASSUME NoneIsNoRecord, Inv, NEW p \in Procs, Press!Persist(p), job[p].op = "releasing",
           NEW r, NEW m, r = job[p].req, m = job[p].rel,
           NEW a \in {0, 1}, NEW b \in {0, 1}, NEW c \in {0, 1},
           job[p].todo = <<Press!Put("op", [req |-> r, rel |-> m])>> \o Files(a, b, c, r, m),
           a = 1 => NoCopy(r.on), b # 1 => r \in disk.artifacts,
           Undecided(r)
    PROVE  Inv'
<1> PICK z : z = [req |-> r, rel |-> m]
  OBVIOUS
<1>1. /\ job[p].on = r.on /\ r.on.build \in builds /\ Stamped(r) /\ FilesSound /\ DecisionsSound
      /\ UNCHANGED <<builds, clock, losses, requested, released>> /\ job'[p].req = r
           /\ job'[p].rel = m
      /\ m.req = r /\ m \in Decisions /\ m # None /\ r \in requested /\ Loads(r)
  BY Persisting, ReleasingNow DEF DecisionsSound, JobSound
<1>2. z.req = r /\ z.rel = m /\ z = [req |-> z.req, rel |-> z.rel] /\ z # None
  BY DEF NoneIsNoRecord
<1>3. job'[p].todo = Files(a, b, c, r, m) /\ disk' = Press!Written(disk, Press!Put("op", z))
  <2>1. Head(job[p].todo) = Press!Put("op", z) /\ Tail(job[p].todo) = Files(a, b, c, r, m)
    BY RecordFirst
  <2>2. job'[p].todo = Tail(job[p].todo) /\ disk' = Press!Written(disk, Head(job[p].todo))
    BY Persisting
  <2> QED BY <2>1, <2>2
<1>4. /\ disk'.ops = {x \in disk.ops : x.req.on # r.on} \cup {z} /\ disk'.copies = disk.copies
      /\ disk'.artifacts = disk.artifacts /\ disk'.manifests = disk.manifests
      /\ DOMAIN disk' = {"ops", "copies", "artifacts", "manifests"}
  <2>1. disk' = [disk EXCEPT !.ops = {x \in disk.ops : x.req.on # z.req.on} \cup {z}]
    BY <1>3 DEF Press!Written, Press!Put
  <2> QED BY <1>1, <1>2, <2>1 DEF FilesSound
<1>5. Elsewhere(job[p].on)
  BY <1>1, <1>2, <1>4 DEF Elsewhere
<1>6. HasRecord(r)' /\ (NoCopy(r.on)' <=> NoCopy(r.on))
  BY <1>2, <1>4 DEF HasRecord, NoCopy
<1>7. LoadsKept
  <2>1. ASSUME NEW s \in requested, Loads(s) PROVE Loads(s)'
    <3>1. CASE s.on # r.on
      BY <1>1, <1>5, <2>1, <3>1, SameElsewhere
    <3>2. CASE s.on = r.on
      <4>1. s = r
        BY <1>1, <2>1, <3>2 DEF Loads, HasRecord, NoRecord, FilesSound, Undecided
      <4>2. \A d \in disk'.copies : d.on = r.on => d = r
        BY <1>1, <1>4 DEF Loads, FilesSound, Undecided
      <4> QED BY <1>6, <4>1, <4>2 DEF Loads
    <3> QED BY <3>1, <3>2
  <2> QED BY <2>1 DEF LoadsKept
<1>8. FilesSound'
  BY <1>1, <1>2, <1>4 DEF FilesSound, Stamped
<1>9. DecisionsSound'
  <2>1. \A n \in disk'.manifests : n \in Decisions
    BY <1>4 DEF Decisions
  <2>2. \A x \in disk'.ops : x.rel # None => x.rel \in Decisions
    BY <1>1, <1>2, <1>4 DEF Decisions
  <2>3. \A x \in disk'.ops : x.rel = None =>
          \A n \in released \cup disk'.manifests : n.req # x.req
    BY <1>1, <1>2, <1>4 DEF DecisionsSound
  <2> QED BY <2>1, <2>2, <2>3, DecisionsKept
<1>10. ASSUME losses = 0 PROVE Whole'
  <2>1. Whole
    BY <1>10 DEF Inv
  <2>2. ASSUME NEW s \in requested \cup disk.copies PROVE HasRecord(s)'
    <3>1. HasRecord(s) /\ HasRecord(r)
      BY <1>1, <2>1, <2>2 DEF Whole
    <3>2. CASE s.on # r.on
      BY <1>1, <1>5, <3>1, <3>2, SameElsewhere
    <3>3. CASE s.on = r.on
      BY <1>1, <1>6, <3>1, <3>3 DEF HasRecord, FilesSound
    <3> QED BY <3>2, <3>3
  <2>3. ASSUME NEW n \in disk.manifests
        PROVE  n.req \in disk'.artifacts /\ [req |-> n.req, rel |-> n] \in disk'.ops
    <3>1. n.req \in disk.artifacts /\ [req |-> n.req, rel |-> n] \in disk.ops /\ n # None
      BY <1>1, <2>1, <2>3 DEF Whole, DecisionsSound, Decisions
    <3>2. n.req.on # r.on
      BY <3>1 DEF Undecided
    <3> QED BY <1>1, <1>5, <3>1, <3>2, SameElsewhere
  <2> QED BY <1>1, <1>4, <2>2, <2>3 DEF Whole
<1>11. Releasing(p)'
  BY <1>1, <1>2, <1>3, <1>4, <1>6 DEF Releasing, ReleasingWith
<1> QED BY <1>5, <1>7, <1>8, <1>9, <1>10, <1>11, Persisted

(* The artifact and the manifest say nothing about a request.              *)
LEMMA SameRequests ==
    ASSUME Inv, NEW p \in Procs, Press!Persist(p), NEW on,
           disk'.ops = disk.ops, disk'.copies = disk.copies,
           disk.artifacts \subseteq disk'.artifacts,
           DOMAIN disk' = {"ops", "copies", "artifacts", "manifests"}
    PROVE  /\ Elsewhere(on) /\ LoadsKept /\ FilesSound' /\ (NoCopy(on)' <=> NoCopy(on))
           /\ \A r : HasRecord(r) => HasRecord(r)'
<1>1. UNCHANGED <<builds, clock>> /\ FilesSound
  BY Persisting
<1>2. Elsewhere(on)
  BY DEF Elsewhere
<1>3. LoadsKept
  BY DEF LoadsKept, Loads, HasRecord, NoRecord
<1>4. FilesSound'
  BY <1>1 DEF FilesSound, Stamped
<1> QED BY <1>2, <1>3, <1>4 DEF NoCopy, HasRecord

LEMMA ArtifactWritten ==
    ASSUME NoneIsNoRecord, Inv, NEW p \in Procs, Press!Persist(p), job[p].op = "releasing",
           NEW r, NEW m, r = job[p].req, m = job[p].rel, NEW c \in {0, 1},
           job[p].todo = Files(0, 1, c, r, m), [req |-> r, rel |-> m] \in disk.ops
    PROVE  Inv'
<1>1. /\ FilesSound /\ DecisionsSound /\ job'[p].req = r /\ job'[p].rel = m
      /\ UNCHANGED <<builds, clock, losses, requested, released>> /\ m.req = r
  BY Persisting, ReleasingNow
<1>2. job'[p].todo = Files(0, 0, c, r, m) /\ disk' = Press!Written(disk, Press!Put("artifact", r))
  <2>1. /\ job[p].todo # <<>> /\ Head(job[p].todo) = Press!Put("artifact", r)
        /\ Tail(job[p].todo) = Files(0, 0, c, r, m)
    BY FilesLeft
  <2> QED BY <2>1, Persisting
<1>3. /\ disk'.ops = disk.ops /\ disk'.copies = disk.copies
      /\ disk'.artifacts = disk.artifacts \cup {r} /\ disk'.manifests = disk.manifests
      /\ DOMAIN disk' = {"ops", "copies", "artifacts", "manifests"}
  <2>1. disk' = [disk EXCEPT !.artifacts = @ \cup {r}]
    BY <1>2 DEF Press!Written, Press!Put
  <2> QED BY <1>1, <2>1 DEF FilesSound
<1>4. /\ Elsewhere(job[p].on) /\ LoadsKept /\ FilesSound'
      /\ \A s : HasRecord(s) => HasRecord(s)'
  BY <1>3, SameRequests
<1>5. DecisionsSound'
  <2>1. \A n \in disk'.manifests : n \in Decisions
    BY <1>3 DEF Decisions
  <2>2. \A x \in disk'.ops : x.rel # None => x.rel \in Decisions
    BY <1>3 DEF Decisions
  <2>3. \A x \in disk'.ops : x.rel = None =>
          \A n \in released \cup disk'.manifests : n.req # x.req
    BY <1>1, <1>3 DEF DecisionsSound
  <2> QED BY <2>1, <2>2, <2>3, DecisionsKept
<1>6. losses = 0 => Whole'
  BY <1>1, <1>3, <1>4 DEF Inv, Whole
<1>7. Releasing(p)'
  <2>1. ReleasingWith(p, 0, 0, c)'
    BY <1>1, <1>2, <1>3 DEF ReleasingWith
  <2> QED BY <2>1 DEF Releasing
<1> QED BY <1>4, <1>5, <1>6, <1>7, Persisted

LEMMA ManifestWritten ==
    ASSUME NoneIsNoRecord, Inv, NEW p \in Procs, Press!Persist(p), job[p].op = "releasing",
           NEW r, NEW m, r = job[p].req, m = job[p].rel,
           job[p].todo = Files(0, 0, 1, r, m), [req |-> r, rel |-> m] \in disk.ops,
           r \in disk.artifacts
    PROVE  Inv'
<1>1. /\ FilesSound /\ DecisionsSound /\ job'[p].req = r /\ job'[p].rel = m
      /\ UNCHANGED <<builds, clock, losses, requested, released>> /\ m.req = r /\ m \in Decisions
      /\ m # None
  BY Persisting, ReleasingNow DEF DecisionsSound
<1>2. job'[p].todo = Files(0, 0, 0, r, m) /\ disk' = Press!Written(disk, Press!Put("manifest", m))
  <2>1. /\ job[p].todo # <<>> /\ Head(job[p].todo) = Press!Put("manifest", m)
        /\ Tail(job[p].todo) = <<>> /\ Files(0, 0, 0, r, m) = <<>>
    BY FilesLeft
  <2> QED BY <2>1, Persisting
<1>3. /\ disk'.ops = disk.ops /\ disk'.copies = disk.copies
      /\ disk'.artifacts = disk.artifacts /\ disk'.manifests = disk.manifests \cup {m}
      /\ DOMAIN disk' = {"ops", "copies", "artifacts", "manifests"}
  <2>1. disk' = [disk EXCEPT !.manifests = @ \cup {m}]
    BY <1>2 DEF Press!Written, Press!Put
  <2> QED BY <1>1, <2>1 DEF FilesSound
<1>4. /\ Elsewhere(job[p].on) /\ LoadsKept /\ FilesSound'
      /\ \A s : HasRecord(s) => HasRecord(s)'
  BY <1>3, SameRequests
<1>5. DecisionsSound'
  <2>1. \A n \in disk'.manifests : n \in Decisions
    BY <1>1, <1>3 DEF Decisions
  <2>2. \A x \in disk'.ops : x.rel # None => x.rel \in Decisions
    BY <1>3 DEF Decisions
  <2>3. \A x \in disk.ops : x.req = r => x.rel = m
    BY <1>1 DEF FilesSound
  <2>4. \A x \in disk'.ops : x.rel = None =>
          \A n \in released \cup disk'.manifests : n.req # x.req
    BY <1>1, <1>3, <2>3 DEF DecisionsSound
  <2> QED BY <2>1, <2>2, <2>4, DecisionsKept
<1>6. losses = 0 => Whole'
  BY <1>1, <1>3, <1>4 DEF Inv, Whole
<1>7. Releasing(p)'
  <2>1. ReleasingWith(p, 0, 0, 0)'
    BY <1>1, <1>2, <1>3 DEF ReleasingWith
  <2> QED BY <2>1 DEF Releasing
<1> QED BY <1>4, <1>5, <1>6, <1>7, Persisted

LEMMA PersistSound == ASSUME NoneIsNoRecord, Inv, NEW p \in Procs, Press!Persist(p) PROVE Inv'
<1> PICK r, m : r = job[p].req /\ m = job[p].rel
  OBVIOUS
<1>1. JobSound(p) /\ Busy(p) /\ job[p].todo # <<>> /\ job'[p].todo = Tail(job[p].todo)
      /\ job'[p].req = r /\ job'[p].rel = m
  BY Persisting
<1>2. CASE job[p].op = "requesting"
  <2>1. CASE /\ job[p].todo = <<Press!Put("op", [req |-> r, rel |-> None]), Press!Put("copy", r)>>
             /\ NoRecord(r.on) /\ NoCopy(r.on) /\ r \notin requested
    BY <1>2, <2>1, RequestWritten
  <2>2. CASE job[p].todo = <<Press!Put("copy", r)>> /\ HasRecord(r) /\ NoCopy(r.on)
    <3>1. Head(job[p].todo) = Press!Put("copy", r) /\ job'[p].todo = <<>>
      BY <1>1, <2>2, Heads
    <3>2. /\ HasRecord(r)' /\ r \in disk'.copies
          /\ /\ job[p].op = "requesting" => Requesting(p)'
             /\ job[p].op = "releasing" => Releasing(p)'
             => Inv'
      BY <2>2, <3>1, CopyWritten
    <3>3. Requesting(p)'
      BY <1>1, <3>1, <3>2 DEF Requesting
    <3> QED BY <1>2, <3>2, <3>3
  <2> QED BY <1>1, <1>2, <2>1, <2>2 DEF JobSound, Requesting
<1>3. CASE job[p].op = "releasing"
  <2>1. Releasing(p)
    BY <1>1, <1>3 DEF JobSound
  <2>2. PICK a \in {0, 1}, b \in {0, 1}, c \in {0, 1} :
          /\ m.req = r
          /\ a = 1 => NoCopy(r.on)
          /\ b # 1 => r \in disk.artifacts
          /\ \/ /\ job[p].todo = <<Press!Put("op", [req |-> r, rel |-> m])>> \o Files(a, b, c, r, m)
                /\ Undecided(r)
             \/ /\ job[p].todo = Files(a, b, c, r, m)
                /\ [req |-> r, rel |-> m] \in disk.ops
    <3>1. PICK a \in {0, 1}, b \in {0, 1}, c \in {0, 1} : ReleasingWith(p, a, b, c)
      BY <2>1 DEF Releasing
    <3> QED BY <3>1 DEF ReleasingWith
  <2>3. CASE /\ job[p].todo = <<Press!Put("op", [req |-> r, rel |-> m])>> \o Files(a, b, c, r, m)
             /\ Undecided(r)
    <3>1. /\ job[p].todo = <<Press!Put("op", [req |-> r, rel |-> m])>> \o Files(a, b, c, r, m)
          /\ a = 1 => NoCopy(r.on)
          /\ b # 1 => r \in disk.artifacts
          /\ Undecided(r)
          /\ r = job[p].req /\ m = job[p].rel /\ job[p].op = "releasing"
          /\ a \in {0, 1} /\ b \in {0, 1} /\ c \in {0, 1}
      BY <1>3, <2>2, <2>3
    <3> QED BY <3>1, DecisionWritten, Zenon
  <2>4. CASE job[p].todo = Files(a, b, c, r, m) /\ [req |-> r, rel |-> m] \in disk.ops
    <3>1. CASE a = 1
      <4>1. /\ HasRecord(r) /\ NoCopy(r.on) /\ Head(job[p].todo) = Press!Put("copy", r)
            /\ job'[p].todo = Files(0, b, c, r, m)
        BY <1>1, <2>2, <2>4, <3>1, FilesLeft DEF HasRecord
      <4>2. /\ disk'.ops = disk.ops /\ disk'.artifacts = disk.artifacts
            /\ /\ job[p].op = "requesting" => Requesting(p)'
               /\ job[p].op = "releasing" => Releasing(p)'
               => Inv'
        BY <4>1, CopyWritten
      <4>3. Releasing(p)'
        <5>1. m.req = r /\ (b # 1 => r \in disk'.artifacts)
          BY <2>2, <4>2
        <5>2. [req |-> r, rel |-> m] \in disk'.ops
          BY <2>4, <4>2
        <5>3. ReleasingWith(p, 0, b, c)'
          BY <1>1, <4>1, <5>1, <5>2 DEF ReleasingWith
        <5> QED BY <5>3 DEF Releasing
      <4> QED BY <1>3, <4>2, <4>3
    <3>2. CASE a = 0 /\ b = 1
      BY <1>3, <2>2, <2>4, <3>2, ArtifactWritten
    <3>3. CASE a = 0 /\ b = 0 /\ c = 1
      BY <1>3, <2>2, <2>4, <3>3, ManifestWritten
    <3>4. CASE a = 0 /\ b = 0 /\ c = 0
      BY <1>1, <2>4, <3>4, FilesLeft
    <3> QED BY <2>2, <3>1, <3>2, <3>3, <3>4
  <2> QED BY <2>2, <2>3, <2>4
<1> QED BY <1>1, <1>2, <1>3 DEF Busy

-----------------------------------------------------------------------------
(* Files are lost                                                          *)

LEMMA LoseSound == ASSUME NoneIsNoRecord, Inv, Press!Lose PROVE Inv'
<1>1. PICK f \in DOMAIN disk : \E y \in disk[f] : disk' = [disk EXCEPT ![f] = @ \ {y}]
  BY DEF Press!Lose
<1>2. /\ \A p \in Procs : job[p].op = "idle"
      /\ UNCHANGED <<config, renderer, builds, job, clock, requested, released>>
      /\ losses' = losses + 1 /\ losses \in Nat
  BY DEF Press!Lose, Press!setting, Press!history, Inv, SettingSound
<1>3. /\ disk'.ops \subseteq disk.ops /\ disk'.copies \subseteq disk.copies
      /\ disk'.artifacts \subseteq disk.artifacts /\ disk'.manifests \subseteq disk.manifests
      /\ DOMAIN disk' = {"ops", "copies", "artifacts", "manifests"}
  BY <1>1 DEF Inv, FilesSound
<1>4. FilesSound'
  BY <1>2, <1>3 DEF Inv, FilesSound, Stamped
<1>5. SettingSound' /\ HistorySound'
  BY <1>2 DEF Inv, SettingSound, HistorySound, Stamped
<1>6. DecisionsSound'
  <2>1. Decisions' \subseteq Decisions
    BY <1>2, <1>3 DEF Decisions
  <2>2. \A m : Current(m) => Current(m)'
    BY DEF Current
  <2> QED BY <1>2, <1>3, <2>1, <2>2 DEF Inv, DecisionsSound
<1>7. JobsSound'
  BY <1>2 DEF Inv, JobsSound, JobSound, Busy
<1> QED BY <1>2, <1>4, <1>5, <1>6, <1>7 DEF Inv

-----------------------------------------------------------------------------
(* The theorems                                                            *)

LEMMA StepSound == ASSUME NoneIsNoRecord, Inv, [Press!Next]_(Press!vars) PROVE Inv'
<1>1. CASE Press!Advance
  BY <1>1, AdvanceSound
<1>2. CASE Press!Lose
  BY <1>2, LoseSound
<1>3. CASE \/ \E m \in Manuscripts, kind \in Kinds : Press!BuildPreview(m, kind)
           \/ \E b \in builds, review \in Press!Reviews : Press!FinalizePdf(b, review)
  BY <1>3, BuildSound
<1>4. ASSUME NEW p \in Procs, Press!Work(p) \/ Press!Ask(p) \/ Press!Stops(p) PROVE Inv'
  <2>1. CASE Press!Work(p)
    BY <2>1, RequestedSound, ReleaseSound, ReleasedSound, PersistSound DEF Press!Work
  <2>2. CASE Press!Ask(p)
    BY <2>2, RequestSound, LoadRequestSound DEF Press!Ask
  <2> QED BY <1>4, <2>1, <2>2, StopsSound
<1>5. CASE UNCHANGED Press!vars
  <2>1. /\ UNCHANGED <<config, renderer, builds, disk, job, clock, losses, requested, released>>
        /\ clock \in Nat
    BY <1>5 DEF Press!vars, Inv, SettingSound
  <2>2. \A q \in Procs : JobSound(q)'
    BY <2>1, JobStays
  <2>3. JobsSound' /\ SettingSound'
    BY <2>1, <2>2 DEF Inv, JobsSound, SettingSound, Busy
  <2>4. Decisions' = Decisions
    BY <2>1 DEF Decisions
  <2>5. DecisionsSound'
    BY <2>1, <2>4, NothingDecided
  <2> QED BY <2>1, <2>3, <2>5, Quiet
<1> QED BY <1>1, <1>2, <1>3, <1>4, <1>5 DEF Press!Next

LEMMA AlwaysSound == ASSUME NoneIsNoRecord PROVE Press!Spec => []Inv
<1>1. Press!Init => Inv
  BY InitSound
<1>2. Inv /\ [Press!Next]_(Press!vars) => Inv'
  BY StepSound
<1> QED BY <1>1, <1>2, PTL DEF Press!Spec

LEMMA SoundIsRight ==
    ASSUME NoneIsNoRecord, Inv
    PROVE  Press!TypeOK /\ Press!DecidedOnce /\ Press!DecidedCurrent /\ Press!AlwaysReleasable
<1>1. Press!TypeOK
  BY DEF Inv, FilesSound, SettingSound, JobsSound, JobSound, Press!TypeOK
<1>2. Press!DecidedOnce /\ Press!DecidedCurrent
  BY DEF Inv, DecisionsSound, Decisions, Current, Press!DecidedOnce, Press!DecidedCurrent
<1>3. ASSUME losses = 0 PROVE Press!AlwaysReleasable
  <2>1. Whole /\ FilesSound
    BY <1>3 DEF Inv
  <2>2. ASSUME NEW r \in requested PROVE Press!RequestLoads(r)
    <3>1. r # None /\ HasRecord(r)
      BY <2>1 DEF Inv, HistorySound, Stamped, Whole
    <3>2. Loads(r)
      BY <2>1, <3>1 DEF Loads, HasRecord, Whole, FilesSound
    <3> QED BY <2>1, <3>1, <3>2, LoadsIs
  <2>3. ASSUME NEW m \in disk.manifests
        PROVE  m.req \in disk.artifacts /\ Press!Record(m.req.on) = [req |-> m.req, rel |-> m]
    BY <2>1, RecordIs DEF Whole, NoRecord
  <2> QED BY <2>2, <2>3 DEF Press!AlwaysReleasable
<1> QED BY <1>1, <1>2, <1>3 DEF Press!AlwaysReleasable

-----------------------------------------------------------------------------
(* What is proved of a publication holds of the two together: a behaviour  *)
(* of both is one of each.                                                 *)

LEMMA PressBehaves == Spec => Press!Spec
<1>1. Init => Press!Init
  BY DEF Init
<1>2. [Next]_<<service, writerVars, pressVars>> => [Press!Next]_(Press!vars)
  BY DEF Next, pressVars, Press!vars
<1> QED BY <1>1, <1>2, PTL DEF Spec, Press!Spec

(* A release is decided once, for the renderer and Project Config of its   *)
(* build, whatever dies and however many files are lost; and without lost  *)
(* files whoever was asked for an approval can be answered.                *)
THEOREM ReleasesDecidedOnce == ASSUME NoneIsNoRecord PROVE Spec => []DecidedCurrent
<1>1. Press!Spec => []Inv
  BY AlwaysSound
<1>2. Inv => DecidedCurrent
  BY SoundIsRight DEF DecidedCurrent
<1> QED BY <1>1, <1>2, PressBehaves, PTL

-----------------------------------------------------------------------------
(* The manuscripts                                                          *)

(* None is none of the records of a round trip, and nobody is None.        *)
NoneIsNoRevision ==
    /\ None \notin Procs
    /\ \A x, y : None # [num |-> x, at |-> y] /\ None # [comp |-> x, rows |-> y]
    /\ \A n, t, p, a, i, w :
          None # [num |-> n, at |-> t, parent |-> p, resp |-> a, input |-> i, rows |-> w]

(* Whoever is writing a revision, and the revisions that are stored,       *)
(* recorded, on their way or answered.                                     *)
Makers == {p \in Procs : task[p].op = "imported"}
OnDisk == pages.revs \cup ({pages.record} \ {None})
Known == OnDisk \cup {task[p].rev : p \in Makers} \cup {a.rev : a \in answers}

RevisionSound(r) ==
    /\ r # None /\ r.num \in 1..MaxRevisions
    /\ r.parent = r.resp.base
    /\ IF r.num = 1 THEN r.parent = None ELSE r.parent # None /\ r.parent.num = r.num - 1
    /\ r.input # None /\ r.resp.input # None
    /\ DOMAIN r.rows = Writer!Secs(r.input)
    /\ \A s \in DOMAIN r.rows :
          /\ r.rows[s].origin = IF r.input.rows[s] = None THEN r.resp.input ELSE r.input.rows[s]
          /\ r.rows[s].origin.comp = r.input.comp /\ s \in Writer!Secs(r.rows[s].origin)

(* A record is the newest of all.                                          *)
PagesSound ==
    /\ DOMAIN pages = {"root", "record", "revs", "head"} /\ pages.root \in BOOLEAN
    /\ pages.head # None => pages.head = [num |-> pages.head.num, at |-> pages.head.at]
                            /\ pages.head.num \in Nat
    /\ pages.head # None \/ pages.revs # {} => pages.root
    /\ pages.record # None =>
          /\ \A r \in pages.revs : r.num <= pages.record.num
          /\ pages.head # None => pages.head.num <= pages.record.num

(* The files of a revision that are not as they should be, in order.       *)
Left(r) ==
    Writer!If(pages.record # r, Writer!Put("record", r))
      \o Writer!If(r \notin pages.revs, Writer!Put("rev", r))
      \o Writer!If(pages.head # Writer!Ref(r), Writer!Put("head", Writer!Ref(r)))

(* A reconciliation restores the newest revision that there is evidence of.*)
Mending(p) ==
    IF Writer!Last = None THEN task[p].todo = <<>> /\ ~pages.root
    ELSE /\ task[p].todo = Left(Writer!Last) /\ Writer!Last \in OnDisk
         /\ \A r \in pages.revs : r.num <= Writer!Last.num
         /\ pages.head # None => pages.head.num <= Writer!Last.num
         /\ gone <= 2 => \A a \in answers : a.rev.num <= Writer!Last.num

(* An import adds a revision to the newest: record, revision, head.        *)
Adding(p, r) ==
    /\ r.resp = task[p].resp
    /\ \/ task[p].todo = Left(r)
       \/ task[p].todo = <<Writer!Put("input", r.input)>> \o Left(r) /\ pages.record # r
    /\ pages.record = r \/ r \notin pages.revs
    /\ r \in pages.revs \/ pages.head # Writer!Ref(r)
    /\ pages.head \in {r.parent, Writer!Ref(r)}
    /\ r.parent = None \/ Writer!Stored(r.parent)
    /\ \A q \in OnDisk \ {r} : q.num < r.num
    /\ gone <= 2 => \A a \in answers : a.rev.num < r.num

Importing(p) == task[p].op \in {"reconcile", "import", "imported"}

TaskSound(p) ==
    /\ DOMAIN task[p] = DOMAIN Writer!Idle
    /\ task[p].op \in {"idle", "export", "reconcile", "import", "imported"}
    /\ task[p].op \in {"idle", "export"} \/ lock = p
    /\ task[p].op \in {"idle", "export", "reconcile"} => task[p].todo = <<>>
    /\ Importing(p) => task[p].resp.input # None /\ task[p].resp.secs # {}
    /\ task[p].op = "import" => Mending(p)
    /\ task[p].op = "imported" => Adding(p, task[p].rev)

(* The record, a revision or the head still tells of an answered revision, *)
(* unless as many files were lost.                                         *)
Traceless(r) ==
    Needed(pages.record = None) + Needed(\A q \in pages.revs : q.num < r.num)
      + Needed(pages.head = None)

AnswersKept ==
    /\ answers # {} => pages.root
    /\ \A a \in answers : a = [resp |-> a.rev.resp, rev |-> a.rev]
    /\ gone <= 2 =>
          /\ \A r, q \in Known : r.num = q.num => r = q
          /\ \A a \in answers :
                /\ pages.record # None => a.rev.num <= pages.record.num
                /\ pages.head # None => a.rev.num <= pages.head.num
                /\ Traceless(a.rev) <= gone

CallLoads(p) ==
    /\ Importing(p) => Writer!Loads(task[p].resp.input)
    /\ task[p].op = "imported" =>
          /\ Writer!Resolves(task[p].rev.input)
          /\ Writer!Has(task[p].rev.input) \/ task[p].todo # Left(task[p].rev)

(* With nothing lost every revision is there with its inputs.              *)
NothingMissing ==
    /\ pages.root => pages.record # None
    /\ \A r \in OnDisk : /\ Writer!Loads(r.input) /\ Writer!Loads(r.resp.input)
                         /\ r.parent = None \/ Writer!Stored(r.parent)
    /\ \A r \in pages.revs : \A n \in 1..r.num : \E q \in pages.revs : q.num = n
    /\ pages.record # None => pages.head \in {None, Writer!Ref(pages.record), pages.record.parent}
    /\ \A a \in answers : a.rev \in pages.revs
    /\ \A p \in Procs : CallLoads(p)

InputsSound ==
    \A x \in inputs : x.doc # None /\ \A s \in DOMAIN x.read : x.read[s] = x.doc.comp

WriterInv ==
    /\ gone \in Nat /\ InputsSound
    /\ PagesSound /\ \A r \in Known : RevisionSound(r)
    /\ DOMAIN task = Procs /\ \A p \in Procs : TaskSound(p)
    /\ AnswersKept
    /\ gone = 0 => NothingMissing

LEMMA NewestThere ==
    ASSUME NEW m \in Nat, NEW T \in SUBSET (1..m), T # {}
    PROVE  \E n \in T : \A k \in T : k <= n
<1> DEFINE R == OpToRel(<, Nat)
           U == {m - n : n \in T}
<1>1. U \in SUBSET Nat /\ U # {}
  <2>1. \A n \in T : m - n \in Nat
    OBVIOUS
  <2>2. PICK n \in T : TRUE
    OBVIOUS
  <2>3. m - n \in U
    BY <2>2
  <2> QED BY <2>1, <2>3
<1>2. PICK u \in U : \A w \in U : ~ (<<w, u>> \in R)
  <2> HIDE DEF R, U
  <2> QED BY <1>1, NatLessThanWellFounded, WFMin DEF R
<1>3. PICK n \in T : u = m - n
  BY <1>2
<1>4. ASSUME NEW k \in T PROVE k <= n
  <2>1. m - k \in U /\ m - k \in Nat /\ u \in Nat
    BY <1>1
  <2>2. ~ (<<m - k, u>> \in R)
    BY <1>2, <2>1
  <2>3. ~ (m - k < u)
    BY <2>1, <2>2 DEF OpToRel
  <2> QED BY <2>3, <1>3
<1> QED BY <1>4

(* What is restored is the newest of what is on disk.                      *)
LEMMA LastIs ==
    ASSUME WriterInv, Writer!Last # None
    PROVE  /\ Writer!Last \in OnDisk /\ RevisionSound(Writer!Last)
           /\ \A r \in pages.revs : r.num <= Writer!Last.num
           /\ pages.record # None => Writer!Last = pages.record
           /\ pages.record = None => Writer!Last \in pages.revs
<1>1. \A r \in OnDisk : RevisionSound(r)
  BY DEF WriterInv, Known
<1>2. CASE pages.record # None
  BY <1>1, <1>2 DEF Writer!Last, OnDisk, WriterInv, PagesSound
<1>3. CASE pages.record = None
  <2> DEFINE T == {r.num : r \in pages.revs}
  <2>1. pages.revs # {} /\ Writer!Last = Writer!Newest
    BY <1>3 DEF Writer!Last
  <2>2. T \in SUBSET (1..MaxRevisions) /\ T # {}
    BY <1>1, <2>1 DEF OnDisk, RevisionSound
  <2>3. \E n \in T : \A k \in T : k <= n
    <3> HIDE DEF T
    <3> QED BY <2>2, NewestThere, RevisionBound
  <2>4. \E r \in pages.revs : \A q \in pages.revs : q.num <= r.num
    BY <2>3
  <2>5. Writer!Newest \in pages.revs /\ \A q \in pages.revs : q.num <= Writer!Newest.num
    BY <2>4 DEF Writer!Newest
  <2> QED BY <1>1, <1>3, <2>1, <2>5 DEF OnDisk
<1> QED BY <1>2, <1>3

LEMMA NoLast ==
    ASSUME WriterInv, NoneIsNoRevision
    PROVE  Writer!Last = None <=> pages.record = None /\ pages.revs = {}
<1>1. CASE pages.record = None /\ pages.revs # {}
  <2> DEFINE T == {r.num : r \in pages.revs}
  <2>1. \A r \in pages.revs : RevisionSound(r)
    BY DEF WriterInv, Known, OnDisk
  <2>2. T \in SUBSET (1..MaxRevisions) /\ T # {}
    BY <1>1, <2>1 DEF RevisionSound
  <2>3. \E n \in T : \A k \in T : k <= n
    <3> HIDE DEF T
    <3> QED BY <2>2, NewestThere, RevisionBound
  <2>4. \E r \in pages.revs : \A q \in pages.revs : q.num <= r.num
    BY <2>3
  <2>5. Writer!Newest \in pages.revs
    BY <2>4 DEF Writer!Newest
  <2> QED BY <1>1, <2>1, <2>5 DEF Writer!Last, RevisionSound
<1> QED BY <1>1 DEF Writer!Last

-----------------------------------------------------------------------------
(* What an import or a reconciliation has left to write                     *)

LEMMA LeftIs ==
    ASSUME NEW r
    PROVE  Left(r) = Writes(Needed(pages.record # r), Writer!Put("record", r),
                            Needed(r \notin pages.revs), Writer!Put("rev", r),
                            Needed(pages.head # Writer!Ref(r)), Writer!Put("head", Writer!Ref(r)))
BY DEF Left, Writes, Needed, Writer!If, Press!If

LEMMA NothingLeft ==
    ASSUME NEW r
    PROVE  Left(r) = <<>> <=>
              pages.record = r /\ r \in pages.revs /\ pages.head = Writer!Ref(r)
<1> DEFINE a == Needed(pages.record # r)  b == Needed(r \notin pages.revs)
           c == Needed(pages.head # Writer!Ref(r))
<1>1. /\ (a = 1 <=> pages.record # r) /\ (b = 1 <=> r \notin pages.revs)
      /\ (c = 1 <=> pages.head # Writer!Ref(r))
  BY DEF Needed
<1> HIDE DEF a, b, c
<1>2. Left(r) = Writes(a, Writer!Put("record", r), b, Writer!Put("rev", r), c,
                       Writer!Put("head", Writer!Ref(r)))
  BY LeftIs DEF a, b, c
<1> QED BY <1>1, <1>2, WritesLeft

(* The next write.                                                         *)
Writing(w) ==
    /\ w.file = "record" => pages' = [pages EXCEPT !.record = w.val]
    /\ w.file = "rev" => pages' = [pages EXCEPT !.revs = @ \cup {w.val}, !.root = TRUE]
    /\ w.file = "head" => pages' = [pages EXCEPT !.head = w.val, !.root = TRUE]

(* It is of the record, of the revision or of the head, and the rest is    *)
(* what is left then.                                                      *)
LEMMA LeftNext ==
    ASSUME NEW r, Left(r) # <<>>, Writing(Head(Left(r))),
           DOMAIN pages = {"root", "record", "revs", "head"}
    PROVE  /\ Left(r)' = Tail(Left(r)) /\ DOMAIN pages' = DOMAIN pages
           /\ Head(Left(r)).file # "input"
           /\ \/ /\ pages.record # r /\ pages'.record = r
                 /\ pages'.revs = pages.revs /\ pages'.head = pages.head /\ pages'.root = pages.root
              \/ /\ pages.record = r /\ pages'.record = r
                 /\ r \notin pages.revs /\ pages'.revs = pages.revs \cup {r}
                 /\ pages'.head = pages.head /\ pages'.root = TRUE
              \/ /\ pages.record = r /\ pages'.record = r
                 /\ r \in pages.revs /\ pages'.revs = pages.revs
                 /\ pages.head # Writer!Ref(r) /\ pages'.head = Writer!Ref(r) /\ pages'.root = TRUE
<1> DEFINE a == Needed(pages.record # r)  b == Needed(r \notin pages.revs)
           c == Needed(pages.head # Writer!Ref(r))
           x == Writer!Put("record", r)  y == Writer!Put("rev", r)
           z == Writer!Put("head", Writer!Ref(r))
<1>1. /\ a = IF pages.record # r THEN 1 ELSE 0
      /\ b = IF r \notin pages.revs THEN 1 ELSE 0
      /\ c = IF pages.head # Writer!Ref(r) THEN 1 ELSE 0
  BY DEF Needed
<1>2. /\ x.file = "record" /\ x.val = r /\ y.file = "rev" /\ y.val = r
      /\ z.file = "head" /\ z.val = Writer!Ref(r)
  BY DEF Writer!Put
<1>3. Left(r)' = Writes(IF pages'.record # r THEN 1 ELSE 0, x,
                        IF r \notin pages'.revs THEN 1 ELSE 0, y,
                        IF pages'.head # Writer!Ref(r) THEN 1 ELSE 0, z)
  BY DEF Left, Writes, Writer!If, Press!If, Writer!Ref, Writer!Put
<1> HIDE DEF a, b, c, x, y, z
<1>4. Left(r) = Writes(a, x, b, y, c, z)
  BY LeftIs DEF a, b, c, x, y, z
<1>5. CASE pages.record # r
  <2>1. Head(Left(r)) = x /\ Tail(Left(r)) = Writes(0, x, b, y, c, z)
    BY <1>1, <1>4, <1>5, WritesLeft
  <2>2. pages' = [pages EXCEPT !.record = r]
    BY <1>2, <2>1 DEF Writing
  <2>3. /\ pages'.record = r /\ pages'.revs = pages.revs /\ pages'.head = pages.head
        /\ pages'.root = pages.root /\ DOMAIN pages' = DOMAIN pages
    BY <2>2
  <2>4. Left(r)' = Writes(0, x, b, y, c, z)
    BY <1>1, <1>3, <2>3
  <2> QED BY <1>2, <1>5, <2>1, <2>3, <2>4
<1>6. CASE pages.record = r /\ r \notin pages.revs
  <2>1. Head(Left(r)) = y /\ Tail(Left(r)) = Writes(0, x, 0, y, c, z)
    BY <1>1, <1>4, <1>6, WritesLeft
  <2>2. pages' = [pages EXCEPT !.revs = @ \cup {r}, !.root = TRUE]
    BY <1>2, <2>1 DEF Writing
  <2>3. /\ pages'.record = r /\ pages'.revs = pages.revs \cup {r} /\ pages'.head = pages.head
        /\ pages'.root = TRUE /\ DOMAIN pages' = DOMAIN pages
    BY <1>6, <2>2
  <2>4. Left(r)' = Writes(0, x, 0, y, c, z)
    BY <1>1, <1>3, <2>3
  <2> QED BY <1>2, <1>6, <2>1, <2>3, <2>4
<1>7. CASE pages.record = r /\ r \in pages.revs
  <2>0. pages.head # Writer!Ref(r)
    BY <1>7, NothingLeft
  <2>1. Head(Left(r)) = z /\ Tail(Left(r)) = <<>>
    BY <1>1, <1>4, <1>7, <2>0, WritesLeft
  <2>2. pages' = [pages EXCEPT !.head = Writer!Ref(r), !.root = TRUE]
    BY <1>2, <2>1 DEF Writing
  <2>3. /\ pages'.record = r /\ pages'.revs = pages.revs /\ pages'.head = Writer!Ref(r)
        /\ pages'.root = TRUE /\ DOMAIN pages' = DOMAIN pages
    BY <1>7, <2>2
  <2>4. Left(r)' = Writes(0, x, 0, y, 0, z)
    BY <1>1, <1>3, <1>7, <2>3
  <2>5. Writes(0, x, 0, y, 0, z) = <<>>
    BY WritesLeft
  <2> QED BY <1>2, <1>7, <2>0, <2>1, <2>3, <2>4, <2>5
<1> QED BY <1>5, <1>6, <1>7

LEMMA InputFirst ==
    ASSUME NEW o, NEW r
    PROVE  <<o>> \o Left(r) # <<>> /\ Head(<<o>> \o Left(r)) = o /\ Tail(<<o>> \o Left(r)) = Left(r)
BY LeftIs, Prefixed

-----------------------------------------------------------------------------
(* Steps that write no file of the manuscripts                              *)

LEMMA InputsStay ==
    ASSUME inputs \subseteq inputs', NEW i
    PROVE  /\ Writer!Has(i) => Writer!Has(i)'
           /\ Writer!Resolves(i) => Writer!Resolves(i)'
           /\ Writer!Loads(i) => Writer!Loads(i)'
<1>1. \A j : Writer!Has(j) => Writer!Has(j)'
  BY DEF Writer!Has
<1>2. Writer!Resolves(i) => Writer!Resolves(i)'
  BY <1>1 DEF Writer!Resolves, Writer!Secs
<1> QED BY <1>1, <1>2 DEF Writer!Loads

LEMMA SamePages ==
    ASSUME UNCHANGED pages
    PROVE  /\ Writer!Last' = Writer!Last /\ OnDisk' = OnDisk
           /\ \A r : Left(r)' = Left(r) /\ (Writer!Stored(r)' <=> Writer!Stored(r))
BY DEF Writer!Last, Writer!Newest, OnDisk, Left, Writer!Stored, Writer!Ref, Writer!Put, Writer!If

LEMMA TaskStays ==
    ASSUME NEW q \in Procs, TaskSound(q), task'[q] = task[q], UNCHANGED <<pages, gone>>,
           lock' = lock \/ ~Importing(q), answers' = answers \/ ~Importing(q)
    PROVE  TaskSound(q)'
<1>1. Importing(q)' <=> Importing(q)
  BY DEF Importing
<1>2. task[q].op = "import" => Mending(q)'
  BY SamePages DEF TaskSound, Mending, Importing
<1>3. task[q].op = "imported" => Adding(q, task[q].rev)'
  BY SamePages DEF TaskSound, Adding, Importing, Writer!Ref
<1> QED BY <1>1, <1>2, <1>3 DEF TaskSound, Importing, Writer!Idle

(* Of an answered revision all files are there, the head no older.         *)
AnswerThere(a) ==
    /\ a = [resp |-> a.rev.resp, rev |-> a.rev] /\ a.rev \in pages.revs
    /\ pages.record # None /\ a.rev.num <= pages.record.num
    /\ pages.head # None /\ a.rev.num <= pages.head.num

LEMMA DiskStays ==
    ASSUME WriterInv, UNCHANGED <<pages, gone>>, inputs \subseteq inputs', InputsSound',
           DOMAIN task' = Procs, \A q \in Procs : TaskSound(q)',
           \A r \in Known' \ Known :
              RevisionSound(r) /\ (gone <= 2 => \A q \in Known' : q.num = r.num => q = r),
           answers \subseteq answers', \A a \in answers' \ answers : AnswerThere(a),
           gone = 0 => \A q \in Procs : CallLoads(q)'
    PROVE  WriterInv'
<1>1. PagesSound' /\ (\A r \in Known' : RevisionSound(r)) /\ gone' \in Nat
  BY DEF WriterInv, PagesSound
<1>2. AnswersKept'
  <2>1. answers' # {} => pages'.root
    BY DEF WriterInv, AnswersKept, AnswerThere, PagesSound
  <2>2. \A a \in answers' : a = [resp |-> a.rev.resp, rev |-> a.rev]
    BY DEF WriterInv, AnswersKept, AnswerThere
  <2>3. ASSUME gone <= 2, NEW a \in answers'
        PROVE  /\ pages.record # None => a.rev.num <= pages.record.num
               /\ pages.head # None => a.rev.num <= pages.head.num
               /\ Traceless(a.rev) <= gone
    <3>1. CASE a \in answers
      BY <2>3, <3>1 DEF WriterInv, AnswersKept
    <3>2. CASE AnswerThere(a)
      <4>1. a.rev.num \in Int
        BY <3>2, RevisionBound DEF AnswerThere, WriterInv, Known, OnDisk, RevisionSound
      <4>2. Traceless(a.rev) = 0
        BY <3>2, <4>1 DEF AnswerThere, Traceless, Needed
      <4> QED BY <3>2, <4>2 DEF AnswerThere, WriterInv
    <3> QED BY <3>1, <3>2
  <2>4. \A r : Traceless(r)' = Traceless(r)
    BY DEF Traceless, Needed
  <2>5. gone <= 2 => \A r, q \in Known' : r.num = q.num => r = q
    BY DEF WriterInv, AnswersKept
  <2> QED BY <2>1, <2>2, <2>3, <2>4, <2>5 DEF AnswersKept
<1>3. gone' = 0 => NothingMissing'
  <2> SUFFICES ASSUME gone = 0 PROVE NothingMissing'
    OBVIOUS
  <2>1. NothingMissing
    BY DEF WriterInv
  <2>2. \A r \in OnDisk' :
            /\ Writer!Loads(r.input)' /\ Writer!Loads(r.resp.input)'
            /\ r.parent = None \/ Writer!Stored(r.parent)'
    BY <2>1, InputsStay, SamePages DEF NothingMissing
  <2>3. \A a \in answers' : a.rev \in pages'.revs
    BY <2>1 DEF NothingMissing, AnswerThere
  <2> QED BY <2>1, <2>2, <2>3 DEF NothingMissing, Writer!Ref
<1> QED BY <1>1, <1>2, <1>3 DEF WriterInv

(* Nobody else imports while p may.                                        *)
LEMMA Alone ==
    ASSUME WriterInv, NoneIsNoRevision, NEW p \in Procs, lock \in {None, p}, NEW q \in Procs \ {p}
    PROVE  ~Importing(q)
BY DEF WriterInv, TaskSound, Importing, NoneIsNoRevision

OutsideJob(j) ==
    DOMAIN j = DOMAIN Writer!Idle /\ j.op \in {"idle", "export"} /\ j.todo = <<>>

LEMMA OutsideStep ==
    ASSUME WriterInv, UNCHANGED <<pages, answers, gone, lock>>, inputs \subseteq inputs',
           InputsSound', DOMAIN task' = Procs,
           \A q \in Procs : task'[q] = task[q] \/ (~Importing(q) /\ OutsideJob(task'[q]))
    PROVE  WriterInv'
<1>1. ASSUME NEW q \in Procs PROVE TaskSound(q)'
  <2>1. CASE task'[q] = task[q]
    BY <2>1, TaskStays DEF WriterInv
  <2>2. CASE ~Importing(q) /\ OutsideJob(task'[q])
    BY <2>2 DEF OutsideJob, TaskSound, Importing, Writer!Idle
  <2> QED BY <2>1, <2>2
<1>2. \A q \in Procs : Importing(q)' => task'[q] = task[q]
  BY DEF Importing, OutsideJob
<1>3. Known' \subseteq Known
  BY <1>2, SamePages DEF Known, Makers, Importing
<1>4. ASSUME gone = 0, NEW q \in Procs PROVE CallLoads(q)'
  <2>1. CallLoads(q)
    BY <1>4 DEF WriterInv, NothingMissing
  <2>2. \A i : /\ Writer!Loads(i) => Writer!Loads(i)'
               /\ Writer!Has(i) => Writer!Has(i)'
               /\ Writer!Resolves(i) => Writer!Resolves(i)'
    BY InputsStay
  <2>3. CASE task'[q] = task[q]
    BY <2>1, <2>2, <2>3, SamePages DEF CallLoads, Importing
  <2>4. CASE ~Importing(q)'
    BY <2>4 DEF CallLoads, Importing
  <2> QED BY <1>2, <2>3, <2>4
<1> QED BY <1>1, <1>3, <1>4, DiskStays

(* Versions, selections and exports.                                       *)
LEMMA ExportsSound ==
    ASSUME WriterInv, NoneIsNoRevision,
           \/ Writer!NewVersion \/ \E n \in 1..comps : Writer!Choose(n)
           \/ \E p \in Procs : \/ Writer!ExportSection(p) \/ Writer!Exported(p)
                               \/ \E secs \in SUBSET Outlines[selected] : Writer!Export(p, secs)
    PROVE  WriterInv'
<1> USE DEF Writer!quiet, Writer!series
<1>1. CASE Writer!NewVersion \/ \E n \in 1..comps : Writer!Choose(n)
  <2>1. UNCHANGED <<inputs, pages, lock, task, gone, answers>>
    BY <1>1 DEF Writer!NewVersion, Writer!Choose
  <2> QED BY <2>1, OutsideStep DEF WriterInv, InputsSound
<1>2. ASSUME NEW p \in Procs, NEW secs, Writer!Export(p, secs) PROVE WriterInv'
  <2> DEFINE j == [Writer!Idle EXCEPT !.op = "export", !.comp = selected, !.want = secs]
  <2>1. OutsideJob(j)
    BY DEF OutsideJob, Writer!Idle
  <2>2. /\ task' = [task EXCEPT ![p] = j] /\ task[p].op = "idle"
        /\ UNCHANGED <<inputs, pages, lock, gone, answers>>
    BY <1>2 DEF Writer!Export
  <2> HIDE DEF j
  <2> QED BY <2>1, <2>2, OutsideStep DEF WriterInv, InputsSound, Importing
<1>3. ASSUME NEW p \in Procs, Writer!ExportSection(p) PROVE WriterInv'
  <2>1. /\ task[p].op = "export" /\ UNCHANGED <<inputs, pages, lock, gone, answers>>
        /\ \/ task' = [task EXCEPT ![p] = Writer!Idle]
           \/ \E rows : task' = [task EXCEPT ![p] = [@ EXCEPT !.rows = rows]]
    BY <1>3 DEF Writer!ExportSection
  <2>2. OutsideJob(Writer!Idle) /\ \A rows : OutsideJob([task[p] EXCEPT !.rows = rows])
    BY <2>1 DEF OutsideJob, Writer!Idle, WriterInv, TaskSound
  <2>3. \A q \in Procs : task'[q] = task[q] \/ (~Importing(q) /\ OutsideJob(task'[q]))
    BY <2>1, <2>2 DEF WriterInv, Importing
  <2> QED BY <2>1, <2>3, OutsideStep DEF WriterInv, InputsSound
<1>4. ASSUME NEW p \in Procs, Writer!Exported(p) PROVE WriterInv'
  <2>1. /\ task[p].op = "export" /\ UNCHANGED <<pages, lock, gone, answers>>
        /\ task' = [task EXCEPT ![p] = Writer!Idle]
    BY <1>4 DEF Writer!Exported
  <2>2. InputsSound' /\ inputs \subseteq inputs'
    <3> DEFINE x == [doc |-> Writer!Batch(task[p].comp, task[p].want), read |-> task[p].rows]
    <3>1. x.doc # None /\ x.doc.comp = task[p].comp /\ x.read = task[p].rows
      BY DEF NoneIsNoRevision, Writer!Batch
    <3>2. inputs' = IF Writer!AllFrom(task[p].rows, task[p].comp) THEN inputs \cup {x} ELSE inputs
      BY <1>4 DEF Writer!Exported
    <3> HIDE DEF x
    <3> QED BY <3>1, <3>2 DEF WriterInv, InputsSound, Writer!AllFrom
  <2>3. OutsideJob(Writer!Idle)
    BY DEF OutsideJob, Writer!Idle
  <2>4. \A q \in Procs : task'[q] = task[q] \/ (~Importing(q) /\ OutsideJob(task'[q]))
    BY <2>1, <2>3 DEF WriterInv, Importing
  <2> QED BY <2>1, <2>2, <2>4, OutsideStep DEF WriterInv
<1> QED BY <1>1, <1>2, <1>3, <1>4

(* An import begins, alone.                                                *)
LEMMA ImportSound ==
    ASSUME WriterInv, NoneIsNoRevision, NEW p \in Procs, NEW a \in Writer!Responses,
           Writer!Import(p, a)
    PROVE  WriterInv'
<1> DEFINE j == [Writer!Idle EXCEPT !.op = "reconcile", !.resp = a]
<1>1. /\ j.op = "reconcile" /\ j.resp = a /\ j.todo = <<>> /\ DOMAIN j = DOMAIN Writer!Idle
  BY DEF Writer!Idle
<1>2. /\ task' = [task EXCEPT ![p] = j] /\ lock = None /\ lock' = p /\ Writer!Loads(a.input)
      /\ UNCHANGED <<inputs, pages, gone, answers>>
  BY DEF Writer!Import, Writer!quiet, Writer!series
<1> HIDE DEF j
<1>3. a.input # None /\ a.secs # {}
  BY DEF Writer!Responses, WriterInv, InputsSound
<1>4. task'[p] = j /\ DOMAIN task' = Procs /\ \A q \in Procs \ {p} : task'[q] = task[q]
  BY <1>2 DEF WriterInv
<1>5. \A q \in Procs : ~Importing(q)
  BY <1>2 DEF WriterInv, TaskSound, Importing, NoneIsNoRevision
<1>6. TaskSound(p)'
  BY <1>1, <1>2, <1>3, <1>4 DEF TaskSound, Importing, Writer!Idle
<1>7. \A q \in Procs \ {p} : TaskSound(q)' /\ ~Importing(q)'
  BY <1>2, <1>4, <1>5, TaskStays DEF WriterInv, Importing
<1>8. Known' \subseteq Known
  BY <1>1, <1>2, <1>4, <1>7, SamePages DEF Known, Makers, Importing
<1>9. CallLoads(p)'
  BY <1>1, <1>2, <1>4, InputsStay DEF CallLoads, Importing
<1>10. \A q \in Procs : CallLoads(q)'
  BY <1>7, <1>9 DEF CallLoads, Importing
<1> QED BY <1>2, <1>4, <1>6, <1>7, <1>8, <1>10, DiskStays DEF WriterInv, InputsSound

(* It ends or dies, or answers with what is there.                         *)
LEMMA LeaveSound ==
    ASSUME WriterInv, NoneIsNoRevision, NEW p \in Procs, lock = p, Writer!Leave(p),
           UNCHANGED <<pages, inputs, gone>>,
           answers \subseteq answers', \A a \in answers' \ answers : AnswerThere(a)
               /\ a.rev \in Known
    PROVE  WriterInv'
<1>1. /\ task' = [task EXCEPT ![p] = Writer!Idle] /\ lock' = None
  BY DEF Writer!Leave
<1>2. task'[p] = Writer!Idle /\ DOMAIN task' = Procs /\ \A q \in Procs \ {p} : task'[q] = task[q]
  BY <1>1 DEF WriterInv
<1>3. \A q \in Procs \ {p} : ~Importing(q)
  BY Alone
<1>4. ~Importing(p)' /\ TaskSound(p)'
  BY <1>2 DEF Writer!Idle, TaskSound, Importing
<1>5. \A q \in Procs \ {p} : TaskSound(q)' /\ ~Importing(q)'
  BY <1>2, <1>3, TaskStays DEF WriterInv, Importing
<1>6. Known' \subseteq Known
  BY <1>4, <1>5, SamePages DEF Known, Makers, Importing
<1>7. \A q \in Procs : CallLoads(q)'
  BY <1>4, <1>5 DEF CallLoads, Importing
<1> QED BY <1>2, <1>4, <1>5, <1>6, <1>7, DiskStays DEF WriterInv, InputsSound

LEMMA StopSound == ASSUME WriterInv, NoneIsNoRevision, NEW p \in Procs, Writer!Stops(p)
PROVE  WriterInv'
<1>1. lock = p
  BY DEF Writer!Stops, WriterInv, TaskSound
<1> QED BY <1>1, LeaveSound DEF Writer!Stops

-----------------------------------------------------------------------------
(* Reconciling and deciding                                                 *)

LEMMA HeadBehind ==
    ASSUME WriterInv, Writer!Last # None, Writer!HeadLeadsTo(Writer!Last), pages.head # None
    PROVE  pages.head.num <= Writer!Last.num
<1>1. Writer!Last.num \in Nat
  BY LastIs, RevisionBound DEF RevisionSound
<1> QED BY <1>1 DEF Writer!HeadLeadsTo, Writer!Ref, WriterInv, PagesSound

LEMMA AnswersBehind ==
    ASSUME WriterInv, Writer!Last # None, Writer!HeadLeadsTo(Writer!Last), gone <= 2,
           NEW a \in answers
    PROVE  a.rev.num <= Writer!Last.num
<1>1. Writer!Last.num \in Nat /\ a.rev.num \in Nat /\ \A q \in pages.revs : q.num \in Nat
  BY LastIs, RevisionBound DEF WriterInv, Known, OnDisk, RevisionSound
<1>2. /\ pages.record # None => a.rev.num <= pages.record.num
      /\ pages.head # None => a.rev.num <= pages.head.num
      /\ Traceless(a.rev) <= 2
  BY DEF WriterInv, AnswersKept, Traceless, Needed
<1>3. CASE pages.record # None
  BY <1>2, <1>3, LastIs
<1>4. CASE pages.head # None
  BY <1>1, <1>2, <1>4, HeadBehind DEF WriterInv, PagesSound
<1>5. CASE \E q \in pages.revs : ~(q.num < a.rev.num)
  BY <1>1, <1>5, LastIs
<1>6. ~(pages.record = None /\ pages.head = None /\ \A q \in pages.revs : q.num < a.rev.num)
  BY <1>2 DEF Traceless, Needed
<1> QED BY <1>3, <1>4, <1>5, <1>6

LEMMA ReconcileSound ==
    ASSUME WriterInv, NoneIsNoRevision, NEW p \in Procs, Writer!Reconcile(p)
    PROVE  WriterInv'
<1>1. /\ task[p].op = "reconcile" /\ lock = p /\ UNCHANGED <<pages, inputs, gone, answers>>
      /\ TaskSound(p) /\ Importing(p)
  BY DEF Writer!Reconcile, Writer!quiet, WriterInv, TaskSound, Importing
<1>2. CASE ~Writer!Reconcilable
  <2>1. Writer!Leave(p)
    BY <1>2 DEF Writer!Reconcile
  <2> QED BY <1>1, <2>1, LeaveSound
<1>3. CASE Writer!Reconcilable
  <2> DEFINE j == [task[p] EXCEPT !.op = "import", !.todo = Writer!Reconciling]
  <2>1. task' = [task EXCEPT ![p] = j] /\ lock' = lock
    BY <1>1, <1>3 DEF Writer!Reconcile
  <2>2. /\ j.op = "import" /\ j.todo = Writer!Reconciling /\ DOMAIN j = DOMAIN Writer!Idle
        /\ j.resp = task[p].resp /\ j.rev = task[p].rev
    BY <1>1 DEF TaskSound, Writer!Idle
  <2> HIDE DEF j
  <2>3. task'[p] = j /\ DOMAIN task' = Procs /\ \A q \in Procs \ {p} : task'[q] = task[q]
    BY <2>1 DEF WriterInv
  <2>4. Mending(p)'
    <3>1. CASE Writer!Last = None
      BY <1>1, <1>3, <2>2, <2>3, <3>1, SamePages
         DEF Mending, Writer!Reconcilable, Writer!Reconciling
    <3>2. CASE Writer!Last # None
      <4>1. Writer!HeadLeadsTo(Writer!Last)
        BY <1>3, <3>2 DEF Writer!Reconcilable
      <4>2. pages.record = None <=> pages.record # Writer!Last
        BY <3>2, LastIs
      <4>3. Writer!Reconciling = Left(Writer!Last)
        BY <3>2, <4>2 DEF Left, Writer!Reconciling, Writer!If
      <4>4. gone <= 2 => \A a \in answers : a.rev.num <= Writer!Last.num
        BY <3>2, <4>1, AnswersBehind
      <4>5. pages.head # None => pages.head.num <= Writer!Last.num
        BY <3>2, <4>1, HeadBehind
      <4>6. Writer!Last' = Writer!Last /\ Left(Writer!Last)' = Left(Writer!Last) /\ OnDisk' = OnDisk
        BY <1>1, SamePages DEF Left, Writer!Put, Writer!Ref, Writer!If
      <4> QED BY <1>1, <2>2, <2>3, <3>2, <4>3, <4>4, <4>5, <4>6, LastIs DEF Mending
    <3> QED BY <3>1, <3>2
  <2>5. Importing(p)' /\ TaskSound(p)'
    BY <1>1, <2>1, <2>2, <2>3, <2>4 DEF TaskSound, Importing, Writer!Idle
  <2>6. \A q \in Procs \ {p} : ~Importing(q)
    BY <1>1, Alone
  <2>7. \A q \in Procs \ {p} : TaskSound(q)' /\ ~Importing(q)'
    BY <1>1, <2>3, <2>6, TaskStays DEF WriterInv, Importing
  <2>8. Known' \subseteq Known
    BY <1>1, <2>2, <2>3, <2>7, SamePages DEF Known, Makers, Importing
  <2>9. gone = 0 => \A q \in Procs : CallLoads(q)'
    <3>1. gone = 0 => CallLoads(p)
      BY DEF WriterInv, NothingMissing
    <3>2. gone = 0 => CallLoads(p)'
      BY <1>1, <2>2, <2>3, <3>1, InputsStay DEF CallLoads, Importing
    <3> QED BY <2>7, <3>2 DEF CallLoads, Importing
  <2> QED BY <1>1, <2>3, <2>5, <2>7, <2>8, <2>9, DiskStays DEF WriterInv, InputsSound
<1> QED BY <1>2, <1>3

LEMMA ImportedSound ==
    ASSUME WriterInv, NoneIsNoRevision, NEW p \in Procs, Writer!Imported(p)
    PROVE  WriterInv'
<1> DEFINE r == task[p].rev  a == [resp |-> task[p].resp, rev |-> task[p].rev]
<1>1. /\ task[p].op = "imported" /\ task[p].todo = <<>> /\ TaskSound(p) /\ Adding(p, r)
  BY DEF Writer!Imported, WriterInv, TaskSound
<1>2. /\ lock = p /\ Writer!Leave(p) /\ UNCHANGED <<pages, inputs, gone>>
      /\ answers' = answers \cup {a}
  BY <1>1 DEF Writer!Imported, TaskSound
<1>3. a.rev = r /\ a.resp = r.resp /\ a = [resp |-> a.rev.resp, rev |-> a.rev]
  BY <1>1 DEF Adding
<1>4. r \in Known /\ RevisionSound(r)
  BY <1>1 DEF WriterInv, Known, Makers
<1> HIDE DEF a, r
<1>5. Left(r) = <<>>
  BY <1>1, InputFirst DEF Adding
<1>6. AnswerThere(a)
  <2>1. pages.record = r /\ r \in pages.revs /\ pages.head = Writer!Ref(r)
    BY <1>5, NothingLeft
  <2>2. pages.head # None /\ pages.head.num = r.num
    BY <2>1 DEF NoneIsNoRevision, Writer!Ref
  <2>3. r.num \in Nat /\ r # None
    BY <1>4, RevisionBound DEF RevisionSound
  <2> QED BY <1>3, <2>1, <2>2, <2>3 DEF AnswerThere
<1> QED BY <1>2, <1>3, <1>4, <1>6, LeaveSound

(* Once everything is written and restored, the newest revision is there.  *)
LEMMA Settled ==
    ASSUME WriterInv, NoneIsNoRevision, NEW p \in Procs, task[p].op = "import", task[p].todo = <<>>
    PROVE  /\ lock = p /\ TaskSound(p) /\ Importing(p)
           /\ Writer!Last = None => ~pages.root
           /\ Writer!Last # None =>
                 /\ pages.record = Writer!Last /\ Writer!Last \in pages.revs
                 /\ pages.head = Writer!Ref(Writer!Last) /\ pages.head # None
                 /\ \A r \in OnDisk : r.num <= Writer!Last.num
                 /\ gone <= 2 => \A a \in answers : a.rev.num <= Writer!Last.num
<1>1. lock = p /\ TaskSound(p) /\ Importing(p) /\ Mending(p)
  BY DEF WriterInv, TaskSound, Importing
<1>2. Writer!Last = None => ~pages.root
  BY <1>1 DEF Mending
<1>3. ASSUME Writer!Last # None
      PROVE  /\ pages.record = Writer!Last /\ Writer!Last \in pages.revs
             /\ pages.head = Writer!Ref(Writer!Last) /\ pages.head # None
             /\ \A r \in OnDisk : r.num <= Writer!Last.num
             /\ gone <= 2 => \A a \in answers : a.rev.num <= Writer!Last.num
  <2>1. Left(Writer!Last) = <<>>
    BY <1>1, <1>3 DEF Mending
  <2>2. /\ pages.record = Writer!Last /\ Writer!Last \in pages.revs
        /\ pages.head = Writer!Ref(Writer!Last)
    BY <2>1, NothingLeft
  <2>3. pages.head # None
    BY <2>2 DEF NoneIsNoRevision, Writer!Ref
  <2>4. Writer!Last.num \in Nat
    BY <1>3, LastIs, RevisionBound DEF RevisionSound
  <2> QED BY <1>1, <1>3, <2>2, <2>3, <2>4 DEF Mending, OnDisk
<1> QED BY <1>1, <1>2, <1>3

(* What stands in the whole manuscript: sections of the response with its  *)
(* input, and those of the base with the input they were written for.      *)
LEMMA EffectiveIs ==
    ASSUME NoneIsNoRevision, NEW a, NEW b, NEW i, i = Writer!Effective(a, b), i # None,
           a.input # None, a.secs # {}, b = None \/ RevisionSound(b)
    PROVE  /\ \A s \in Writer!Secs(i) :
                 IF s \in a.secs
                 THEN /\ s \in Writer!Secs(a.input) /\ i.comp = a.input.comp
                      /\ a.input = IF i.rows[s] = None THEN a.input ELSE i.rows[s]
                 ELSE /\ b # None /\ s \in Writer!Secs(b.input) /\ i.comp = b.input.comp
                      /\ b.rows[s].origin = IF i.rows[s] = None THEN a.input ELSE i.rows[s]
           /\ Writer!Assembled(i) \/ i = a.input
<1> DEFINE batch == a.input
           kept == Writer!Rows(b.input, b.resp.input)
           all == Writer!Secs(b.input) \cup Writer!Secs(batch)
<1>1. ~Writer!Assembled(batch) /\ a.secs \subseteq Writer!Secs(batch)
  BY DEF Writer!Effective
<1>2. CASE a.secs = Writer!Secs(batch) /\ i = batch
  BY <1>1, <1>2 DEF Writer!Assembled
<1>3. CASE /\ b # None /\ b.input.comp = batch.comp
                /\ all \subseteq a.secs \cup Writer!Secs(b.input)
           /\ i = [comp |-> batch.comp,
                   rows |-> [s \in all |-> IF s \in a.secs THEN batch ELSE kept[s]]]
  <2>1. /\ Writer!Secs(i) = all /\ i.comp = batch.comp
        /\ \A s \in all : i.rows[s] = IF s \in a.secs THEN batch ELSE kept[s]
    BY <1>3 DEF Writer!Secs
  <2>2. ASSUME NEW s \in all \ a.secs
        PROVE  /\ s \in Writer!Secs(b.input) /\ kept[s] # None
               /\ kept[s] = b.rows[s].origin
    <3>1. s \in Writer!Secs(b.input) /\ RevisionSound(b)
      BY <1>3, <2>2
    <3>2. kept[s] = IF b.input.rows[s] = None THEN b.resp.input ELSE b.input.rows[s]
      BY <3>1 DEF Writer!Rows
    <3> QED BY <3>1, <3>2 DEF RevisionSound
  <2>3. \A s \in a.secs : s \in all
    BY <1>1
  <2>4. Writer!Assembled(i)
    <3>1. PICK s \in a.secs : TRUE
      OBVIOUS
    <3> QED BY <2>1, <2>3, <3>1 DEF Writer!Assembled
  <2> HIDE DEF all, kept
  <2> QED BY <1>1, <1>3, <2>1, <2>2, <2>4
<1>4. (a.secs = Writer!Secs(batch) /\ i = batch)
      \/ /\ b # None /\ b.input.comp = batch.comp /\ all \subseteq a.secs \cup Writer!Secs(b.input)
         /\ i = [comp |-> batch.comp,
                 rows |-> [s \in all |-> IF s \in a.secs THEN batch ELSE kept[s]]]
  BY DEF Writer!Effective
<1> QED BY <1>2, <1>3, <1>4

LEMMA ThreeWrites ==
    ASSUME NEW x, NEW y, NEW z
    PROVE  Writes(1, x, 1, y, 1, z) = <<x, y, z>>
<1>1. Writes(1, x, 1, y, 1, z) = <<x>> \o <<y>> \o <<z>>
  BY DEF Writes, Press!If
<1> DEFINE S == {x, y, z}  two == <<x>> \o <<y>>  three == two \o <<z>>
<1>2. /\ <<x>> \in Seq(S) /\ <<y>> \in Seq(S) /\ <<z>> \in Seq(S) /\ <<x, y, z>> \in Seq(S)
      /\ Len(<<x>>) = 1 /\ Len(<<y>>) = 1 /\ Len(<<z>>) = 1 /\ Len(<<x, y, z>>) = 3
      /\ <<x>>[1] = x /\ <<y>>[1] = y /\ <<z>>[1] = z
      /\ <<x, y, z>>[1] = x /\ <<x, y, z>>[2] = y /\ <<x, y, z>>[3] = z
  OBVIOUS
<1> HIDE DEF S
<1>3. two \in Seq(S) /\ Len(two) = 2 /\ two[1] = x /\ two[2] = y
  BY <1>2, ConcatProperties
<1> HIDE DEF two
<1>4. /\ three \in Seq(S) /\ Len(three) = Len(two) + Len(<<z>>)
      /\ \A k \in 1..(Len(two) + Len(<<z>>)) :
            three[k] = IF k <= Len(two) THEN two[k] ELSE <<z>>[k - Len(two)]
  <2> HIDE DEF three
  <2>1. <<z>> \in Seq(S)
    BY <1>2
  <2> QED BY <1>3, <2>1, ConcatProperties, Zenon DEF three
<1>5. Len(three) = 3 /\ three[1] = x /\ three[2] = y /\ three[3] = z
  <2> HIDE DEF three
  <2> QED BY <1>2, <1>3, <1>4
<1> HIDE DEF three
<1>6. \A k \in 1..3 : three[k] = <<x, y, z>>[k]
  BY <1>2, <1>5
<1>7. three = <<x, y, z>>
  BY <1>2, <1>4, <1>5, <1>6, SeqEqual
<1> QED BY <1>1, <1>7 DEF two, three

(* The head is the newest revision, and the base is one like it.           *)
LEMMA BaseIs ==
    ASSUME WriterInv, NoneIsNoRevision, NEW p \in Procs, task[p].op = "import", task[p].todo = <<>>
    PROVE  /\ pages.head = None => OnDisk = {} /\ answers = {}
           /\ pages.head # None =>
                 LET b == Writer!RevisionOf(pages.head) IN
                 /\ b \in pages.revs /\ b \in OnDisk /\ RevisionSound(b) /\ b # None
                 /\ Writer!Ref(b) = pages.head /\ pages.head.num = b.num
                 /\ \A q \in OnDisk : q.num <= b.num
                 /\ gone <= 2 => \A a \in answers : a.rev.num <= b.num
<1>1. CASE pages.head = None
  <2>1. Writer!Last = None /\ ~pages.root
    BY <1>1, Settled
  <2>2. pages.record = None /\ pages.revs = {}
    BY <2>1, NoLast
  <2> QED BY <1>1, <2>1, <2>2 DEF OnDisk, WriterInv, AnswersKept
<1>2. CASE pages.head # None
  <2> DEFINE b == Writer!RevisionOf(pages.head)
  <2>1. pages.root
    BY <1>2 DEF WriterInv, PagesSound
  <2>2. Writer!Last # None
    BY <2>1, Settled
  <2>3. Writer!Last \in pages.revs /\ Writer!Ref(Writer!Last) = pages.head
    BY <2>2, Settled
  <2>4. b \in pages.revs /\ Writer!Ref(b) = pages.head
    BY <2>3 DEF Writer!RevisionOf
  <2>5. pages.head.num = b.num /\ pages.head.num = Writer!Last.num
    BY <2>3, <2>4 DEF Writer!Ref
  <2>6. RevisionSound(b) /\ b \in OnDisk
    BY <2>4 DEF WriterInv, Known, OnDisk
  <2>7. b # None
    BY <2>6 DEF RevisionSound
  <2> HIDE DEF b
  <2>8. /\ \A q \in OnDisk : q.num <= b.num
        /\ gone <= 2 => \A a \in answers : a.rev.num <= b.num
    BY <2>2, <2>5, Settled
  <2> QED BY <1>2, <2>4, <2>5, <2>6, <2>7, <2>8 DEF b
<1> QED BY <1>1, <1>2

(* What an import makes is a sound revision newer than all that is known.  *)
(* The head an import starts from leads to a revision.                     *)
LEMMA HeadTells ==
    ASSUME WriterInv, NoneIsNoRevision, NEW p \in Procs, task[p].op = "import", task[p].todo = <<>>,
           NEW b, b = IF pages.head = None THEN None ELSE Writer!RevisionOf(pages.head),
           NEW n, n = IF b = None THEN 1 ELSE b.num + 1
    PROVE  /\ b = None <=> pages.head = None
           /\ b = None \/ (RevisionSound(b) /\ b.num \in Nat /\ pages.head.num = b.num)
           /\ IF n = 1 THEN pages.head = None ELSE pages.head # None /\ pages.head.num = n - 1
<1>1. CASE pages.head = None
  BY <1>1
<1>2. CASE pages.head # None
  <2>1. b # None /\ RevisionSound(b) /\ pages.head.num = b.num
    BY <1>2, BaseIs
  <2>2. b.num \in Nat /\ b.num # 0
    BY <2>1, RevisionBound DEF RevisionSound
  <2> QED BY <1>2, <2>1, <2>2
<1> QED BY <1>1, <1>2

(* A row taken from the answer or from the base leads to its section.      *)
LEMMA RowTaken ==
    ASSUME NEW r, NEW a, NEW b, NEW i, NEW s, b = None \/ RevisionSound(b),
           r.rows[s].origin = IF s \in a.secs THEN a.input ELSE b.rows[s].origin,
           s \in a.secs =>
              /\ s \in Writer!Secs(a.input) /\ i.comp = a.input.comp
              /\ a.input = IF i.rows[s] = None THEN a.input ELSE i.rows[s],
           s \notin a.secs =>
              /\ b # None /\ s \in Writer!Secs(b.input) /\ i.comp = b.input.comp
              /\ b.rows[s].origin = IF i.rows[s] = None THEN a.input ELSE i.rows[s]
    PROVE  /\ r.rows[s].origin = IF i.rows[s] = None THEN a.input ELSE i.rows[s]
           /\ r.rows[s].origin.comp = i.comp /\ s \in Writer!Secs(r.rows[s].origin)
<1>1. CASE s \in a.secs
  BY <1>1
<1>2. CASE s \notin a.secs
  <2>1. r.rows[s].origin = b.rows[s].origin /\ s \in Writer!Secs(b.input) /\ RevisionSound(b)
    BY <1>2
  <2>2. b.rows[s].origin.comp = b.input.comp /\ s \in Writer!Secs(b.rows[s].origin)
    BY <2>1 DEF RevisionSound
  <2> QED BY <1>2, <2>1, <2>2
<1> QED BY <1>1, <1>2

LEMMA NewRevision ==
    ASSUME WriterInv, NoneIsNoRevision, NEW p \in Procs, task[p].op = "import", task[p].todo = <<>>,
           NEW a, a = task[p].resp, a.base = pages.head,
           NEW b, b = IF pages.head = None THEN None ELSE Writer!RevisionOf(pages.head),
           NEW i, i = Writer!Effective(a, b), i # None,
           NEW n, n = IF b = None THEN 1 ELSE b.num + 1, n <= MaxRevisions,
           NEW r, r # None, r.num = n, r.parent = a.base, r.resp = a, r.input = i,
           DOMAIN r.rows = Writer!Secs(i),
           \A s \in Writer!Secs(i) :
              r.rows[s].origin = IF s \in a.secs THEN a.input ELSE b.rows[s].origin
    PROVE  /\ RevisionSound(r)
           /\ \A q \in OnDisk : q.num < r.num
           /\ gone <= 2 => \A x \in answers : x.rev.num < r.num
           /\ r.parent = None \/ Writer!Stored(r.parent)
           /\ pages.record # r /\ r \notin pages.revs /\ pages.head # Writer!Ref(r)
           /\ Writer!Assembled(i) \/ i = a.input
<1>1. a.input # None /\ a.secs # {}
  BY Settled DEF TaskSound
<1>2. /\ b = None <=> pages.head = None
      /\ b = None \/ (RevisionSound(b) /\ b.num \in Nat /\ pages.head.num = b.num)
      /\ IF n = 1 THEN pages.head = None ELSE pages.head # None /\ pages.head.num = n - 1
  BY HeadTells
<1> HIDE DEF Writer!Effective
<1>3. n \in 1..MaxRevisions /\ n \in Nat
  BY <1>2, RevisionBound
<1>4. IF n = 1 THEN a.base = None ELSE a.base # None /\ a.base.num = n - 1
  BY <1>2
<1>5. /\ \A s \in Writer!Secs(i) :
            IF s \in a.secs
            THEN /\ s \in Writer!Secs(a.input) /\ i.comp = a.input.comp
                 /\ a.input = IF i.rows[s] = None THEN a.input ELSE i.rows[s]
            ELSE /\ b # None /\ s \in Writer!Secs(b.input) /\ i.comp = b.input.comp
                 /\ b.rows[s].origin = IF i.rows[s] = None THEN a.input ELSE i.rows[s]
      /\ Writer!Assembled(i) \/ i = a.input
  BY <1>1, <1>2, EffectiveIs
<1>6. \A s \in Writer!Secs(i) :
        /\ r.rows[s].origin = IF i.rows[s] = None THEN a.input ELSE i.rows[s]
        /\ r.rows[s].origin.comp = i.comp /\ s \in Writer!Secs(r.rows[s].origin)
  <2> TAKE s \in Writer!Secs(i)
  <2>1. r.rows[s].origin = IF s \in a.secs THEN a.input ELSE b.rows[s].origin
    OBVIOUS
  <2>2. /\ s \in a.secs =>
              /\ s \in Writer!Secs(a.input) /\ i.comp = a.input.comp
              /\ a.input = IF i.rows[s] = None THEN a.input ELSE i.rows[s]
        /\ s \notin a.secs =>
              /\ b # None /\ s \in Writer!Secs(b.input) /\ i.comp = b.input.comp
              /\ b.rows[s].origin = IF i.rows[s] = None THEN a.input ELSE i.rows[s]
    BY <1>5
  <2> QED BY <1>2, <2>1, <2>2, RowTaken
<1>7. RevisionSound(r)
  BY <1>1, <1>3, <1>4, <1>6 DEF RevisionSound
<1>8. \A q \in OnDisk : q.num < n
  <2>1. \A q \in OnDisk : q.num \in Nat
    BY RevisionBound DEF WriterInv, Known, RevisionSound
  <2> QED BY <1>2, <2>1, BaseIs
<1>9. gone <= 2 => \A x \in answers : x.rev.num < n
  <2>1. \A x \in answers : x.rev.num \in Nat
    BY RevisionBound DEF WriterInv, Known, RevisionSound
  <2> QED BY <1>2, <2>1, BaseIs
<1>10. a.base = None \/ Writer!Stored(a.base)
  BY BaseIs DEF Writer!Stored
<1>11. pages.record # r /\ r \notin pages.revs
  BY <1>3, <1>8 DEF OnDisk
<1>12. pages.head # Writer!Ref(r)
  <2>1. Writer!Ref(r).num = n /\ Writer!Ref(r) # None
    BY DEF Writer!Ref, NoneIsNoRevision
  <2> QED BY <1>2, <1>3, <2>1
<1> QED BY <1>5, <1>7, <1>8, <1>9, <1>10, <1>11, <1>12

(* What it writes is what is left of the revision, after its input.        *)
LEMMA NewWrites ==
    ASSUME NEW r, NEW t, NEW o, pages.record # r, r \notin pages.revs, pages.head # Writer!Ref(r),
           t \in BOOLEAN
    PROVE  /\ Left(r) = <<Writer!Put("record", r), Writer!Put("rev", r),
                          Writer!Put("head", Writer!Ref(r))>>
           /\ Left(r) # <<>> /\ Head(Left(r)) = Writer!Put("record", r)
           /\ Writer!If(t, o) \o Left(r) = IF t THEN <<o>> \o Left(r) ELSE Left(r)
<1> DEFINE x == Writer!Put("record", r)  y == Writer!Put("rev", r)
           z == Writer!Put("head", Writer!Ref(r))
<1>1. Left(r) = Writes(1, x, 1, y, 1, z)
  BY LeftIs DEF Needed
<1> HIDE DEF x, y, z
<1>2. Left(r) = <<x, y, z>>
  BY <1>1, ThreeWrites
<1>3. <<>> \o Left(r) = Left(r)
  BY <1>1, Prefixed
<1>4. Left(r) # <<>> /\ Head(Left(r)) = x
  BY <1>1, WritesLeft
<1> QED BY <1>2, <1>3, <1>4 DEF Writer!If, x, y, z

LEMMA DecideAdds ==
    ASSUME WriterInv, NoneIsNoRevision, NEW p \in Procs, task[p].op = "import", task[p].todo = <<>>,
           UNCHANGED <<pages, inputs, gone, lock, answers>>,
           NEW r, RevisionSound(r), r.resp = task[p].resp, \A q \in OnDisk : q.num < r.num,
           gone <= 2 => \A x \in answers : x.rev.num < r.num,
           r.parent = pages.head, r.parent = None \/ Writer!Stored(r.parent),
           pages.record # r, r \notin pages.revs, pages.head # Writer!Ref(r),
           Writer!Resolves(r.input), Writer!Assembled(r.input) \/ r.input = task[p].resp.input,
           NEW t, task' = [task EXCEPT ![p] = t], DOMAIN t = DOMAIN Writer!Idle,
           t.op = "imported", t.rev = r, t.resp = task[p].resp,
           t.todo = Writer!If(Writer!Assembled(r.input), Writer!Put("input", r.input)) \o Left(r)
    PROVE  WriterInv'
<1>1. lock = p /\ TaskSound(p) /\ Importing(p)
  BY Settled
<1>2. task'[p] = t /\ DOMAIN task' = Procs /\ \A q \in Procs \ {p} : task'[q] = task[q]
  BY DEF WriterInv
<1> DEFINE o == Writer!Put("input", r.input)
<1>3. /\ t.todo = IF Writer!Assembled(r.input) THEN <<o>> \o Left(r) ELSE Left(r)
      /\ Left(r) # <<>> /\ Head(Left(r)) = Writer!Put("record", r)
  <2>1. Writer!Assembled(r.input) \in BOOLEAN
    BY DEF Writer!Assembled
  <2> QED BY <2>1, NewWrites
<1>4. \A s : Left(s)' = Left(s) /\ (Writer!Stored(s)' <=> Writer!Stored(s))
  BY SamePages
<1>5. OnDisk' = OnDisk
  BY SamePages
<1>6. Adding(p, r)'
  BY <1>2, <1>3, <1>4, <1>5 DEF Adding, Writer!Ref, Writer!Put
<1>7. TaskSound(p)' /\ Importing(p)'
  BY <1>1, <1>2, <1>6 DEF TaskSound, Importing, Writer!Idle
<1>8. \A q \in Procs \ {p} : ~Importing(q)
  BY <1>1, Alone
<1>9. \A q \in Procs \ {p} : TaskSound(q)' /\ ~Importing(q)'
  BY <1>1, <1>2, <1>8, TaskStays DEF WriterInv, Importing
<1>10. Known' \subseteq OnDisk \cup {r} \cup {a.rev : a \in answers}
  BY <1>2, <1>5, <1>9 DEF Known, Makers, Importing
<1>11. /\ Known' \ Known \subseteq {r}
       /\ gone <= 2 => \A q \in Known' : q.num = r.num => q = r
  <2>1. r.num \in Nat
    BY RevisionBound DEF RevisionSound
  <2>2. \A q \in OnDisk \cup {a.rev : a \in answers} : q.num \in Nat
    BY RevisionBound DEF WriterInv, Known, RevisionSound
  <2>3. OnDisk \subseteq Known /\ {a.rev : a \in answers} \subseteq Known
    BY DEF Known
  <2>4. gone <= 2 => \A q \in OnDisk \cup {a.rev : a \in answers} : q.num # r.num
    BY <2>1, <2>2
  <2> QED BY <1>10, <2>3, <2>4
<1>12. ASSUME gone = 0 PROVE CallLoads(p)'
  <2>1. Writer!Loads(task[p].resp.input)
    BY <1>1, <1>12 DEF WriterInv, NothingMissing, CallLoads
  <2>2. Writer!Loads(t.resp.input)' /\ Writer!Resolves(r.input)'
    BY <2>1, InputsStay
  <2>3. CASE Writer!Assembled(r.input)
    <3>1. Head(<<o>> \o Left(r)) = o
      BY InputFirst
    <3>2. o # Writer!Put("record", r)
      BY DEF Writer!Put
    <3>3. t.todo # Left(r)
      BY <1>3, <2>3, <3>1, <3>2
    <3> QED BY <1>2, <1>4, <2>2, <3>3 DEF CallLoads
  <2>4. CASE r.input = task[p].resp.input
    <3>1. Writer!Has(r.input)'
      BY <2>1, <2>4, InputsStay DEF Writer!Loads
    <3> QED BY <1>2, <2>2, <3>1 DEF CallLoads
  <2> QED BY <2>3, <2>4
<1>13. gone = 0 => \A q \in Procs : CallLoads(q)'
  BY <1>9, <1>12 DEF CallLoads, Importing
<1>14. \A q \in Procs : TaskSound(q)'
  BY <1>7, <1>9
<1>15. InputsSound'
  BY DEF WriterInv, InputsSound
<1>16. \A q \in Known' \ Known :
          RevisionSound(q) /\ (gone <= 2 => \A s \in Known' : s.num = q.num => s = q)
  BY <1>11
<1> QED BY <1>2, <1>13, <1>14, <1>15, <1>16, DiskStays

LEMMA DecideSound == ASSUME WriterInv, NoneIsNoRevision, NEW p \in Procs, Writer!Decide(p)
PROVE  WriterInv'
<1> DEFINE a == task[p].resp
           b == IF pages.head = None THEN None ELSE Writer!RevisionOf(pages.head)
           i == Writer!Effective(a, b)
           n == IF b = None THEN 1 ELSE b.num + 1
           r == [num  |-> n, at |-> tick + 1, parent |-> a.base, resp |-> a, input |-> i,
                 rows |-> [s \in Writer!Secs(i) |->
                    IF s \in a.secs THEN [origin |-> a.input, by |-> tick + 1] ELSE b.rows[s]]]
           w == Writer!If(Writer!Assembled(i), Writer!Put("input", i))
                  \o <<Writer!Put("record", r), Writer!Put("rev", r),
                      Writer!Put("head", Writer!Ref(r))>>
           t == [task[p] EXCEPT !.op = "imported", !.rev = r, !.todo = w]
<1>1. /\ task[p].op = "import" /\ task[p].todo = <<>> /\ UNCHANGED <<pages, inputs, gone>>
      /\ lock = p /\ TaskSound(p)
  BY DEF Writer!Decide, WriterInv, TaskSound
<1>2. CASE Writer!Already(a) # {}
  <2>1. Writer!Leave(p)
    BY <1>2 DEF Writer!Decide
  <2>2. answers' = answers \cup
            {[resp |-> a, rev |-> q] : q \in {x \in Writer!Already(a) : Writer!Answers(x)}}
    BY <1>2 DEF Writer!Decide
  <2>3. ASSUME NEW q \in Writer!Already(a), Writer!Answers(q), NEW c, c = [resp |-> a, rev |-> q]
        PROVE  AnswerThere(c) /\ c.rev \in Known
    <3>1. q \in pages.revs /\ q.resp = a /\ c.rev = q /\ c.resp = a
          /\ c = [resp |-> c.rev.resp, rev |-> c.rev]
      BY <2>3 DEF Writer!Already
    <3>2. q \in OnDisk /\ q \in Known
      BY <3>1 DEF WriterInv, OnDisk, Known, RevisionSound
    <3>3. pages.head # None /\ q.num <= pages.head.num
      BY <2>3 DEF Writer!Answers
    <3>4. pages.root
      BY <3>3 DEF WriterInv, PagesSound
    <3>5. Writer!Last # None
      BY <1>1, <3>4, Settled
    <3>6. pages.record = Writer!Last /\ q.num <= Writer!Last.num
      BY <1>1, <3>2, <3>5, Settled
    <3> QED BY <3>1, <3>2, <3>3, <3>5, <3>6 DEF AnswerThere
  <2>4. answers \subseteq answers' /\ \A c \in answers' \ answers : AnswerThere(c)
        /\ c.rev \in Known
    BY <2>2, <2>3
  <2> QED BY <1>1, <2>1, <2>4, LeaveSound
<1>3. CASE /\ Writer!Already(a) = {}
           /\ ~(Writer!BaseCurrent(a) /\ i # None /\ Writer!Resolves(i))
  <2>1. Writer!Leave(p) /\ answers' = answers
    BY <1>3 DEF Writer!Decide
  <2> QED BY <1>1, <2>1, LeaveSound
<1>4. CASE Writer!Already(a) = {} /\ Writer!BaseCurrent(a) /\ i # None /\ Writer!Resolves(i)
  <2>1. /\ n <= MaxRevisions /\ lock' = lock /\ answers' = answers
        /\ task' = [task EXCEPT ![p].op = "imported", ![p].rev = r, ![p].todo = w]
    BY <1>4 DEF Writer!Decide
  <2>2. task' = [task EXCEPT ![p] = t]
    <3> HIDE DEF r, w
    <3> QED BY <2>1
  <2>3. /\ DOMAIN t = DOMAIN Writer!Idle /\ t.op = "imported" /\ t.rev = r /\ t.resp = a
             /\ t.todo = w
    BY <1>1 DEF TaskSound, Writer!Idle
  <2>4. a.base = pages.head
    BY <1>4 DEF Writer!BaseCurrent
  <2>5. r.resp = a /\ r.parent = a.base /\ r.input = i
    OBVIOUS
  <2> HIDE DEF Writer!Effective
  <2>6. /\ RevisionSound(r) /\ \A q \in OnDisk : q.num < r.num
        /\ gone <= 2 => \A x \in answers : x.rev.num < r.num
        /\ r.parent = None \/ Writer!Stored(r.parent)
        /\ pages.record # r /\ r \notin pages.revs /\ pages.head # Writer!Ref(r)
        /\ Writer!Assembled(i) \/ i = a.input
    <3>1. /\ a = task[p].resp /\ b = IF pages.head = None THEN None
               ELSE Writer!RevisionOf(pages.head)
          /\ i = Writer!Effective(a, b) /\ n = IF b = None THEN 1 ELSE b.num + 1
      OBVIOUS
    <3> HIDE DEF a, b, i, n
    <3>2. r = [num  |-> n, at |-> tick + 1, parent |-> a.base, resp |-> a, input |-> i,
               rows |-> [s \in Writer!Secs(i) |->
                  IF s \in a.secs THEN [origin |-> a.input, by |-> tick + 1] ELSE b.rows[s]]]
      OBVIOUS
    <3> HIDE DEF r
    <3>3. r # None
      BY <3>2 DEF NoneIsNoRevision
    <3>4. /\ r.num = n /\ r.parent = a.base /\ r.resp = a /\ r.input = i
          /\ DOMAIN r.rows = Writer!Secs(i)
          /\ \A s \in Writer!Secs(i) :
                r.rows[s].origin = IF s \in a.secs THEN a.input ELSE b.rows[s].origin
      BY <3>2
    <3>5. n <= MaxRevisions /\ i # None /\ task[p].op = "import" /\ task[p].todo = <<>>
      BY <1>1, <1>4, <2>1
    <3> QED BY <2>4, <3>1, <3>3, <3>4, <3>5, NewRevision
  <2> HIDE DEF r, t
  <2>7. w = Writer!If(Writer!Assembled(i), Writer!Put("input", i)) \o Left(r)
    <3>1. Left(r) = <<Writer!Put("record", r), Writer!Put("rev", r),
          Writer!Put("head", Writer!Ref(r))>>
      BY <2>6, NewWrites
    <3> QED BY <3>1
  <2>8. t.todo = Writer!If(Writer!Assembled(r.input), Writer!Put("input", r.input)) \o Left(r)
    BY <2>3, <2>5, <2>7
  <2>9. /\ r.resp = task[p].resp /\ t.resp = task[p].resp /\ r.parent = pages.head
        /\ Writer!Resolves(r.input)
        /\ Writer!Assembled(r.input) \/ r.input = task[p].resp.input
    BY <1>4, <2>3, <2>4, <2>5, <2>6
  <2> HIDE DEF w, i, b, n, a
  <2>10. /\ task[p].op = "import" /\ task[p].todo = <<>>
         /\ UNCHANGED <<pages, inputs, gone, lock, answers>>
    BY <1>1, <2>1
  <2>11. /\ DOMAIN t = DOMAIN Writer!Idle /\ t.op = "imported" /\ t.rev = r
    BY <2>3
  <2> QED BY <2>2, <2>6, <2>8, <2>9, <2>10, <2>11, DecideAdds
<1> QED BY <1>2, <1>3, <1>4

-----------------------------------------------------------------------------
(* One file is written                                                      *)

(* An input is kept before the revision that needs it.                     *)
LEMMA InputWritten ==
    ASSUME WriterInv, NoneIsNoRevision, NEW p \in Procs, NEW r, task[p].op = "imported",
           task[p].rev = r, task[p].todo = <<Writer!Put("input", r.input)>> \o Left(r),
           Writer!Persist(p)
    PROVE  WriterInv'
<1> DEFINE i == r.input  x == [doc |-> i, read |-> [s \in Writer!Secs(i) |-> i.comp]]
<1>1. lock = p /\ TaskSound(p) /\ Importing(p) /\ Adding(p, r)
  BY DEF WriterInv, TaskSound, Importing
<1>2. Head(task[p].todo) = Writer!Put("input", i) /\ Tail(task[p].todo) = Left(r)
  BY InputFirst
<1>3. Writer!Put("input", i).file = "input" /\ Writer!Put("input", i).val = i
  BY DEF Writer!Put
<1>4. /\ inputs' = IF ~Writer!Has(i) THEN inputs \cup {x} ELSE inputs
      /\ UNCHANGED <<pages, lock, gone, answers>>
      /\ task' = [task EXCEPT ![p].todo = Tail(@)]
  BY <1>2, <1>3 DEF Writer!Persist
<1>5. /\ DOMAIN task' = Procs /\ \A q \in Procs \ {p} : task'[q] = task[q]
      /\ task'[p] = [task[p] EXCEPT !.todo = Left(r)]
  BY <1>2, <1>4 DEF WriterInv
<1>6. /\ task'[p].todo = Left(r) /\ DOMAIN task'[p] = DOMAIN task[p]
      /\ task'[p].op = "imported" /\ task'[p].rev = r /\ task'[p].resp = task[p].resp
  BY <1>1, <1>5 DEF TaskSound, Writer!Idle
<1>7. i # None
  BY DEF WriterInv, Known, Makers, RevisionSound
<1>8. inputs \subseteq inputs' /\ InputsSound' /\ Writer!Has(i)'
  <2>1. x.doc = i /\ \A s \in DOMAIN x.read : x.read[s] = i.comp
    OBVIOUS
  <2> HIDE DEF x
  <2> QED BY <1>4, <1>7, <2>1 DEF WriterInv, InputsSound, Writer!Has
<1>9. /\ \A s : Left(s)' = Left(s) /\ (Writer!Stored(s)' <=> Writer!Stored(s))
      /\ OnDisk' = OnDisk
  BY <1>4, SamePages
<1>10. Adding(p, r)'
  BY <1>1, <1>4, <1>6, <1>9 DEF Adding, Writer!Ref
<1>11. TaskSound(p)' /\ Importing(p)'
  BY <1>1, <1>4, <1>6, <1>10 DEF TaskSound, Importing
<1>12. \A q \in Procs \ {p} : ~Importing(q)
  BY <1>1, Alone
<1>13. \A q \in Procs \ {p} : TaskSound(q)' /\ ~Importing(q)'
  BY <1>4, <1>5, <1>12, TaskStays DEF WriterInv, Importing
<1>14. Known' \subseteq Known
  BY <1>4, <1>6, <1>9, <1>13 DEF Known, Makers, Importing
<1>15. gone = 0 => \A q \in Procs : CallLoads(q)'
  <2>1. gone = 0 => CallLoads(p)
    BY DEF WriterInv, NothingMissing
  <2>2. gone = 0 => CallLoads(p)'
    BY <1>1, <1>6, <1>8, <2>1, InputsStay DEF CallLoads, Importing
  <2> QED BY <1>13, <2>2 DEF CallLoads, Importing
<1> QED BY <1>4, <1>5, <1>8, <1>11, <1>13, <1>14, <1>15, DiskStays

(* The record, the revision or the head of the newest revision.            *)
LEMMA FileWritten ==
    ASSUME WriterInv, NoneIsNoRevision, NEW p \in Procs, Importing(p), NEW r \in Known,
           task[p].todo = Left(r), Left(r) # <<>>, Writer!Persist(p),
           \A q \in OnDisk : q.num <= r.num, pages.head # None => pages.head.num <= r.num,
           gone <= 2 => \A a \in answers : a.rev.num <= r.num,
           gone = 0 => /\ Writer!Loads(r.input) /\ Writer!Loads(r.resp.input)
                       /\ r.parent = None \/ Writer!Stored(r.parent)
                       /\ pages.head \in {None, Writer!Ref(r), r.parent},
           \/ task[p].op = "import" /\ Writer!Last = r
           \/ task[p].op = "imported" /\ task[p].rev = r
    PROVE  WriterInv'
<1> DEFINE w == Head(Left(r))
<1>1. lock = p /\ TaskSound(p) /\ RevisionSound(r) /\ r # None /\ r.num \in Nat
  BY RevisionBound DEF WriterInv, TaskSound, Importing, RevisionSound
<1>2. /\ w.file = "record" => pages' = [pages EXCEPT !.record = w.val]
      /\ w.file = "rev" => pages' = [pages EXCEPT !.revs = @ \cup {w.val}, !.root = TRUE]
      /\ w.file = "head" => pages' = [pages EXCEPT !.head = w.val, !.root = TRUE]
  BY DEF Writer!Persist
<1>3. Writing(w) /\ DOMAIN pages = {"root", "record", "revs", "head"}
  BY <1>2 DEF Writing, WriterInv, PagesSound
<1>4. /\ Left(r)' = Tail(Left(r)) /\ DOMAIN pages' = DOMAIN pages /\ w.file # "input"
      /\ \/ /\ pages.record # r /\ pages'.record = r
            /\ pages'.revs = pages.revs /\ pages'.head = pages.head /\ pages'.root = pages.root
         \/ /\ pages.record = r /\ pages'.record = r
            /\ r \notin pages.revs /\ pages'.revs = pages.revs \cup {r}
            /\ pages'.head = pages.head /\ pages'.root = TRUE
         \/ /\ pages.record = r /\ pages'.record = r
            /\ r \in pages.revs /\ pages'.revs = pages.revs
            /\ pages.head # Writer!Ref(r) /\ pages'.head = Writer!Ref(r) /\ pages'.root = TRUE
  BY <1>3, LeftNext
<1>5. UNCHANGED <<inputs, lock, gone, answers>>
  BY <1>4 DEF Writer!Persist
<1>6. /\ DOMAIN task' = Procs /\ \A q \in Procs \ {p} : task'[q] = task[q]
      /\ task'[p] = [task[p] EXCEPT !.todo = Left(r)']
  BY <1>4 DEF WriterInv, Writer!Persist
<1>7. /\ task'[p].todo = Left(r)' /\ DOMAIN task'[p] = DOMAIN task[p]
      /\ task'[p].op = task[p].op /\ task'[p].rev = task[p].rev /\ task'[p].resp = task[p].resp
  BY <1>1, <1>6 DEF TaskSound, Writer!Idle
<1> HIDE DEF w
<1>8. /\ pages'.record = r /\ pages.revs \subseteq pages'.revs
           /\ pages'.revs \subseteq pages.revs \cup {r}
      /\ pages'.head \in {pages.head, Writer!Ref(r)} /\ (pages.root => pages'.root)
      /\ r \in pages'.revs \/ (pages'.head = pages.head /\ pages'.revs = pages.revs)
      /\ pages'.root = TRUE
           \/ (pages'.root = pages.root /\ pages'.head = pages.head /\ pages'.revs = pages.revs)
  BY <1>4
<1>9. OnDisk' \subseteq OnDisk \cup {r} /\ r \in OnDisk'
  BY <1>1, <1>8 DEF OnDisk
<1>10. /\ Writer!Ref(r) # None /\ Writer!Ref(r) = [num |-> r.num, at |-> r.at]
       /\ Writer!Ref(r).num = r.num /\ Writer!Ref(r)' = Writer!Ref(r)
  BY DEF NoneIsNoRevision, Writer!Ref
<1>11. \A s : Writer!Stored(s) => Writer!Stored(s)'
  BY <1>8 DEF Writer!Stored, Writer!Ref
<1>12. PagesSound'
  <2>1. pages'.root \in BOOLEAN
    BY <1>8 DEF WriterInv, PagesSound
  <2>2. pages'.head # None => /\ pages'.head = [num |-> pages'.head.num, at |-> pages'.head.at]
                              /\ pages'.head.num \in Nat
    BY <1>1, <1>8, <1>10 DEF WriterInv, PagesSound
  <2>3. pages'.head # None \/ pages'.revs # {} => pages'.root
    BY <1>8 DEF WriterInv, PagesSound
  <2>4. \A q \in pages'.revs : q.num <= r.num
    BY <1>1, <1>8 DEF OnDisk, WriterInv, Known, RevisionSound
  <2>5. pages'.head # None => pages'.head.num <= r.num
    BY <1>1, <1>8, <1>10
  <2> QED BY <1>4, <1>8, <2>1, <2>2, <2>3, <2>4, <2>5, <1>3 DEF PagesSound
<1>13. \A q \in Procs \ {p} : ~Importing(q)
  BY <1>1, Alone
<1>14. \A q \in Procs \ {p} : ~Importing(q)'
  BY <1>6, <1>13 DEF Importing
<1>15. \A q \in Procs \ {p} : TaskSound(q)'
  BY <1>5, <1>6, <1>13 DEF WriterInv, TaskSound, Importing
<1>16. Known' \subseteq Known
  BY <1>5, <1>7, <1>9, <1>13, <1>14 DEF Known, Makers, Importing
<1>17. TaskSound(p)'
  <2>1. CASE task[p].op = "import" /\ Writer!Last = r
    <3>1. Writer!Last' = r
      BY <1>1, <1>8 DEF Writer!Last
    <3>2. \A q \in pages'.revs : q.num <= r.num
      BY <1>1, <1>8 DEF OnDisk, WriterInv, Known, RevisionSound
    <3>3. pages'.head # None => pages'.head.num <= r.num
      BY <1>1, <1>8, <1>10
    <3>4. Left(Writer!Last)' = Left(r)'
      BY <3>1 DEF Left, Writer!Ref
    <3>5. Mending(p)'
      BY <1>1, <1>5, <1>7, <1>9, <3>1, <3>2, <3>3, <3>4 DEF Mending
    <3> QED BY <1>1, <1>5, <1>7, <2>1, <3>5 DEF TaskSound, Importing
  <2>2. CASE task[p].op = "imported" /\ task[p].rev = r
    <3>1. Adding(p, r)
      BY <1>1, <2>2 DEF TaskSound
    <3>2. \A q \in OnDisk' \ {r} : q.num < r.num
      BY <1>9, <3>1 DEF Adding
    <3>3. r \in pages'.revs \/ pages'.head # Writer!Ref(r)
      BY <1>8, <3>1 DEF Adding
    <3>4. Adding(p, r)'
      BY <1>5, <1>7, <1>8, <1>10, <1>11, <3>1, <3>2, <3>3 DEF Adding
    <3> QED BY <1>1, <1>5, <1>7, <2>2, <3>4 DEF TaskSound, Importing
  <2> QED BY <2>1, <2>2
<1>18. AnswersKept'
  <2>1. ASSUME NEW s \in Known PROVE Traceless(s)' <= Traceless(s)
    <3>1. /\ Needed(pages'.record = None) = 0
          /\ Needed(pages'.head = None) <= Needed(pages.head = None)
          /\ Needed(\A q \in pages'.revs : q.num < s.num)
               <= Needed(\A q \in pages.revs : q.num < s.num)
      BY <1>1, <1>8, <1>10 DEF Needed
    <3> QED BY <3>1 DEF Traceless, Needed
  <2>2. \A a \in answers : a.rev \in Known
    BY DEF Known
  <2>3. ASSUME gone <= 2, NEW a \in answers
        PROVE  /\ a.rev.num <= pages'.record.num
               /\ pages'.head # None => a.rev.num <= pages'.head.num
               /\ Traceless(a.rev)' <= gone
    <3>1. Traceless(a.rev) <= gone /\ (pages.head # None => a.rev.num <= pages.head.num)
      BY <2>3 DEF WriterInv, AnswersKept
    <3>2. Traceless(a.rev)' \in Nat /\ Traceless(a.rev) \in Nat /\ gone \in Nat
      BY DEF Traceless, Needed, WriterInv
    <3> QED BY <1>8, <1>10, <2>1, <2>2, <2>3, <3>1, <3>2
  <2> QED BY <1>5, <1>8, <1>16, <2>3 DEF AnswersKept, WriterInv
<1>19. gone = 0 => NothingMissing'
  <2> SUFFICES ASSUME gone = 0 PROVE NothingMissing'
    OBVIOUS
  <2>1. NothingMissing
    BY DEF WriterInv
  <2>2. \A j : Writer!Has(j)' = Writer!Has(j) /\ Writer!Resolves(j)' = Writer!Resolves(j)
               /\ Writer!Loads(j)' = Writer!Loads(j)
    BY <1>5 DEF Writer!Has, Writer!Resolves, Writer!Loads, Writer!Secs
  <2>3. \A q \in OnDisk' : /\ Writer!Loads(q.input)' /\ Writer!Loads(q.resp.input)'
                           /\ q.parent = None \/ Writer!Stored(q.parent)'
    BY <1>9, <1>11, <2>1, <2>2 DEF NothingMissing
  <2>4. ASSUME NEW n \in 1..r.num, r \in pages'.revs PROVE \E q \in pages'.revs : q.num = n
    <3>1. CASE n = r.num
      BY <2>4, <3>1
    <3>2. CASE n # r.num
      <4>1. r.num # 1 /\ r.parent # None /\ r.parent.num = r.num - 1
        BY <1>1, <3>2 DEF RevisionSound
      <4>2. PICK s \in pages.revs : Writer!Ref(s) = r.parent
        BY <4>1 DEF Writer!Stored
      <4>3. s.num = r.num - 1
        BY <4>1, <4>2 DEF Writer!Ref
      <4>4. n \in 1..s.num
        BY <1>1, <3>2, <4>3
      <4> QED BY <1>8, <2>1, <4>4 DEF NothingMissing
    <3> QED BY <3>1, <3>2
  <2>5. \A s \in pages'.revs : \A n \in 1..s.num : \E q \in pages'.revs : q.num = n
    BY <1>8, <2>1, <2>4 DEF NothingMissing
  <2>6. pages'.head \in {None, Writer!Ref(r), r.parent}
    BY <1>8
  <2>7. \A a \in answers' : a.rev \in pages'.revs
    BY <1>5, <1>8, <2>1 DEF NothingMissing
  <2>8. CallLoads(p)'
    BY <1>7, <2>1, <2>2 DEF NothingMissing, CallLoads, Importing, Writer!Loads
  <2>9. \A q \in Procs : CallLoads(q)'
    BY <1>14, <2>8 DEF CallLoads, Importing
  <2> QED BY <1>1, <1>8, <1>10, <2>3, <2>5, <2>6, <2>7, <2>9 DEF NothingMissing
<1>20. gone' \in Nat /\ InputsSound' /\ \A q \in Known' : RevisionSound(q)
  BY <1>5, <1>16 DEF WriterInv, InputsSound
<1> QED BY <1>5, <1>6, <1>12, <1>15, <1>17, <1>18, <1>19, <1>20 DEF WriterInv

LEMMA WrittenSound == ASSUME WriterInv, NoneIsNoRevision, NEW p \in Procs, Writer!Persist(p)
PROVE  WriterInv'
<1>1. /\ task[p].todo # <<>> /\ TaskSound(p) /\ Importing(p)
      /\ task[p].op \in {"import", "imported"}
  BY DEF Writer!Persist, WriterInv, TaskSound, Importing
<1>2. CASE task[p].op = "import"
  <2> DEFINE r == Writer!Last
  <2>1. Mending(p) /\ r # None /\ task[p].todo = Left(r)
    BY <1>1, <1>2 DEF TaskSound, Mending
  <2>2. /\ r \in OnDisk /\ r \in Known /\ r.num \in Nat
        /\ \A q \in OnDisk : q.num <= r.num
        /\ pages.record # None => r = pages.record
        /\ pages.record = None => r \in pages.revs
    BY <2>1, LastIs, RevisionBound DEF OnDisk, Known, RevisionSound
  <2>3. ASSUME gone = 0
        PROVE  /\ Writer!Loads(r.input) /\ Writer!Loads(r.resp.input)
               /\ r.parent = None \/ Writer!Stored(r.parent)
               /\ pages.head \in {None, Writer!Ref(r), r.parent}
    <3>1. NothingMissing
      BY <2>3 DEF WriterInv
    <3>2. pages.record # None
      BY <2>2, <3>1 DEF NothingMissing, WriterInv, PagesSound
    <3> QED BY <2>2, <3>1, <3>2 DEF NothingMissing
  <2>4. /\ pages.head # None => pages.head.num <= r.num
        /\ gone <= 2 => \A a \in answers : a.rev.num <= r.num
    BY <2>1 DEF Mending
  <2> DEFINE last == r
  <2> HIDE DEF r
  <2> QED BY <1>1, <1>2, <2>1, <2>2, <2>3, <2>4, FileWritten DEF r
<1>3. CASE task[p].op = "imported"
  <2> DEFINE r == task[p].rev
  <2>1. Adding(p, r) /\ r \in Known /\ RevisionSound(r)
    BY <1>1, <1>3 DEF TaskSound, WriterInv, Known, Makers
  <2>2. CASE task[p].todo = <<Writer!Put("input", r.input)>> \o Left(r)
    <3> HIDE DEF r
    <3> QED BY <1>3, <2>2, InputWritten DEF r
  <2>3. CASE task[p].todo = Left(r)
    <3>1. r.num \in Nat /\ \A q \in Known : q.num \in Nat
      BY <2>1, RevisionBound DEF RevisionSound, WriterInv
    <3>2. /\ \A q \in OnDisk : q.num <= r.num
          /\ gone <= 2 => \A a \in answers : a.rev.num <= r.num
      BY <2>1, <3>1 DEF Adding, Known
    <3>3. pages.head \in {None, Writer!Ref(r), r.parent}
      BY <2>1 DEF Adding
    <3>4. pages.head # None => pages.head.num <= r.num
      BY <2>1, <3>1, <3>3 DEF RevisionSound, Writer!Ref
    <3>5. ASSUME gone = 0
          PROVE  /\ Writer!Loads(r.input) /\ Writer!Loads(r.resp.input)
                 /\ r.parent = None \/ Writer!Stored(r.parent)
      <4>1. CallLoads(p)
        BY <3>5 DEF WriterInv, NothingMissing
      <4>2. Writer!Loads(task[p].resp.input) /\ Writer!Has(r.input) /\ Writer!Resolves(r.input)
        BY <1>1, <1>3, <2>3, <4>1 DEF CallLoads
      <4> QED BY <2>1, <4>2 DEF Adding, Writer!Loads
    <3> HIDE DEF r
    <3>6. task[p].rev = r
      BY DEF r
    <3> QED BY <1>1, <1>3, <2>1, <2>3, <3>2, <3>3, <3>4, <3>5, <3>6, FileWritten
  <2> QED BY <2>1, <2>2, <2>3 DEF Adding
<1> QED BY <1>1, <1>2, <1>3

(* A file is lost while nobody imports.                                    *)
LEMMA LossSound == ASSUME WriterInv, NoneIsNoRevision, Writer!Lose PROVE WriterInv'
<1>1. lock = None /\ gone' = gone + 1 /\ UNCHANGED <<lock, task, answers>>
  BY DEF Writer!Lose
<1>2. \A q \in Procs : ~Importing(q)
  BY <1>1 DEF WriterInv, TaskSound, Importing, NoneIsNoRevision
<1>3. DOMAIN pages = {"root", "record", "revs", "head"}
  BY DEF WriterInv, PagesSound
<1>4. /\ inputs' \subseteq inputs /\ DOMAIN pages' = DOMAIN pages /\ pages'.root = pages.root
      /\ \/ /\ pages'.record \in {pages.record, None} /\ pages'.revs = pages.revs
                 /\ pages'.head = pages.head
         \/ /\ pages'.record = pages.record /\ pages'.revs = pages.revs
                 /\ pages'.head \in {pages.head, None}
         \/ /\ pages'.record = pages.record /\ pages'.head = pages.head
            /\ \E r \in pages.revs : pages'.revs = pages.revs \ {r}
  BY <1>3 DEF Writer!Lose
<1>5. PagesSound'
  BY <1>3, <1>4 DEF WriterInv, PagesSound
<1>6. \A q \in Procs : TaskSound(q)'
  BY <1>1, <1>2 DEF WriterInv, TaskSound, Importing
<1>7. Known' \subseteq Known
  <2>1. OnDisk' \subseteq OnDisk
    BY <1>4 DEF OnDisk
  <2> QED BY <1>1, <1>2, <2>1 DEF Known, Makers, Importing
<1>8. AnswersKept'
  <2>1. \A s : Traceless(s)' <= Traceless(s) + 1
    <3>1. CASE pages'.revs = pages.revs
      BY <1>4, <3>1 DEF Traceless, Needed
    <3>2. CASE pages'.record = pages.record /\ pages'.head = pages.head
      BY <3>2 DEF Traceless, Needed
    <3> QED BY <1>4, <3>1, <3>2
  <2>2. gone \in Nat /\ (gone' <= 2 => gone <= 2)
    BY <1>1 DEF WriterInv
  <2>3. \A s : Traceless(s) \in Nat /\ Traceless(s)' \in Nat
    BY DEF Traceless, Needed
  <2>4. ASSUME gone' <= 2, NEW a \in answers
        PROVE  /\ pages'.record # None => a.rev.num <= pages'.record.num
               /\ pages'.head # None => a.rev.num <= pages'.head.num
               /\ Traceless(a.rev)' <= gone'
    <3>1. /\ pages.record # None => a.rev.num <= pages.record.num
          /\ pages.head # None => a.rev.num <= pages.head.num
          /\ Traceless(a.rev) <= gone
      BY <2>2, <2>4 DEF WriterInv, AnswersKept
    <3>2. Traceless(a.rev)' <= gone'
      BY <1>1, <2>1, <2>2, <2>3, <3>1
    <3> QED BY <1>4, <3>1, <3>2
  <2>5. gone' <= 2 => \A r, q \in Known' : r.num = q.num => r = q
    BY <1>7, <2>2 DEF WriterInv, AnswersKept
  <2>6. /\ answers' # {} => pages'.root
        /\ \A a \in answers' : a = [resp |-> a.rev.resp, rev |-> a.rev]
    BY <1>1, <1>4 DEF WriterInv, AnswersKept
  <2> QED BY <1>1, <2>4, <2>5, <2>6 DEF AnswersKept
<1>9. gone' \in Nat /\ gone' # 0 /\ InputsSound'
  BY <1>1, <1>4 DEF WriterInv, InputsSound
<1> QED BY <1>1, <1>5, <1>6, <1>7, <1>8, <1>9 DEF WriterInv

LEMMA RoundTripStep == ASSUME WriterInv, NoneIsNoRevision, [Writer!Next]_(Writer!vars)
PROVE  WriterInv'
<1>1. CASE \/ Writer!NewVersion \/ \E n \in 1..comps : Writer!Choose(n)
           \/ \E p \in Procs : \/ Writer!ExportSection(p) \/ Writer!Exported(p)
                               \/ \E secs \in SUBSET Outlines[selected] : Writer!Export(p, secs)
  BY <1>1, ExportsSound
<1>2. CASE Writer!Lose
  BY <1>2, LossSound
<1>3. ASSUME NEW p \in Procs,
             \/ Writer!Reconcile(p) \/ Writer!Decide(p) \/ Writer!Imported(p)
             \/ Writer!Persist(p) \/ Writer!Stops(p)
      PROVE  WriterInv'
  BY <1>3, ReconcileSound, DecideSound, ImportedSound, WrittenSound, StopSound
<1>4. ASSUME NEW p \in Procs, NEW a \in Writer!Responses, Writer!Import(p, a) PROVE WriterInv'
  BY <1>4, ImportSound
<1>5. CASE UNCHANGED Writer!vars
  <2>1. UNCHANGED <<inputs, pages, lock, task, gone, answers>>
    BY <1>5 DEF Writer!vars
  <2> QED BY <2>1, OutsideStep DEF WriterInv, InputsSound
<1> QED BY <1>1, <1>2, <1>3, <1>4, <1>5 DEF Writer!Next, Writer!Work, Writer!Ask

LEMMA RoundTripInit == ASSUME NoneIsNoRevision PROVE Writer!Init => WriterInv
<1> SUFFICES ASSUME Writer!Init PROVE WriterInv
  OBVIOUS
<1>1. /\ pages = [root |-> FALSE, record |-> None, revs |-> {}, head |-> None]
      /\ task = [p \in Procs |-> Writer!Idle] /\ gone = 0 /\ answers = {} /\ inputs = {}
  BY DEF Writer!Init
<1>2. \A p \in Procs : task[p] = Writer!Idle /\ ~Importing(p)
  BY <1>1 DEF Writer!Idle, Importing
<1>3. OnDisk = {} /\ Known = {}
  BY <1>1, <1>2 DEF OnDisk, Known, Makers, Importing
<1>4. PagesSound /\ InputsSound
  BY <1>1 DEF PagesSound, InputsSound
<1>5. \A p \in Procs : TaskSound(p)
  BY <1>2 DEF TaskSound, Writer!Idle, Importing
<1>6. AnswersKept
  BY <1>1, <1>3 DEF AnswersKept
<1>7. NothingMissing
  BY <1>1, <1>2, <1>3 DEF NothingMissing, CallLoads, Importing
<1> QED BY <1>1, <1>3, <1>4, <1>5, <1>6, <1>7 DEF WriterInv

-----------------------------------------------------------------------------
(* What is promised of the manuscripts                                      *)

(* The scope of a sound revision holds with its inputs there, its parent   *)
(* when that is stored.                                                    *)
LEMMA SoundHolds ==
    ASSUME NEW r, RevisionSound(r), Writer!Loads(r.input), Writer!Loads(r.resp.input),
           r.parent = None \/ Writer!Stored(r.parent)
    PROVE  Writer!ScopeHolds(r) /\ Writer!ParentHolds(r)
<1>1. Writer!ScopeHolds(r)
  BY DEF RevisionSound, Writer!ScopeHolds
<1>2. Writer!ParentHolds(r)
  BY DEF RevisionSound, Writer!ParentHolds
<1> QED BY <1>1, <1>2

LEMMA HeadLeads ==
    ASSUME NEW r, RevisionSound(r), r.parent = None \/ Writer!Stored(r.parent),
           pages.head \in {None, Writer!Ref(r), r.parent}
    PROVE  Writer!HeadLeadsTo(r)
<1>1. CASE pages.head \in {None, Writer!Ref(r)}
  BY <1>1 DEF Writer!HeadLeadsTo
<1>2. CASE pages.head = r.parent /\ r.parent # None
  <2>1. r.num \in Nat /\ r.num # 1 /\ r.parent.num = r.num - 1
    BY <1>2, RevisionBound DEF RevisionSound
  <2>2. PICK q \in pages.revs : Writer!Ref(q) = r.parent
    BY <1>2 DEF Writer!Stored
  <2> DEFINE m == r.num - 1  line == [n \in m..r.num |-> IF n = r.num THEN r ELSE q]
  <2>3. /\ m \in Int /\ m < r.num /\ m \in m..r.num /\ r.num \in m..r.num /\ m # r.num
        /\ \A n \in m..(r.num - 1) : n = m
    BY <2>1
  <2>4. line \in [m..r.num -> pages.revs \cup {r}]
    OBVIOUS
  <2>5. line[r.num] = r /\ line[m] = q
    BY <2>3
  <2>6. \A n \in m..(r.num - 1) : Writer!Ref(line[n]) = line[n + 1].parent
    <3>1. m + 1 = r.num
      BY <2>1
    <3> HIDE DEF line, m
    <3> QED BY <2>2, <2>3, <2>5, <3>1
  <2>7. pages.head.num = m
    BY <1>2, <2>1
  <2> HIDE DEF line, m
  <2> QED BY <1>2, <2>2, <2>3, <2>4, <2>5, <2>6, <2>7 DEF Writer!HeadLeadsTo
<1> QED BY <1>1, <1>2

LEMMA RevisionsRight == ASSUME NoneIsNoRevision, WriterInv PROVE RevisionsOnce
<1>1. Writer!RevisionsOnce
  <2> SUFFICES ASSUME gone <= 2, NEW a \in answers, NEW b \in answers,
                      a.rev.num = b.rev.num \/ a.resp = b.resp
               PROVE  a.rev = b.rev
    BY DEF Writer!RevisionsOnce
  <2>1. a.rev \in Known /\ b.rev \in Known /\ RevisionSound(a.rev) /\ RevisionSound(b.rev)
    BY DEF WriterInv, Known
  <2>2. CASE a.resp = b.resp
    <3>1. a.rev.resp = b.rev.resp
      BY <2>2 DEF WriterInv, AnswersKept
    <3>2. a.rev.parent = b.rev.parent
      BY <2>1, <3>1 DEF RevisionSound
    <3>3. a.rev.num \in Nat /\ b.rev.num \in Nat
      BY <2>1, RevisionBound DEF RevisionSound
    <3>4. a.rev.num = b.rev.num
      BY <2>1, <3>2, <3>3 DEF RevisionSound
    <3> QED BY <2>1, <3>4 DEF WriterInv, AnswersKept
  <2>3. CASE a.rev.num = b.rev.num
    BY <2>1, <2>3 DEF WriterInv, AnswersKept
  <2> QED BY <2>2, <2>3
<1>2. Writer!InputsPinned
  BY DEF WriterInv, InputsSound, Writer!InputsPinned
<1>3. Writer!SectionsFit
  <2>1. \A r \in pages.revs : RevisionSound(r)
    BY DEF WriterInv, Known, OnDisk
  <2> QED BY <2>1 DEF RevisionSound, Writer!SectionsFit
<1>4. ASSUME gone = 0 PROVE Writer!Reconcilable /\ \A a \in answers : Writer!Inspects(a.rev)
  <2>1. NothingMissing /\ \A r \in OnDisk : RevisionSound(r)
    BY <1>4 DEF WriterInv, Known
  <2>2. \A r \in OnDisk : Writer!ScopeHolds(r) /\ Writer!ParentHolds(r)
    BY <2>1, SoundHolds DEF NothingMissing
  <2>3. ASSUME Writer!Last = None PROVE Writer!Reconcilable
    <3>1. pages.record = None
      BY <2>3, NoLast
    <3> QED BY <2>1, <2>3, <3>1 DEF NothingMissing, Writer!Reconcilable, WriterInv, PagesSound
  <2>4. ASSUME Writer!Last # None PROVE Writer!Reconcilable
    <3>1. pages.record # None
      BY <2>1, <2>4, LastIs DEF NothingMissing, WriterInv, PagesSound
    <3>2. Writer!Last = pages.record /\ pages.record \in OnDisk
      BY <2>4, <3>1, LastIs
    <3>3. Writer!HeadLeadsTo(pages.record)
      BY <2>1, <3>1, <3>2, HeadLeads DEF NothingMissing
    <3>4. /\ Writer!ScopeHolds(Writer!Last) /\ Writer!ParentHolds(Writer!Last)
          /\ Writer!HeadLeadsTo(Writer!Last)
      <4> DEFINE r == pages.record
      <4>1. Writer!Last = r /\ Writer!ScopeHolds(r) /\ Writer!ParentHolds(r)
            /\ Writer!HeadLeadsTo(r)
        BY <2>2, <3>2, <3>3
      <4> QED BY <4>1
    <3> QED BY <2>4, <3>1, <3>4 DEF Writer!Reconcilable
  <2>5. ASSUME NEW a \in answers PROVE Writer!Inspects(a.rev)
    <3>1. a.rev \in pages.revs /\ a.rev.num \in Nat
      BY <2>1, RevisionBound DEF NothingMissing, RevisionSound, WriterInv, Known
    <3>2. \A r \in pages.revs : r \in OnDisk
      BY DEF OnDisk
    <3>3. \A n \in 1..(a.rev.num - 1) : n \in 1..a.rev.num
      BY <3>1
    <3>4. \A n \in 1..(a.rev.num - 1) : \E q \in pages.revs : q.num = n /\ Writer!ParentHolds(q)
      BY <2>1, <2>2, <3>1, <3>2, <3>3 DEF NothingMissing
    <3> QED BY <2>2, <3>1, <3>2, <3>4 DEF Writer!Inspects, Writer!Stored
  <2> QED BY <2>3, <2>4, <2>5
<1> QED BY <1>1, <1>2, <1>3, <1>4 DEF RevisionsOnce, Writer!AlwaysReconcilable

LEMMA WriterBehaves == Spec => Writer!Spec
<1>1. Init => Writer!Init
  BY DEF Init
<1>2. [Next]_<<service, writerVars, pressVars>> => [Writer!Next]_(Writer!vars)
  BY DEF Next, writerVars, Writer!vars
<1> QED BY <1>1, <1>2, PTL DEF Spec, Writer!Spec

(* No revision number is answered with two manuscripts and no response is  *)
(* imported twice, whatever dies and whichever two files are lost; every   *)
(* section stands with an input that asked for it; and deaths and failed   *)
(* writes alone leave a series that the next import can reconcile.         *)
THEOREM ManuscriptsOnce == ASSUME NoneIsNoRevision PROVE Spec => []RevisionsOnce
<1>1. Writer!Init => WriterInv
  BY RoundTripInit
<1>2. WriterInv /\ [Writer!Next]_(Writer!vars) => WriterInv'
  BY RoundTripStep
<1>3. WriterInv => RevisionsOnce
  BY RevisionsRight
<1> QED BY <1>1, <1>2, <1>3, WriterBehaves, PTL DEF Writer!Spec
=============================================================================
