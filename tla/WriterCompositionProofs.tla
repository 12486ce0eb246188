------------------------ MODULE WriterCompositionProofs ------------------------
(***************************************************************************)
(* Theorem about WriterComposition for every set of processes and bodies,  *)
(* wherever a process dies, a write fails or a file is lost.               *)
(***************************************************************************)
EXTENDS WriterComposition, SequenceTheorems, WellFoundedInduction, TLAPS

Says(d) == [body |-> d.body, base |-> d.base]

DiskSound ==
    /\ disk \in [root : BOOLEAN, record : {None} \cup Records, index : {None} \cup Refs,
                 state : {None} \cup Choices, version : [Versions -> {None} \cup Docs],
                 event : [Events -> {None} \cup Choices]]
    /\ \A n \in Present : disk.version[n].v = n
    /\ \A n \in Events : disk.event[n] # None => disk.event[n].n = n
    /\ (Present # {} \/ disk.index # None \/ disk.state # None) => disk.root
    /\ disk.record # None /\ disk.record.req # None => disk.record.req = Says(disk.record.doc)

(* The continuity record is never behind a version or the index.           *)
RecordAhead ==
    disk.record # None =>
        /\ \A n \in Present : n <= disk.record.doc.v
        /\ disk.index # None => disk.index.v <= disk.record.doc.v

(* A process with a call in progress holds the series lock.                *)
JobSound(p) ==
    /\ DOMAIN job[p] = {"op", "value", "todo", "doc"}
    /\ job[p].op \in {"idle", "resume", "restoring", "capturing", "selecting"}
    /\ job[p].op # "idle" <=> lock = p
    /\ job[p].op \in {"idle", "resume"} => job[p].todo = <<>>
    /\ job[p].op \in {"resume", "restoring", "capturing"} => job[p].value \in Values

ControlSound ==
    /\ DOMAIN job = Procs
    /\ lock \in {None} \cup Procs
    /\ \A p \in Procs : JobSound(p)

(* How many of the three files that hold a version number have lost it.    *)
Holds(test) == IF test THEN 0 ELSE 1
Missing(v) ==
    Holds(disk.record # None /\ disk.record.doc.v >= v)
      + Holds(\E n \in Present : n >= v)
      + Holds(disk.index # None /\ disk.index.v >= v)

(* What is on disk under the number of d is d.                             *)
Agrees(d) ==
    /\ disk.record # None /\ disk.record.doc.v = d.v => disk.record.doc = d
    /\ disk.version[d.v] \in {None, d}

AnswersSound ==
    /\ answers \subseteq [value : Values, doc : Docs]
    /\ AnswersTrue
    /\ \A a \in answers : Missing(a.doc.v) <= losses
    /\ losses <= 2 => \A a \in answers : Agrees(a.doc)
    /\ OneContentPerVersion

(* Nothing is on disk but, perhaps, a record that never came to a version. *)
Blank == disk.record = None /\ Present = {} /\ disk.index = None

(* The last capture is complete.                                           *)
Settled ==
    /\ disk.record # None
    /\ disk.version[disk.record.doc.v] = disk.record.doc
    /\ disk.index = Ref(disk.record.doc)

(* The document d may be announced.                                        *)
Announceable(d) ==
    /\ \/ Blank /\ ~disk.root /\ d.v = 1 /\ d.base = None
       \/ Settled /\ d.v = disk.record.doc.v + 1 /\ d.base = Ref(disk.record.doc)
    /\ losses <= 2 => \A a \in answers : a.doc.v < d.v

Restored(p) == Resumable /\ job[p].doc = Pending /\ job[p].todo = Restoring

Capturing(p) ==
    LET d == job[p].doc
        r == [doc |-> d, req |-> job[p].value]
    IN  /\ d \in Docs /\ job[p].value = Says(d)
        /\ \/ /\ job[p].todo = <<Write("record", r), Write("version", d), Write("index", Ref(d))>>
              /\ Announceable(d)
           \/ /\ disk.record = r
              /\ \/ /\ job[p].todo = <<Write("version", d), Write("index", Ref(d))>>
                    /\ disk.version[d.v] = None
                 \/ /\ job[p].todo = <<Write("index", Ref(d))>>
                    /\ disk.version[d.v] = d
                 \/ job[p].todo = <<>> /\ Settled

(* The choice x may be the next.                                           *)
Choosable(x, n) ==
    x \in Choices /\ (losses = 0 => x.n = n /\ RefOf(disk.version[x.ref.v]) = x.ref)

Selecting(p) ==
    \/ /\ Uncounted
       /\ job[p].todo = <<Write("repair", disk.event[Counted + 1])>>
    \/ \E x \in Choices :
       \/ /\ Uncounted /\ Choosable(x, Counted + 2)
          /\ job[p].todo = <<Write("repair", disk.event[Counted + 1]),
                             Write("event", x), Write("state", x)>>
       \/ /\ job[p].todo = <<Write("event", x), Write("state", x)>>
          /\ Choosable(x, Counted + 1)
       \/ /\ job[p].todo = <<Write("state", x)>>
          /\ Choosable(x, Counted + 1)
          /\ losses = 0 => disk.event[x.n] = x
    \/ job[p].todo = <<>>

ProcessSound(p) ==
    /\ job[p].op = "restoring" => Restored(p)
    /\ job[p].op = "capturing" => Capturing(p)
    /\ job[p].op = "selecting" => Selecting(p)

(* As long as no file is lost the versions up to the announced one are a   *)
(* chain, the index is at its end or one before, and so are the events and *)
(* the selection state.                                                    *)
ChainWhole ==
    /\ disk.record = None => Blank
    /\ disk.record # None =>
        LET k == disk.record.doc.v IN
        /\ \A n \in 1..(k - 1) : n \in Present
        /\ \A n \in Present : Linked(disk.version[n])
        /\ Linked(disk.record.doc)
        /\ disk.version[k] \in {None, disk.record.doc}
        /\ \/ disk.version[k] # None /\ disk.index = Ref(disk.record.doc)
           \/ disk.index = IF k = 1 THEN None ELSE Ref(disk.version[k - 1])

EventsWhole ==
    /\ disk.state # None => disk.event[disk.state.n] = disk.state
    /\ \A n \in Events : disk.event[n] # None => n <= Counted + 1 /\ EventSound(n)

Inv ==
    /\ DiskSound /\ RecordAhead /\ ControlSound /\ AnswersSound
    /\ clock \in Nat /\ losses \in Nat
    /\ \A p \in Procs : ProcessSound(p)
    /\ losses = 0 => ChainWhole /\ EventsWhole
Premises == BoundsAreNat /\ NoneIsApart

-----------------------------------------------------------------------------
(* Data                                                                    *)

LEMMA Nones ==
    ASSUME NoneIsApart
    PROVE  /\ None \notin Procs /\ None \notin Refs /\ None \notin Values
           /\ None \notin Docs /\ None \notin Records /\ None \notin Choices
BY DEF NoneIsApart

LEMMA RefIsRef ==
    ASSUME NEW d \in Docs
    PROVE  Ref(d) \in Refs /\ Ref(d).v = d.v /\ Says(d) \in Values
BY DEF Ref, Refs, Docs, Says, Values

(* Among version numbers that are present one is the newest.               *)
LEMMA Largest ==
    ASSUME NEW m \in Nat, NEW T \in SUBSET (1..m), T # {}
    PROVE  \E n \in T : \A k \in T : k <= n
<1> DEFINE R == OpToRel(<, Nat)
           U == {m - n : n \in T}
<1>1. U \in SUBSET Nat /\ U # {}
  <2>1. \A n \in T : m - n \in Nat
    OBVIOUS
  <2>2. PICK n \in T : TRUE
    OBVIOUS
  <2>3. m - n \in U
    BY <2>2
  <2> QED BY <2>1, <2>3
<1>2. PICK u \in U : \A w \in U : ~ (<<w, u>> \in R)
  <2> HIDE DEF R, U
  <2> QED BY <1>1, NatLessThanWellFounded, WFMin DEF R
<1>3. PICK n \in T : u = m - n
  BY <1>2
<1>4. ASSUME NEW k \in T PROVE k <= n
  <2>1. m - k \in U /\ m - k \in Nat /\ u \in Nat
    BY <1>1
  <2>2. ~ (<<m - k, u>> \in R)
    BY <1>2, <2>1
  <2>3. ~ (m - k < u)
    BY <2>1, <2>2 DEF OpToRel
  <2> QED BY <2>3, <1>3
<1> QED BY <1>4

LEMMA NewestIsNewest ==
    ASSUME BoundsAreNat, Present # {}
    PROVE  Newest \in Present /\ \A n \in Present : n <= Newest
<1>1. Present \in SUBSET (1..MaxVersion) /\ MaxVersion \in Nat
  BY DEF Present, Versions, BoundsAreNat
<1>2. \E n \in Present : \A k \in Present : k <= n
  BY <1>1, Largest
<1> QED BY <1>2 DEF Newest

-----------------------------------------------------------------------------
(* What is left of a list of writes                                        *)

LEMMA First ==
    ASSUME NEW S, NEW x \in S, NEW s \in Seq(S)
    PROVE  /\ <<x>> \o s \in Seq(S) /\ <<x>> \o s # <<>>
           /\ Head(<<x>> \o s) = x /\ Tail(<<x>> \o s) = s
<1> DEFINE t == <<x>> \o s
<1>1. <<x>> \in Seq(S) /\ Len(<<x>>) = 1 /\ <<x>>[1] = x
  OBVIOUS
<1>2. /\ t \in Seq(S) /\ Len(t) = 1 + Len(s)
      /\ \A i \in 1..Len(t) : t[i] = IF i <= 1 THEN <<x>>[i] ELSE s[i - 1]
  BY <1>1, ConcatProperties
<1> HIDE DEF t
<1>3. Len(s) \in Nat
  OBVIOUS
<1>4. t # <<>> /\ Head(t) = x
  BY <1>1, <1>2, <1>3
<1>5. /\ Tail(t) \in Seq(S) /\ Len(Tail(t)) = Len(t) - 1
      /\ \A i \in 1..Len(Tail(t)) : Tail(t)[i] = t[i + 1]
  BY <1>2, <1>4, HeadTailProperties
<1>6. Tail(t) = s
  <2>1. \A i \in 1..Len(Tail(t)) : Tail(t)[i] = s[i]
    BY <1>2, <1>3, <1>5
  <2> QED BY <2>1, <1>2, <1>3, <1>5, SeqEqual
<1> QED BY <1>2, <1>4, <1>6 DEF t

(* Up to three writes, each made only where it is needed.                  *)
Needed(test) == IF test THEN 1 ELSE 0
Writes(a, x, b, y, c, z) == If(a = 1, x) \o If(b = 1, y) \o If(c = 1, z)

LEMMA WritesLeft ==
    ASSUME NEW x, NEW y, NEW z, NEW a, NEW b, NEW c
    PROVE  /\ a = 1 => /\ Writes(a, x, b, y, c, z) # <<>>
                       /\ Head(Writes(a, x, b, y, c, z)) = x
                       /\ Tail(Writes(a, x, b, y, c, z)) = Writes(0, x, b, y, c, z)
           /\ a # 1 /\ b = 1 => /\ Writes(a, x, b, y, c, z) # <<>>
                                /\ Head(Writes(a, x, b, y, c, z)) = y
                                /\ Tail(Writes(a, x, b, y, c, z)) = Writes(0, x, 0, y, c, z)
           /\ a # 1 /\ b # 1 /\ c = 1 => /\ Writes(a, x, b, y, c, z) # <<>>
                                         /\ Head(Writes(a, x, b, y, c, z)) = z
                                         /\ Tail(Writes(a, x, b, y, c, z)) = <<>>
           /\ a # 1 /\ b # 1 /\ c # 1 => Writes(a, x, b, y, c, z) = <<>>
<1> DEFINE S == {x, y, z}  u == If(a = 1, x)  v == If(b = 1, y)  w == If(c = 1, z)
           s == Writes(a, x, b, y, c, z)
<1>1. u \in Seq(S) /\ v \in Seq(S) /\ w \in Seq(S)
  <2>1. <<>> \in Seq(S) /\ <<x>> \in Seq(S) /\ <<y>> \in Seq(S) /\ <<z>> \in Seq(S)
    OBVIOUS
  <2> HIDE DEF S
  <2> QED BY <2>1 DEF If
<1>2. s = u \o (v \o w) /\ <<>> \o v \o w = v \o w /\ <<>> \o <<>> \o w = w
  BY <1>1, ConcatAssociative, ConcatEmptySeq DEF Writes
<1>3. v \o w \in Seq(S)
  BY <1>1, ConcatProperties
<1>4. a = 1 => s # <<>> /\ Head(s) = x /\ Tail(s) = v \o w
  BY <1>2, <1>3, First DEF If
<1>5. a # 1 => s = v \o w
  BY <1>2, <1>3, ConcatEmptySeq DEF If
<1>6. a # 1 /\ b = 1 => s # <<>> /\ Head(s) = y /\ Tail(s) = w
  BY <1>5, <1>1, First DEF If
<1>7. a # 1 /\ b # 1 => s = w
  BY <1>5, <1>1, ConcatEmptySeq DEF If
<1>8. a # 1 /\ b # 1 /\ c = 1 => s # <<>> /\ Head(s) = z /\ Tail(s) = <<>>
  <2>1. <<z>> # <<>> /\ Head(<<z>>) = z /\ Tail(<<z>>) = <<>>
    OBVIOUS
  <2>2. c = 1 => w = <<z>>
    BY DEF If
  <2> QED BY <1>7, <2>1, <2>2
<1>9. Writes(0, x, b, y, c, z) = v \o w /\ Writes(0, x, 0, y, c, z) = w
  BY <1>2 DEF If, Writes
<1>10. a # 1 /\ b # 1 /\ c # 1 => s = <<>>
  BY <1>7 DEF If
<1> HIDE DEF s
<1> QED BY <1>4, <1>6, <1>8, <1>9, <1>10 DEF s

LEMMA Heads ==
    ASSUME NEW x, NEW y, NEW z
    PROVE  /\ Head(<<x>>) = x /\ Head(<<x, y>>) = x /\ Head(<<x, y, z>>) = x
           /\ Tail(<<x>>) = <<>> /\ Tail(<<x, y>>) = <<y>> /\ Tail(<<x, y, z>>) = <<y, z>>
OBVIOUS

LEMMA Three ==
    ASSUME NEW e, NEW x, NEW y
    PROVE  <<e>> \o <<x, y>> = <<e, x, y>> /\ <<>> \o <<x, y>> = <<x, y>>
<1> DEFINE S == {e, x, y}
<1>1. <<x, y>> \in Seq(S) /\ <<e>> \in Seq(S) /\ <<e, x, y>> \in Seq(S)
  OBVIOUS
<1>2. /\ <<e>> \o <<x, y>> \in Seq(S) /\ Len(<<e>> \o <<x, y>>) = 3
      /\ \A i \in 1..3 : (<<e>> \o <<x, y>>)[i] = IF i <= 1 THEN <<e>>[i] ELSE <<x, y>>[i - 1]
  BY <1>1, ConcatProperties
<1>3. \A i \in 1..3 : (<<e>> \o <<x, y>>)[i] = <<e, x, y>>[i]
  BY <1>2
<1>4. <<e>> \o <<x, y>> = <<e, x, y>>
  BY <1>1, <1>2, <1>3, SeqEqual
<1> QED BY <1>1, <1>4, ConcatEmptySeq

-----------------------------------------------------------------------------
(* Steps that change no file                                               *)

LEMMA InitSound == ASSUME Premises PROVE Init => Inv
<1> SUFFICES ASSUME Init PROVE Inv
  OBVIOUS
<1>1. DiskSound
  BY DEF Init, DiskSound, Present
<1>2. ControlSound
  BY Nones DEF Init, ControlSound, JobSound, Idle, Premises
<1>3. RecordAhead /\ AnswersSound
  BY DEF Init, RecordAhead, AnswersSound, AnswersTrue, OneContentPerVersion
<1>4. \A p \in Procs : ProcessSound(p)
  BY DEF Init, ProcessSound, Idle
<1>5. ChainWhole /\ EventsWhole
  BY DEF Init, ChainWhole, EventsWhole, Blank, Present
<1>6. clock \in Nat /\ losses \in Nat
  BY DEF Init
<1> QED BY <1>1, <1>2, <1>3, <1>4, <1>5, <1>6 DEF Inv

(* Only the holder of the lock is doing anything.                          *)
LEMMA OthersIdle ==
    ASSUME Premises, ControlSound, NEW p \in Procs, lock \in {None, p}, lock' \in {None, p},
           job' = [job EXCEPT ![p] = job'[p]]
    PROVE  \A q \in Procs \ {p} : JobSound(q)' /\ ProcessSound(q)'
<1> SUFFICES ASSUME NEW q \in Procs \ {p} PROVE JobSound(q)' /\ ProcessSound(q)'
  OBVIOUS
<1>1. job'[q] = job[q] /\ lock # q /\ lock' # q
  BY Nones DEF ControlSound, Premises
<1>2. job[q].op = "idle" /\ JobSound(q)
  BY <1>1 DEF ControlSound, JobSound
<1> QED BY <1>1, <1>2 DEF JobSound, ProcessSound

LEMMA Quiet ==
    ASSUME Premises, Inv, NEW p \in Procs, lock \in {None, p}, lock' \in {None, p},
           job' = [job EXCEPT ![p] = job'[p]], JobSound(p)', ProcessSound(p)',
           UNCHANGED <<disk, losses, answers>>, clock' \in Nat
    PROVE  Inv'
<1>1. ControlSound' /\ \A q \in Procs : ProcessSound(q)'
  BY OthersIdle DEF Inv, ControlSound
<1>2. DiskSound' /\ RecordAhead'
  BY DEF Inv, DiskSound, RecordAhead, Present
<1>3. AnswersSound'
  BY DEF Inv, AnswersSound, AnswersTrue, OneContentPerVersion, Missing, Agrees, Present
<1>4. (losses = 0 => ChainWhole /\ EventsWhole)'
  BY DEF Inv, ChainWhole, EventsWhole, Blank, Present, Linked, EventSound, Event, Counted
<1> QED BY <1>1, <1>2, <1>3, <1>4 DEF Inv

LEMMA Leaving ==
    ASSUME Premises, Inv, NEW p \in Procs, job[p].op # "idle", Leave(p)
    PROVE  /\ lock = p /\ lock' \in {None, p} /\ job' = [job EXCEPT ![p] = job'[p]]
           /\ JobSound(p)' /\ ProcessSound(p)'
<1>1. lock = p /\ lock' = None /\ p # None /\ p \in DOMAIN job
  BY Nones DEF Inv, ControlSound, JobSound, Leave, Premises
<1>2. job' = [job EXCEPT ![p] = Idle] /\ job'[p] = Idle
  BY <1>1 DEF Leave
<1> QED BY <1>1, <1>2 DEF JobSound, ProcessSound, Idle

LEMMA DiesSound == ASSUME Premises, Inv, NEW p \in Procs, Dies(p) PROVE Inv'
<1>1. job[p].op # "idle" /\ Leave(p) /\ UNCHANGED <<disk, losses, answers>> /\ clock' \in Nat
  BY DEF Dies, Inv
<1> QED BY <1>1, Leaving, Quiet

LEMMA ChosenSound == ASSUME Premises, Inv, NEW p \in Procs, Chosen(p) PROVE Inv'
<1>1. job[p].op # "idle" /\ Leave(p) /\ UNCHANGED <<disk, losses, answers>> /\ clock' \in Nat
  BY DEF Chosen, Inv, steady
<1> QED BY <1>1, Leaving, Quiet

(* A version that a capture may name is a reference.                       *)
LEMMA BasesAreRefs == ASSUME Inv PROVE Bases \subseteq {None} \cup Refs
<1>1. \A a \in answers : Ref(a.doc) \in Refs
  BY RefIsRef DEF Inv, AnswersSound
<1> QED BY <1>1 DEF Bases

LEMMA CaptureSound ==
    ASSUME Premises, Inv, NEW p \in Procs, NEW body \in Bodies, NEW base \in Bases,
           Capture(p, [body |-> body, base |-> base])
    PROVE  Inv'
<1> DEFINE value == [body |-> body, base |-> base]
<1>1. value \in Values
  BY BasesAreRefs DEF Values
<1>2. /\ lock = None /\ lock' = p /\ job' = [job EXCEPT ![p] = job'[p]]
      /\ job'[p] = [Idle EXCEPT !.op = "resume", !.value = value]
      /\ UNCHANGED <<disk, losses, answers>> /\ clock' \in Nat
  BY DEF Capture, Inv, ControlSound, steady
<1>3. JobSound(p)' /\ ProcessSound(p)'
  BY <1>1, <1>2 DEF JobSound, ProcessSound, Idle
<1> QED BY <1>2, <1>3, Quiet

LEMMA SameReading ==
    ASSUME UNCHANGED disk
    PROVE  Pending' = Pending /\ Resumable' = Resumable /\ Restoring' = Restoring
<1>1. Present' = Present
  BY DEF Present
<1>2. Newest' = Newest
  BY <1>1 DEF Newest
<1>3. Pending' = Pending
  BY <1>1, <1>2 DEF Pending
<1>4. \A d : Linked(d)' = Linked(d)
  BY DEF Linked
<1>5. OneChain' = OneChain
  BY <1>1, <1>4 DEF OneChain
<1>6. \A d : IndexLeadsTo(d)' = IndexLeadsTo(d)
  BY <1>4 DEF IndexLeadsTo
<1>7. Linked(Pending.doc)' = Linked(Pending.doc)
  BY <1>3, <1>4
<1>8. IndexLeadsTo(Pending.doc)' = IndexLeadsTo(Pending.doc)
  BY <1>3, <1>6
<1>9. Resumable' = Resumable
  BY <1>3, <1>5, <1>7, <1>8 DEF Resumable
<1>10. Restoring' = Restoring
  BY <1>3 DEF Restoring
<1> QED BY <1>3, <1>9, <1>10

LEMMA ResumeSound == ASSUME Premises, Inv, NEW p \in Procs, Resume(p) PROVE Inv'
<1>1. job[p].op = "resume" /\ UNCHANGED <<disk, losses, answers>> /\ clock' \in Nat
  BY DEF Resume, Inv, steady
<1>2. CASE Resumable
  <2>1. /\ lock = p /\ lock' = p /\ JobSound(p) /\ p \in DOMAIN job
        /\ job' = [job EXCEPT ![p] = [job[p] EXCEPT !.op = "restoring", !.todo = Restoring,
                                                    !.doc = Pending]]
    BY <1>1, <1>2 DEF Resume, Inv, ControlSound, JobSound
  <2>2. job' = [job EXCEPT ![p] = job'[p]]
    BY <2>1
  <2>3. /\ job'[p].op = "restoring" /\ job'[p].todo = Restoring /\ job'[p].doc = Pending
        /\ job'[p].value = job[p].value /\ DOMAIN job'[p] = {"op", "value", "todo", "doc"}
    BY <2>1 DEF JobSound
  <2>4. JobSound(p)'
    BY <1>1, <2>1, <2>3 DEF JobSound
  <2>5. ProcessSound(p)'
    BY <1>1, <1>2, <2>3, SameReading DEF ProcessSound, Restored
  <2> QED BY <1>1, <2>1, <2>2, <2>4, <2>5, Quiet
<1>3. CASE ~Resumable
  BY <1>1, <1>3, Leaving, Quiet DEF Resume
<1> QED BY <1>2, <1>3

-----------------------------------------------------------------------------
(* Captures: what was interrupted is complete, the next number is free     *)

LEMMA DiskTyped ==
    ASSUME Inv
    PROVE  /\ disk.record # None => disk.record \in Records /\ disk.record.doc \in Docs
           /\ disk.index # None => disk.index \in Refs /\ disk.index.v \in Versions
           /\ \A n \in Versions : disk.version[n] # None =>
                 disk.version[n] \in Docs /\ disk.version[n].v = n
           /\ Present \subseteq Versions
BY DEF Inv, DiskSound, Records, Refs, Present

LEMMA Restores ==
    ASSUME Pending # None
    PROVE  Restoring = Writes(Needed(disk.record = None), Write("record", Pending),
                              Needed(disk.version[Pending.doc.v] = None),
                              Write("version", Pending.doc),
                              Needed(disk.index # Ref(Pending.doc)),
                              Write("index", Ref(Pending.doc)))
<1>1. \A w : /\ If(Needed(disk.record = None) = 1, w) = If(disk.record = None, w)
             /\ If(Needed(disk.version[Pending.doc.v] = None) = 1, w)
                  = If(disk.version[Pending.doc.v] = None, w)
             /\ If(Needed(disk.index # Ref(Pending.doc)) = 1, w)
                  = If(disk.index # Ref(Pending.doc), w)
  BY DEF If, Needed
<1> QED BY <1>1 DEF Restoring, Writes

(* A reading that left nothing to restore is of a complete capture.        *)
LEMMA CompleteOrNone ==
    ASSUME Premises, Inv, NEW p \in Procs, Restored(p), job[p].todo = <<>>
    PROVE  \/ Pending = None /\ disk.record = None /\ Present = {}
           \/ Pending # None /\ Pending = disk.record /\ Settled
<1>1. CASE Pending = None
  <2>1. disk.record = None
    BY <1>1 DEF Pending
  <2>2. ASSUME Present # {} PROVE FALSE
    <3>1. Pending = [doc |-> disk.version[Newest], req |-> None]
      BY <2>1, <2>2 DEF Pending
    <3>2. disk.version[Newest] \in Docs
      BY <2>2, NewestIsNewest, DiskTyped DEF Present, Premises
    <3>3. Pending \in Records
      BY <3>1, <3>2 DEF Records
    <3> QED BY <3>3, <1>1, Nones DEF Premises
  <2> QED BY <1>1, <2>1, <2>2
<1>2. CASE Pending # None
  <2> DEFINE a == Needed(disk.record = None)
             b == Needed(disk.version[Pending.doc.v] = None)
             c == Needed(disk.index # Ref(Pending.doc))
             x == Write("record", Pending)
             y == Write("version", Pending.doc)
             z == Write("index", Ref(Pending.doc))
  <2>1. Writes(a, x, b, y, c, z) = <<>>
    BY <1>2, Restores DEF Restored
  <2> HIDE DEF a, b, c, x, y, z
  <2>2. a # 1 /\ b # 1 /\ c # 1
    BY <2>1, WritesLeft
  <2>3. disk.record # None /\ disk.version[Pending.doc.v] # None /\ disk.index = Ref(Pending.doc)
    BY <2>2 DEF a, b, c, Needed
  <2>4. Pending = disk.record
    BY <2>3 DEF Pending
  <2>5. disk.version[Pending.doc.v] = Pending.doc
    BY <2>3, <1>2 DEF Restored, Resumable
  <2> QED BY <2>3, <2>4, <2>5, <1>2 DEF Settled
<1> QED BY <1>1, <1>2

LEMMA SettledAtLatest ==
    ASSUME Premises, Inv, Settled
    PROVE  /\ Latest = disk.record.doc.v /\ Latest \in Versions
           /\ disk.version[Latest] = disk.record.doc
<1>1. disk.record.doc \in Docs /\ disk.record.doc.v \in Versions /\ Ref(disk.record.doc) \in Refs
      /\ disk.index.v = disk.record.doc.v
  BY DiskTyped, RefIsRef DEF Settled, Docs
<1>2. disk.index # None
  BY <1>1, Nones DEF Settled, Premises
<1>3. ~At(disk.index.v + 1)
  BY <1>1 DEF Inv, RecordAhead, Settled, At, Present, Versions, Premises, BoundsAreNat
<1> QED BY <1>1, <1>2, <1>3 DEF Latest, Unindexed, Settled

(* What was answered is not ahead of what is on disk, unless three files   *)
(* were lost.                                                              *)
LEMMA AnsweredBefore ==
    ASSUME Premises, Inv, losses <= 2, NEW a \in answers
    PROVE  Settled => a.doc.v <= disk.record.doc.v
<1> SUFFICES ASSUME Settled, ~(a.doc.v <= disk.record.doc.v) PROVE FALSE
  OBVIOUS
<1>1. Missing(a.doc.v) <= losses /\ a.doc.v \in Nat /\ losses \in Nat
  BY DEF Inv, AnswersSound, Docs, Versions, Premises, BoundsAreNat
<1>2. disk.record.doc.v \in Nat /\ disk.index.v = disk.record.doc.v
  BY DiskTyped, RefIsRef DEF Settled, Docs, Versions, Premises, BoundsAreNat
<1>3. \A n \in Present : n \in Nat /\ n <= disk.record.doc.v
  BY DEF Inv, RecordAhead, Settled, Present, Versions, Premises, BoundsAreNat
<1>4. /\ ~(disk.record # None /\ disk.record.doc.v >= a.doc.v)
      /\ ~(\E n \in Present : n >= a.doc.v)
      /\ ~(disk.index # None /\ disk.index.v >= a.doc.v)
  BY <1>1, <1>2, <1>3
<1>5. Missing(a.doc.v) = 3
  BY <1>4 DEF Missing, Holds
<1> QED BY <1>1, <1>5

LEMMA NothingAnswered ==
    ASSUME Premises, Inv, losses <= 2, Blank
    PROVE  answers = {}
<1> SUFFICES ASSUME NEW a \in answers PROVE FALSE
  OBVIOUS
<1>1. Missing(a.doc.v) <= losses /\ losses \in Nat
  BY DEF Inv, AnswersSound
<1>2. Missing(a.doc.v) = 3
  BY DEF Missing, Holds, Blank
<1> QED BY <1>1, <1>2

(* A complete capture may be answered, and again.                          *)
LEMMA NewAnswer ==
    ASSUME Premises, Inv, Settled, UNCHANGED <<disk, losses>>, NEW value \in Values,
           value = Says(disk.record.doc),
           answers' = answers \cup {[value |-> value, doc |-> disk.record.doc]}
    PROVE  AnswersSound'
<1> DEFINE d == disk.record.doc  x == [value |-> value, doc |-> d]
<1>1. d \in Docs /\ d.v \in Versions /\ d.v \in Nat /\ losses \in Nat
  BY DiskTyped DEF Settled, Docs, Inv, Versions, Premises, BoundsAreNat
<1>2. answers' \subseteq [value : Values, doc : Docs]
  BY <1>1 DEF Inv, AnswersSound
<1>3. AnswersTrue'
  <2>1. x.value = [body |-> x.doc.body, base |-> x.doc.base]
    BY DEF Says
  <2> HIDE DEF x
  <2> QED BY <2>1 DEF Inv, AnswersSound, AnswersTrue, x
<1>4. Missing(d.v) = 0
  <2>1. disk.index # None /\ disk.index.v = d.v
    BY <1>1, RefIsRef, Nones DEF Settled, Premises
  <2>2. d.v \in Present
    BY <1>1, Nones DEF Settled, Present, Premises
  <2> QED BY <1>1, <2>1, <2>2 DEF Missing, Holds, Settled
<1>5. \A a \in answers' : Missing(a.doc.v)' <= losses'
  <2>1. \A v : Missing(v)' = Missing(v)
    BY DEF Missing, Present
  <2> QED BY <1>1, <1>4, <2>1 DEF Inv, AnswersSound
<1>6. losses <= 2 => \A a \in answers' : Agrees(a.doc)'
  <2>1. Agrees(d)
    BY DEF Agrees, Settled
  <2>2. \A e : Agrees(e)' = Agrees(e)
    BY DEF Agrees
  <2> QED BY <2>1, <2>2 DEF Inv, AnswersSound
<1>7. OneContentPerVersion'
  <2>1. losses <= 2 => \A a \in answers : a.doc.v = d.v => a.doc = d
    BY DEF Inv, AnswersSound, Agrees, Settled
  <2> QED BY <2>1 DEF Inv, AnswersSound, OneContentPerVersion
<1> QED BY <1>2, <1>3, <1>5, <1>6, <1>7 DEF AnswersSound

(* A call that ends with an answer.                                        *)
LEMMA Answering ==
    ASSUME Premises, Inv, NEW p \in Procs, job[p].op # "idle", Leave(p), AnswersSound',
           UNCHANGED <<disk, losses, clock>>
    PROVE  Inv'
<1>1. ControlSound' /\ \A q \in Procs : ProcessSound(q)'
  BY Leaving, OthersIdle DEF Inv, ControlSound
<1>2. DiskSound' /\ RecordAhead' /\ clock' \in Nat
  BY DEF Inv, DiskSound, RecordAhead, Present
<1>3. (losses = 0 => ChainWhole /\ EventsWhole)'
  BY DEF Inv, ChainWhole, EventsWhole, Blank, Present, Linked, EventSound, Event, Counted
<1> QED BY <1>1, <1>2, <1>3 DEF Inv

LEMMA CapturedSound == ASSUME Premises, Inv, NEW p \in Procs, Captured(p) PROVE Inv'
<1>1. Capturing(p) /\ job[p].todo = <<>> /\ JobSound(p) /\ job[p].op = "capturing"
  BY DEF Captured, Inv, ProcessSound, ControlSound
<1>2. Settled /\ disk.record = [doc |-> job[p].doc, req |-> job[p].value]
      /\ job[p].value = Says(job[p].doc) /\ job[p].value \in Values
  BY <1>1 DEF Capturing, JobSound
<1>3. AnswersSound'
  BY <1>2, NewAnswer DEF Captured, steady
<1> QED BY <1>1, <1>3, Answering DEF Captured, steady

LEMMA DecideSound == ASSUME Premises, Inv, NEW p \in Procs, Decide(p) PROVE Inv'
<1> DEFINE value == job[p].value
           last  == job[p].doc
           doc   == [v |-> Latest + 1, at |-> clock + 1, body |-> value.body, base |-> value.base]
<1>1. /\ job[p].op = "restoring" /\ job[p].todo = <<>> /\ Restored(p) /\ JobSound(p)
      /\ lock = p /\ p \in DOMAIN job /\ value \in Values /\ last = Pending
  BY DEF Decide, Inv, ProcessSound, ControlSound, JobSound, Restored
<1>2. CASE last # None /\ SameRequest(value, last)
  <2>1. Settled /\ last = disk.record
    BY <1>1, <1>2, CompleteOrNone
  <2>2. value = Says(last.doc)
    <3>1. last.req = None \/ last.req = Says(last.doc)
      BY <2>1, <1>2 DEF Inv, DiskSound
    <3>2. value # None
      BY <1>1, Nones DEF Premises
    <3> QED BY <1>2, <3>1, <3>2 DEF SameRequest, Says
  <2>3. AnswersSound'
    BY <1>1, <1>2, <2>1, <2>2, NewAnswer DEF Decide
  <2> QED BY <1>1, <1>2, <2>3, Answering DEF Decide
<1>3. CASE ~(last # None /\ SameRequest(value, last)) /\ LatestSound /\ BaseCurrent(value)
  <2>1. /\ Latest < MaxVersion /\ clock' = clock + 1 /\ UNCHANGED <<lock, answers, disk, losses>>
        /\ job' = [job EXCEPT ![p] = [job[p] EXCEPT !.op = "capturing", !.doc = doc, !.todo =
              <<Write("record", [doc |-> doc, req |-> value]),
                Write("version", doc), Write("index", Ref(doc))>>]]
    BY <1>1, <1>3 DEF Decide
  <2>2. Latest \in 0..MaxVersion /\ Announceable(doc)
    <3>1. CASE Pending = None
      <4>1. disk.record = None /\ Present = {}
        BY <1>1, <3>1, CompleteOrNone
      <4>2. disk.index = None
        <5> SUFFICES ASSUME disk.index # None PROVE FALSE
          OBVIOUS
        <5>1. disk.index.v \in Versions /\ disk.version[disk.index.v] = None
          BY <4>1, DiskTyped DEF Present
        <5> QED BY <5>1, <1>3 DEF LatestSound, RefOf
      <4>3. Latest = 0 /\ Blank
        BY <4>1, <4>2 DEF Latest, Blank
      <4>4. losses <= 2 => answers = {}
        BY <4>3, NothingAnswered
      <4>5. ~disk.root /\ value.base = None
        BY <4>3, <1>3 DEF BaseCurrent
      <4> QED BY <4>3, <4>4, <4>5 DEF Announceable, Premises, BoundsAreNat
    <3>2. CASE Pending # None
      <4>1. Settled
        BY <1>1, <3>2, CompleteOrNone
      <4>2. /\ Latest = disk.record.doc.v /\ Latest \in 1..MaxVersion
            /\ disk.version[Latest] = disk.record.doc
        BY <4>1, SettledAtLatest DEF Versions
      <4>3. value.base = Ref(disk.record.doc)
        BY <4>2, <1>3 DEF BaseCurrent, Premises, BoundsAreNat
      <4>4. losses <= 2 => \A a \in answers : a.doc.v \in Nat /\ a.doc.v <= disk.record.doc.v
        BY <4>1, AnsweredBefore DEF Inv, AnswersSound, Docs, Versions, Premises, BoundsAreNat
      <4> QED BY <4>1, <4>2, <4>3, <4>4 DEF Announceable, Premises, BoundsAreNat
    <3> QED BY <3>1, <3>2
  <2>3. doc \in Docs /\ value = Says(doc)
    <3>1. Latest + 1 \in Versions /\ clock + 1 \in Nat
      BY <2>1, <2>2 DEF Versions, Inv, Premises, BoundsAreNat
    <3> QED BY <1>1, <3>1 DEF Docs, Values, Says
  <2>4. PICK d, w : d = doc /\ w = value
    OBVIOUS
  <2>5. /\ job'[p].op = "capturing" /\ job'[p].doc = d /\ job'[p].value = w
        /\ job'[p].todo = <<Write("record", [doc |-> d, req |-> w]),
                            Write("version", d), Write("index", Ref(d))>>
        /\ DOMAIN job'[p] = {"op", "value", "todo", "doc"}
        /\ job' = [job EXCEPT ![p] = job'[p]]
    BY <1>1, <2>1, <2>4 DEF JobSound
  <2>6. d \in Docs /\ w = Says(d) /\ w \in Values /\ Announceable(d)
    BY <1>1, <2>2, <2>3, <2>4
  <2>7. JobSound(p)'
    BY <1>1, <2>1, <2>5, <2>6 DEF JobSound
  <2>8. Announceable(d)'
    BY <2>1, <2>6 DEF Announceable, Blank, Settled, Present
  <2>9. ProcessSound(p)'
    BY <2>5, <2>6, <2>8 DEF ProcessSound, Capturing
  <2>10. clock' \in Nat
    BY <2>1 DEF Inv
  <2> QED BY <1>1, <2>1, <2>5, <2>7, <2>9, <2>10, Quiet
<1>4. CASE ~(last # None /\ SameRequest(value, last)) /\ ~(LatestSound /\ BaseCurrent(value))
  <2>1. Leave(p) /\ UNCHANGED <<disk, losses, answers>> /\ clock' \in Nat
    BY <1>4 DEF Decide, Inv
  <2> QED BY <1>1, <2>1, Leaving, Quiet
<1> QED BY <1>2, <1>3, <1>4

-----------------------------------------------------------------------------
(* Selections                                                              *)

LEMMA EventsTyped ==
    ASSUME Premises, Inv
    PROVE  /\ Counted \in 0..MaxEvents
           /\ disk.state # None => disk.state \in Choices /\ disk.state.n \in Events
           /\ \A n \in Events : disk.event[n] # None =>
                 disk.event[n] \in Choices /\ disk.event[n].n = n
<1>1. disk.state # None => disk.state \in Choices /\ disk.state.n \in Events
  BY DEF Inv, DiskSound, Choices
<1>2. Counted \in 0..MaxEvents
  BY <1>1 DEF Counted, Events, Premises, BoundsAreNat
<1>3. \A n \in Events : disk.event[n] # None => disk.event[n] \in Choices /\ disk.event[n].n = n
  BY DEF Inv, DiskSound
<1> QED BY <1>1, <1>2, <1>3

LEMMA SelectSound ==
    ASSUME Premises, Inv, NEW p \in Procs, NEW n \in Present, Select(p, Ref(disk.version[n]))
    PROVE  Inv'
<1> PICK ref : ref = Ref(disk.version[n])
  OBVIOUS
<1> PICK next : next = [n |-> Selected + 1, ref |-> ref]
  OBVIOUS
<1>1. /\ job[p].op = "idle" /\ lock = None /\ lock' = p /\ RefOf(disk.version[ref.v]) = ref
      /\ UNCHANGED <<disk, losses, answers>> /\ clock' \in Nat
      /\ DOMAIN job = Procs /\ ref \in Refs
  BY RefIsRef, DiskTyped DEF Select, Inv, ControlSound, steady, Present
<1>2. Selected \in Nat /\ Selected = IF Uncounted THEN Counted + 1 ELSE Counted
  BY EventsTyped DEF Selected
<1>3. CASE job' = [job EXCEPT ![p] = [Idle EXCEPT !.op = "selecting", !.todo = CatchUp]]
  <2>1. /\ job' = [job EXCEPT ![p] = job'[p]] /\ DOMAIN job'[p] = {"op", "value", "todo", "doc"}
        /\ job'[p].op = "selecting" /\ job'[p].todo = CatchUp
    BY <1>1, <1>3 DEF Idle
  <2>2. JobSound(p)'
    BY <1>1, <2>1 DEF JobSound
  <2>3. CatchUp = IF Uncounted THEN <<Write("repair", disk.event[Counted + 1])>> ELSE <<>>
    BY DEF CatchUp, If
  <2>4. Uncounted' = Uncounted /\ Counted' = Counted
    BY <1>1 DEF Uncounted, Counted, Event
  <2>5. ProcessSound(p)'
    BY <1>1, <2>1, <2>3, <2>4 DEF ProcessSound, Selecting
  <2> QED BY <1>1, <2>1, <2>2, <2>5, Quiet
<1>4. CASE /\ next.n <= MaxEvents
           /\ job' = [job EXCEPT ![p] = [Idle EXCEPT !.op = "selecting", !.todo =
                    CatchUp \o <<Write("event", next), Write("state", next)>>]]
  <2>1. /\ job' = [job EXCEPT ![p] = job'[p]] /\ DOMAIN job'[p] = {"op", "value", "todo", "doc"}
        /\ job'[p].op = "selecting"
        /\ job'[p].todo = CatchUp \o <<Write("event", next), Write("state", next)>>
    BY <1>1, <1>4 DEF Idle
  <2>2. JobSound(p)'
    BY <1>1, <2>1 DEF JobSound
  <2>3. CatchUp \o <<Write("event", next), Write("state", next)>> =
          IF Uncounted THEN <<Write("repair", disk.event[Counted + 1]),
                              Write("event", next), Write("state", next)>>
          ELSE <<Write("event", next), Write("state", next)>>
    BY Three DEF CatchUp, If
  <2>4. Uncounted' = Uncounted /\ Counted' = Counted
    BY <1>1 DEF Uncounted, Counted, Event
  <2>5. next \in Choices
    BY <1>1, <1>2, <1>4 DEF Choices, Events, Premises, BoundsAreNat
  <2>6. Choosable(next, Selected + 1)'
    <3>1. Selected' = Selected
      BY <1>1 DEF Selected, Uncounted, Counted, Event
    <3> QED BY <1>1, <2>5, <3>1 DEF Choosable
  <2>7. Counted \in Nat
    BY EventsTyped
  <2>8. Selected + 1 = IF Uncounted THEN Counted + 2 ELSE Counted + 1
    BY <1>2, <2>7
  <2>9. Choosable(next, IF Uncounted THEN Counted + 2 ELSE Counted + 1)'
    BY <1>1, <2>4, <2>6, <2>8 DEF Choosable, Selected
  <2>10. Selecting(p)'
    <3>1. CASE Uncounted
      BY <1>1, <2>1, <2>3, <2>4, <2>5, <2>9, <3>1 DEF Selecting
    <3>2. CASE ~Uncounted
      BY <1>1, <2>1, <2>3, <2>4, <2>5, <2>9, <3>2 DEF Selecting
    <3> QED BY <3>1, <3>2
  <2>11. ProcessSound(p)'
    BY <2>1, <2>10 DEF ProcessSound
  <2> QED BY <1>1, <2>1, <2>2, <2>11, Quiet
<1> QED BY <1>3, <1>4 DEF Select

-----------------------------------------------------------------------------
(* Steps that change files                                                 *)

(* A step of the holder of the lock keeps the invariant if it keeps what   *)
(* is on disk in order.                                                    *)
LEMMA Moving ==
    ASSUME Premises, Inv, NEW p \in Procs, lock = p, lock' \in {None, p},
           job' = [job EXCEPT ![p] = job'[p]], JobSound(p)', ProcessSound(p)',
           UNCHANGED <<losses, clock>>, DiskSound', RecordAhead', AnswersSound',
           losses = 0 => ChainWhole' /\ EventsWhole'
    PROVE  Inv'
<1>1. ControlSound' /\ \A q \in Procs : ProcessSound(q)'
  BY OthersIdle DEF Inv, ControlSound
<1> QED BY <1>1 DEF Inv

(* Selections leave the versions alone.                                    *)
LEMMA VersionsStay ==
    ASSUME Inv, UNCHANGED <<disk.record, disk.version, disk.index, answers>>,
           losses' \in {losses, losses + 1}
    PROVE  RecordAhead' /\ AnswersSound' /\ (losses' = 0 => ChainWhole')
<1>1. Present' = Present
  BY DEF Present
<1>2. RecordAhead'
  BY <1>1 DEF Inv, RecordAhead
<1>3. losses \in Nat
  BY DEF Inv
<1>4. AnswersSound'
  <2>1. \A v : Missing(v)' = Missing(v)
    BY <1>1 DEF Missing
  <2>2. \A d : Agrees(d)' = Agrees(d)
    BY DEF Agrees
  <2>3. \A a \in answers : Missing(a.doc.v) \in Nat
    BY DEF Missing, Holds
  <2>4. \A a \in answers' : Missing(a.doc.v)' <= losses'
    BY <1>3, <2>1, <2>3 DEF Inv, AnswersSound
  <2>5. losses' <= 2 => losses <= 2
    BY <1>3
  <2>6. losses' <= 2 => \A a \in answers' : Agrees(a.doc)'
    BY <2>2, <2>5 DEF Inv, AnswersSound
  <2> QED BY <2>4, <2>5, <2>6 DEF Inv, AnswersSound, AnswersTrue, OneContentPerVersion
<1>5. losses' = 0 => ChainWhole'
  <2>1. losses' = 0 => ChainWhole
    BY <1>3 DEF Inv
  <2>2. ChainWhole' = ChainWhole
    BY <1>1 DEF ChainWhole, Blank, Linked
  <2> QED BY <2>1, <2>2
<1> QED BY <1>2, <1>4, <1>5

(* Which write comes first in a list tells how far its call has come.      *)
LEMMA RestoringFirst ==
    ASSUME Premises, Inv, NEW p \in Procs, job[p].op = "restoring", job[p].todo # <<>>
    PROVE  LET w == Head(job[p].todo) IN
           /\ Pending # None
           /\ \/ w = Write("record", Pending) /\ disk.record = None
              \/ /\ w = Write("version", Pending.doc) /\ disk.record # None
                 /\ disk.version[Pending.doc.v] = None
              \/ /\ w = Write("index", Ref(Pending.doc)) /\ disk.record # None
                 /\ disk.version[Pending.doc.v] # None /\ disk.index # Ref(Pending.doc)
<1>1. Restored(p)
  BY DEF Inv, ProcessSound
<1>2. Pending # None
  BY <1>1 DEF Restored, Restoring
<1> DEFINE a == Needed(disk.record = None)
           b == Needed(disk.version[Pending.doc.v] = None)
           c == Needed(disk.index # Ref(Pending.doc))
           x == Write("record", Pending)
           y == Write("version", Pending.doc)
           z == Write("index", Ref(Pending.doc))
<1>3. job[p].todo = Writes(a, x, b, y, c, z)
  BY <1>1, <1>2, Restores DEF Restored
<1> HIDE DEF a, b, c, x, y, z
<1>4. \/ a = 1 /\ Head(job[p].todo) = x
      \/ a # 1 /\ b = 1 /\ Head(job[p].todo) = y
      \/ a # 1 /\ b # 1 /\ c = 1 /\ Head(job[p].todo) = z
  BY <1>3, WritesLeft
<1> QED BY <1>2, <1>4 DEF a, b, c, x, y, z, Needed

LEMMA StateWrite ==
    ASSUME Premises, Inv, NEW p \in Procs, job[p].todo # <<>>, Head(job[p].todo).file = "state"
    PROVE  /\ job[p].op = "selecting"
           /\ \E x \in Choices : job[p].todo = <<Write("state", x)>> /\ Choosable(x, Counted + 1)
<1>1. JobSound(p) /\ ProcessSound(p)
  BY DEF Inv, ControlSound
<1>2. job[p].op # "restoring"
  BY RestoringFirst DEF Write
<1>3. job[p].op # "capturing"
  BY <1>1 DEF ProcessSound, Capturing, Write
<1>4. job[p].op = "selecting" /\ Selecting(p)
  BY <1>1, <1>2, <1>3 DEF JobSound, ProcessSound
<1>5. ASSUME NEW x \in Choices, job[p].todo = <<Write("event", x), Write("state", x)>>
      PROVE  FALSE
  <2>1. Head(job[p].todo) = Write("event", x)
    BY <1>5, Heads
  <2> QED BY <2>1 DEF Write
<1>6. job[p].todo # <<Write("repair", disk.event[Counted + 1])>>
  BY Heads DEF Write
<1>7. ASSUME NEW x \in Choices,
             job[p].todo = <<Write("repair", disk.event[Counted + 1]),
                             Write("event", x), Write("state", x)>>
      PROVE  FALSE
  <2>1. Head(job[p].todo) = Write("repair", disk.event[Counted + 1])
    BY <1>7, Heads
  <2> QED BY <2>1 DEF Write
<1> QED BY <1>4, <1>5, <1>6, <1>7 DEF Selecting

LEMMA WriteFailsSound == ASSUME Premises, Inv, NEW p \in Procs, WriteFails(p) PROVE Inv'
<1>1. /\ job[p].todo # <<>> /\ Leave(p) /\ UNCHANGED <<clock, losses, answers>>
      /\ clock' \in Nat /\ JobSound(p)
  BY DEF WriteFails, Inv, ControlSound
<1>2. job[p].op # "idle"
  BY <1>1 DEF JobSound
<1>3. CASE Head(job[p].todo).file # "state"
  <2>1. UNCHANGED disk
    BY <1>3 DEF WriteFails
  <2> QED BY <1>1, <1>2, <2>1, Leaving, Quiet
<1>4. CASE Head(job[p].todo).file = "state"
  <2>1. PICK x \in Choices : job[p].todo = <<Write("state", x)>> /\ Choosable(x, Counted + 1)
    BY <1>1, <1>4, StateWrite
  <2>2. x.n \in Events /\ disk' = [disk EXCEPT !.event[x.n] = None]
    BY <2>1, <1>4 DEF WriteFails, Write, Choices
  <2>3. DiskSound'
    BY <2>2 DEF Inv, DiskSound, Present
  <2>4. UNCHANGED <<disk.record, disk.version, disk.index, disk.state>> /\ Counted' = Counted
    BY <2>2 DEF Inv, DiskSound, Counted
  <2>5. losses = 0 => EventsWhole'
    <3> SUFFICES ASSUME losses = 0 PROVE EventsWhole'
      OBVIOUS
    <3>1. EventsWhole /\ x.n = Counted + 1 /\ Counted \in Nat
      BY <2>1, EventsTyped DEF Inv, Choosable
    <3>2. disk.state # None => disk.state.n # x.n /\ disk.state.n \in Events
      BY <3>1, EventsTyped DEF Counted
    <3>3. \A n \in Events : disk'.event[n] # None =>
              disk'.event[n] = disk.event[n] /\ disk.event[n] # None
      BY <2>2 DEF Inv, DiskSound
    <3>4. disk.state # None => disk'.event[disk.state.n] = disk.event[disk.state.n]
      BY <2>2, <3>2 DEF Inv, DiskSound
    <3> QED BY <2>4, <3>1, <3>3, <3>4 DEF EventsWhole, EventSound, Event
  <2>6. RecordAhead' /\ AnswersSound' /\ (losses = 0 => ChainWhole')
    BY <1>1, <2>4, VersionsStay
  <2> QED BY <1>1, <1>2, <2>3, <2>5, <2>6, Leaving, Moving
<1> QED BY <1>3, <1>4

-----------------------------------------------------------------------------
(* A lost file                                                             *)

LEMMA MissingCounts ==
    ASSUME NEW v
    PROVE  /\ Holds(disk.record # None /\ disk.record.doc.v >= v) \in {0, 1}
           /\ Holds(\E n \in Present : n >= v) \in {0, 1}
           /\ Holds(disk.index # None /\ disk.index.v >= v) \in {0, 1}
           /\ Missing(v) \in 0..3
<1> DEFINE a == Holds(disk.record # None /\ disk.record.doc.v >= v)
           b == Holds(\E n \in Present : n >= v)
           c == Holds(disk.index # None /\ disk.index.v >= v)
<1>1. a \in {0, 1} /\ b \in {0, 1} /\ c \in {0, 1}
  BY DEF Holds
<1>2. Missing(v) = a + b + c
  BY DEF Missing
<1> HIDE DEF a, b, c
<1>3. a + b + c \in 0..3
  BY <1>1
<1> QED BY <1>1, <1>2, <1>3 DEF a, b, c

LEMMA StillHeld ==
    ASSUME Premises, Inv, UNCHANGED <<losses, answers>>, \A v \in Nat : Missing(v)' <= Missing(v)
    PROVE  \A a \in answers' : Missing(a.doc.v)' <= losses'
<1>1. \A a \in answers : Missing(a.doc.v) <= losses /\ a.doc.v \in Nat /\ losses \in Nat
  BY DEF Inv, AnswersSound, Docs, Versions, Premises, BoundsAreNat
<1>2. \A v : Missing(v) \in 0..3
  BY MissingCounts
<1>3. \A v : Missing(v)' \in 0..3
  BY DEF Missing, Holds
<1> QED BY <1>1, <1>2, <1>3

(* With one file fewer the answers are as sound as the losses allow.       *)
LEMMA OneLost ==
    ASSUME Premises, Inv, losses' = losses + 1, UNCHANGED answers,
           \A v \in Nat : Missing(v)' <= Missing(v) + 1,
           disk'.record \in {None, disk.record},
           \A n \in Versions : disk'.version[n] \in {None, disk.version[n]}
    PROVE  AnswersSound'
<1>1. losses \in Nat /\ \A a \in answers : a.doc \in Docs /\ a.doc.v \in Nat /\ a.doc.v \in Versions
  BY DEF Inv, AnswersSound, Docs, Versions, Premises, BoundsAreNat
<1>2. \A a \in answers : Missing(a.doc.v) \in Nat /\ Missing(a.doc.v) <= losses
  <2>1. \A v : Missing(v) \in 0..3
    BY MissingCounts
  <2> QED BY <2>1 DEF Inv, AnswersSound
<1>3. \A v : Missing(v)' \in Nat
  <2>1. \A v : Missing(v)' \in 0..3
    BY DEF Missing, Holds
  <2> QED BY <2>1
<1>4. \A a \in answers' : Missing(a.doc.v)' <= losses'
  BY <1>1, <1>2, <1>3
<1>5. losses' <= 2 => \A a \in answers' : Agrees(a.doc)'
  <2> SUFFICES ASSUME losses' <= 2, NEW a \in answers PROVE Agrees(a.doc)'
    OBVIOUS
  <2>1. losses <= 2
    BY <1>1
  <2>2. Agrees(a.doc) /\ a.doc.v \in Versions
    BY <1>1, <2>1 DEF Inv, AnswersSound
  <2> QED BY <2>2 DEF Agrees
<1>6. OneContentPerVersion' /\ AnswersTrue' /\ answers' \subseteq [value : Values, doc : Docs]
  BY <1>1 DEF Inv, AnswersSound, OneContentPerVersion, AnswersTrue
<1> QED BY <1>4, <1>5, <1>6 DEF AnswersSound

LEMMA LoseSound == ASSUME Premises, Inv, Lose PROVE Inv'
<1>1. /\ lock = None /\ losses' = losses + 1 /\ losses \in Nat /\ clock \in Nat
      /\ UNCHANGED <<lock, job, clock, answers>>
  BY DEF Lose, Inv
<1>2. ControlSound' /\ \A q \in Procs : ProcessSound(q)'
  <2>1. \A q \in Procs : JobSound(q)'
    BY <1>1 DEF Inv, ControlSound, JobSound
  <2>2. \A q \in Procs : q # None
    BY Nones DEF Premises
  <2>3. \A q \in Procs : job'[q].op = "idle"
    BY <1>1, <2>1, <2>2 DEF JobSound
  <2> QED BY <1>1, <2>1, <2>3 DEF Inv, ControlSound, ProcessSound
<1>3. SUFFICES DiskSound' /\ RecordAhead' /\ AnswersSound'
  BY <1>1, <1>2 DEF Inv
<1>4. CASE disk' = [disk EXCEPT !.record = None]
  <2>1. Present' = Present
    BY <1>4 DEF Present, Inv, DiskSound
  <2>2. DiskSound' /\ RecordAhead'
    BY <1>4, <2>1 DEF Inv, DiskSound, RecordAhead
  <2>3. \A v \in Nat : Missing(v)' <= Missing(v) + 1
    BY <1>4, <2>1, MissingCounts DEF Missing, Holds, Inv, DiskSound
  <2>4. disk'.record \in {None, disk.record}
        /\ \A n \in Versions : disk'.version[n] \in {None, disk.version[n]}
    BY <1>4 DEF Inv, DiskSound
  <2> QED BY <1>1, <2>2, <2>3, <2>4, OneLost
<1>5. CASE disk' = [disk EXCEPT !.index = None]
  <2>1. Present' = Present
    BY <1>5 DEF Present, Inv, DiskSound
  <2>2. DiskSound' /\ RecordAhead'
    BY <1>5, <2>1 DEF Inv, DiskSound, RecordAhead
  <2>3. \A v \in Nat : Missing(v)' <= Missing(v) + 1
    BY <1>5, <2>1, MissingCounts DEF Missing, Holds, Inv, DiskSound
  <2>4. disk'.record \in {None, disk.record}
        /\ \A n \in Versions : disk'.version[n] \in {None, disk.version[n]}
    BY <1>5 DEF Inv, DiskSound
  <2> QED BY <1>1, <2>2, <2>3, <2>4, OneLost
<1>6. CASE disk' = [disk EXCEPT !.state = None]
  <2>1. UNCHANGED <<disk.record, disk.version, disk.index, answers>>
    BY <1>1, <1>6 DEF Inv, DiskSound
  <2>2. DiskSound'
    BY <1>6 DEF Inv, DiskSound, Present
  <2> QED BY <1>1, <2>1, <2>2, VersionsStay
<1>7. ASSUME NEW n \in Versions, disk' = [disk EXCEPT !.version[n] = None]
      PROVE  DiskSound' /\ RecordAhead' /\ AnswersSound'
  <2>1. Present' = Present \ {n}
    BY <1>7 DEF Present, Inv, DiskSound
  <2>2. /\ \A m \in Versions : disk'.version[m] = IF m = n THEN None ELSE disk.version[m]
        /\ disk'.record = disk.record /\ disk'.index = disk.index /\ disk'.root = disk.root
        /\ disk'.state = disk.state /\ disk'.event = disk.event
    BY <1>7 DEF Inv, DiskSound
  <2>3. disk'.version \in [Versions -> {None} \cup Docs]
    BY <1>7 DEF Inv, DiskSound
  <2>4. DiskSound'
    BY <1>7, <2>1, <2>2, <2>3 DEF Inv, DiskSound, Present
  <2>5. RecordAhead'
    BY <2>1, <2>2 DEF Inv, RecordAhead
  <2>6. \A v \in Nat : Missing(v)' <= Missing(v) + 1
    BY <2>2, MissingCounts DEF Missing, Holds
  <2>7. disk'.record \in {None, disk.record}
        /\ \A m \in Versions : disk'.version[m] \in {None, disk.version[m]}
    BY <2>2
  <2> QED BY <1>1, <2>4, <2>5, <2>6, <2>7, OneLost
<1>8. ASSUME NEW n \in Events, disk' = [disk EXCEPT !.event[n] = None]
      PROVE  DiskSound' /\ RecordAhead' /\ AnswersSound'
  <2>1. UNCHANGED <<disk.record, disk.version, disk.index, answers>>
    BY <1>1, <1>8 DEF Inv, DiskSound
  <2>2. disk'.event \in [Events -> {None} \cup Choices]
        /\ \A m \in Events : disk'.event[m] # None => disk'.event[m] = disk.event[m] /\ disk.event[m] # None
    BY <1>8 DEF Inv, DiskSound
  <2>3. DiskSound'
    BY <1>8, <2>2 DEF Inv, DiskSound, Present
  <2> QED BY <1>1, <2>1, <2>3, VersionsStay
<1> QED BY <1>4, <1>5, <1>6, <1>7, <1>8 DEF Lose, Without

-----------------------------------------------------------------------------
(* A written file                                                          *)

LEMMA Persisting ==
    ASSUME Premises, Inv, NEW p \in Procs, Persist(p)
    PROVE  /\ lock = p /\ lock' = p /\ job' = [job EXCEPT ![p] = job'[p]]
           /\ job'[p].op = job[p].op /\ job'[p].value = job[p].value /\ job'[p].doc = job[p].doc
           /\ job'[p].todo = Tail(job[p].todo) /\ job[p].todo # <<>>
           /\ job[p].op \in {"restoring", "capturing", "selecting"}
           /\ JobSound(p)' /\ UNCHANGED <<losses, clock, answers>>
           /\ disk' = Written(disk, Head(job[p].todo))
<1>1. JobSound(p) /\ p \in DOMAIN job
  BY DEF Inv, ControlSound
<1>2. /\ job[p].todo # <<>> /\ UNCHANGED <<losses, clock, answers, lock>>
      /\ disk' = Written(disk, Head(job[p].todo))
      /\ job' = [job EXCEPT ![p].op = job[p].op, ![p].todo = Tail(job[p].todo)]
  BY DEF Persist, Do, steady
<1>3. job[p].op \in {"restoring", "capturing", "selecting"} /\ lock = p
  BY <1>1, <1>2 DEF JobSound
<1>4. job' = [job EXCEPT ![p] = [job[p] EXCEPT !.op = job[p].op, !.todo = Tail(job[p].todo)]]
  BY <1>2
<1>5. /\ job'[p].op = job[p].op /\ job'[p].value = job[p].value /\ job'[p].doc = job[p].doc
      /\ job'[p].todo = Tail(job[p].todo) /\ DOMAIN job'[p] = {"op", "value", "todo", "doc"}
      /\ job' = [job EXCEPT ![p] = job'[p]]
  BY <1>1, <1>4 DEF JobSound
<1>6. JobSound(p)'
  BY <1>1, <1>2, <1>3, <1>5 DEF JobSound
<1> QED BY <1>2, <1>3, <1>5, <1>6

LEMMA WrittenIs ==
    ASSUME NEW d, NEW x
    PROVE  /\ Written(d, Write("record", x)) = [d EXCEPT !.record = x]
           /\ Written(d, Write("version", x)) =
                [d EXCEPT !.version[x.v] = IF @ = None THEN x ELSE @, !.root = TRUE]
           /\ Written(d, Write("index", x)) = [d EXCEPT !.index = x, !.root = TRUE]
           /\ Written(d, Write("event", x)) = [d EXCEPT !.event[x.n] = x, !.root = TRUE]
           /\ Written(d, Write("state", x)) = [d EXCEPT !.state = x, !.root = TRUE]
           /\ Written(d, Write("repair", x)) = [d EXCEPT !.state = x, !.root = TRUE]
BY DEF Written, Write

(* A continuity record at least as new as everything else.                 *)
LEMMA RecordWritten ==
    ASSUME Premises, Inv, NEW r \in Records, r.req \in {None, Says(r.doc)},
           \A n \in Present : n <= r.doc.v, disk.index # None => disk.index.v <= r.doc.v,
           disk.record # None => disk.record.doc.v <= r.doc.v,
           losses <= 2 => \A a \in answers : a.doc.v = r.doc.v => a.doc = r.doc,
           disk' = [disk EXCEPT !.record = r], UNCHANGED <<losses, answers>>
    PROVE  DiskSound' /\ RecordAhead' /\ AnswersSound'
<1>1. Present' = Present /\ r # None /\ r.doc \in Docs /\ r.doc.v \in Nat
  BY Nones DEF Present, Inv, DiskSound, Records, Docs, Versions, Premises, BoundsAreNat
<1>2. /\ disk'.record = r /\ disk'.index = disk.index /\ disk'.version = disk.version
      /\ disk'.root = disk.root /\ disk'.state = disk.state /\ disk'.event = disk.event
  BY DEF Inv, DiskSound
<1>3. DiskSound'
  BY <1>1 DEF Inv, DiskSound
<1>4. RecordAhead'
  BY <1>1, <1>2 DEF RecordAhead
<1>5. \A v \in Nat : Missing(v)' <= Missing(v)
  <2> SUFFICES ASSUME NEW v \in Nat PROVE Missing(v)' <= Missing(v)
    OBVIOUS
  <2>1. disk.record # None => disk.record.doc.v \in Nat
    BY DiskTyped DEF Docs, Versions, Premises, BoundsAreNat
  <2>2. disk.record # None /\ disk.record.doc.v >= v => disk'.record # None /\ disk'.record.doc.v >= v
    BY <1>1, <1>2, <2>1
  <2> QED BY <1>1, <1>2, <2>2, MissingCounts DEF Missing, Holds
<1>6. \A a \in answers' : Missing(a.doc.v)' <= losses'
  BY <1>5, StillHeld
<1>7. losses' <= 2 => \A a \in answers' : Agrees(a.doc)'
  BY <1>2 DEF Inv, AnswersSound, Agrees
<1>8. AnswersSound'
  BY <1>6, <1>7 DEF Inv, AnswersSound, AnswersTrue, OneContentPerVersion
<1> QED BY <1>3, <1>4, <1>8

(* Files that agree with the record and are not older than what they       *)
(* replace.                                                                *)
LEMMA VersionWritten ==
    ASSUME Premises, Inv, NEW d, disk.record # None, disk.record.doc = d,
           disk.version[d.v] = None,
           disk' = [disk EXCEPT !.version[d.v] = d, !.root = TRUE], UNCHANGED <<losses, answers>>
    PROVE  /\ d \in Docs /\ Present' = Present \cup {d.v}
           /\ disk'.record = disk.record /\ disk'.index = disk.index
           /\ \A n \in Versions : disk'.version[n] = IF n = d.v THEN d ELSE disk.version[n]
           /\ disk'.state = disk.state /\ disk'.event = disk.event
           /\ DiskSound' /\ RecordAhead' /\ AnswersSound'
           /\ losses = 0 => ChainWhole' /\ EventsWhole'
<1>1. d \in Docs /\ d.v \in Versions /\ d.v \in Nat /\ d # None
  BY DiskTyped, Nones DEF Docs, Versions, Premises, BoundsAreNat
<1>2. /\ disk'.record = disk.record /\ disk'.index = disk.index /\ disk'.root = TRUE
      /\ \A n \in Versions : disk'.version[n] = IF n = d.v THEN d ELSE disk.version[n]
      /\ disk'.version \in [Versions -> {None} \cup Docs]
      /\ disk'.state = disk.state /\ disk'.event = disk.event
      /\ DOMAIN disk' = DOMAIN disk
  BY <1>1 DEF Inv, DiskSound
<1>3. Present' = Present \cup {d.v}
  BY <1>1, <1>2 DEF Present
<1>4. DiskSound'
  <2>1. disk' \in [root : BOOLEAN, record : {None} \cup Records, index : {None} \cup Refs,
                   state : {None} \cup Choices, version : [Versions -> {None} \cup Docs],
                   event : [Events -> {None} \cup Choices]]
    BY <1>2 DEF Inv, DiskSound
  <2> QED BY <1>1, <1>2, <1>3, <2>1 DEF Inv, DiskSound, Present
<1>5. RecordAhead'
  BY <1>1, <1>2, <1>3 DEF Inv, RecordAhead
<1>6. \A v \in Nat : Missing(v)' <= Missing(v)
  <2> SUFFICES ASSUME NEW v \in Nat PROVE Missing(v)' <= Missing(v)
    OBVIOUS
  <2>1. (\E n \in Present : n >= v) => (\E n \in Present' : n >= v)
    BY <1>3
  <2> QED BY <1>2, <2>1, MissingCounts DEF Missing, Holds
<1>7. \A a \in answers' : Missing(a.doc.v)' <= losses'
  BY <1>6, StillHeld
<1>8. losses' <= 2 => \A a \in answers' : Agrees(a.doc)'
  <2>1. \A a \in answers : a.doc.v \in Versions
    BY DEF Inv, AnswersSound, Docs
  <2> QED BY <1>2, <2>1 DEF Inv, AnswersSound, Agrees
<1>9. AnswersSound'
  BY <1>7, <1>8 DEF Inv, AnswersSound, AnswersTrue, OneContentPerVersion
<1>10. ASSUME losses = 0 PROVE ChainWhole' /\ EventsWhole'
  <2>1. ChainWhole /\ EventsWhole
    BY <1>10 DEF Inv
  <2>2. \A e \in Docs : Linked(e) => Linked(e)'
    <3> SUFFICES ASSUME NEW e \in Docs, Linked(e) PROVE Linked(e)'
      OBVIOUS
    <3>1. e.v \in Nat /\ e.v # 1 => e.v - 1 \in Versions /\ disk.version[e.v - 1] # None
      BY DEF Linked, Docs, Versions, Premises, BoundsAreNat
    <3> QED BY <1>1, <1>2, <3>1 DEF Linked, Docs, Versions, Premises, BoundsAreNat
  <2>3. \A n \in Present' : Linked(disk.version[n])'
    <3> SUFFICES ASSUME NEW n \in Present' PROVE Linked(disk.version[n])'
      OBVIOUS
    <3>1. PICK e : e = disk'.version[n]
      OBVIOUS
    <3>2. e \in Docs /\ Linked(e)
      BY <1>1, <1>2, <1>3, <2>1, <3>1, DiskTyped DEF ChainWhole, Present
    <3>3. Linked(e)'
      BY <2>2, <3>2
    <3> QED BY <3>1, <3>3 DEF Linked
  <2>4. ChainWhole'
    <3> DEFINE k == d.v
    <3>1. \A n \in 1..(k - 1) : n \in Present'
      BY <1>3, <2>1 DEF ChainWhole
    <3>2. Linked(d)'
      BY <1>1, <2>1, <2>2 DEF ChainWhole
    <3>3. disk'.index = IF k = 1 THEN None ELSE Ref(disk'.version[k - 1])
      <4>1. disk.index = IF k = 1 THEN None ELSE Ref(disk.version[k - 1])
        BY <2>1 DEF ChainWhole
      <4>2. k # 1 => k - 1 \in Versions /\ k - 1 # k
        BY <1>1 DEF Versions, Premises, BoundsAreNat
      <4> QED BY <1>2, <4>1, <4>2
    <3>4. PICK r : r = disk.record
      OBVIOUS
    <3>5. disk'.record = r /\ r.doc = d /\ r # None /\ disk'.version[d.v] = d
      BY <1>1, <1>2, <3>4
    <3>6. Linked(disk.record.doc)'
      BY <3>2, <3>5 DEF Linked
    <3> QED BY <3>1, <2>3, <3>3, <3>5, <3>6 DEF ChainWhole
  <2>5. EventsWhole'
    <3>1. Counted' = Counted
      BY <1>2 DEF Counted
    <3>2. ASSUME NEW n \in Events, disk.event[n] # None PROVE EventSound(n)'
      <4>1. EventSound(n) /\ disk.event[n].ref \in Refs /\ disk.event[n].ref.v \in Versions
        BY <2>1, <3>2 DEF EventsWhole, Inv, DiskSound, Choices, Refs
      <4>2. disk.event[n].ref # None
        BY <4>1, Nones DEF Premises
      <4>3. disk.event[n].ref.v # d.v
        BY <4>1, <4>2 DEF EventSound, RefOf
      <4> QED BY <1>2, <4>1, <4>3 DEF EventSound, Event
    <3> QED BY <1>2, <2>1, <3>1, <3>2 DEF EventsWhole
  <2> QED BY <2>4, <2>5
<1> QED BY <1>1, <1>2, <1>3, <1>4, <1>5, <1>9, <1>10

LEMMA IndexWritten ==
    ASSUME Premises, Inv, NEW d, disk.record # None, disk.record.doc = d,
           disk.version[d.v] = d,
           disk' = [disk EXCEPT !.index = Ref(d), !.root = TRUE], UNCHANGED <<losses, answers>>
    PROVE  /\ d \in Docs
           /\ disk'.record = disk.record /\ disk'.index = Ref(d) /\ disk'.version = disk.version
           /\ disk'.state = disk.state /\ disk'.event = disk.event
           /\ DiskSound' /\ RecordAhead' /\ AnswersSound'
           /\ losses = 0 => ChainWhole' /\ EventsWhole'
<1>1. /\ d \in Docs /\ d.v \in Versions /\ d.v \in Nat /\ d # None
      /\ Ref(d) \in Refs /\ Ref(d).v = d.v /\ Ref(d) # None
  BY DiskTyped, RefIsRef, Nones DEF Docs, Versions, Premises, BoundsAreNat
<1>2. /\ disk'.record = disk.record /\ disk'.index = Ref(d) /\ disk'.version = disk.version
      /\ disk'.root = TRUE /\ disk'.state = disk.state /\ disk'.event = disk.event
  BY DEF Inv, DiskSound
<1>3. Present' = Present
  BY <1>2 DEF Present
<1>4. DiskSound'
  BY <1>1, <1>3 DEF Inv, DiskSound
<1>5. RecordAhead'
  BY <1>1, <1>2, <1>3 DEF Inv, RecordAhead
<1>6. \A v \in Nat : Missing(v)' <= Missing(v)
  <2> SUFFICES ASSUME NEW v \in Nat PROVE Missing(v)' <= Missing(v)
    OBVIOUS
  <2>1. disk.index # None => disk.index.v \in Nat /\ disk.index.v <= d.v
    BY DiskTyped DEF Inv, RecordAhead, Versions, Premises, BoundsAreNat
  <2>2. disk.index # None /\ disk.index.v >= v => disk'.index # None /\ disk'.index.v >= v
    BY <1>1, <1>2, <2>1
  <2> QED BY <1>2, <1>3, <2>2, MissingCounts DEF Missing, Holds
<1>7. \A a \in answers' : Missing(a.doc.v)' <= losses'
  BY <1>6, StillHeld
<1>8. AnswersSound'
  BY <1>2, <1>7 DEF Inv, AnswersSound, AnswersTrue, OneContentPerVersion, Agrees
<1>9. ASSUME losses = 0 PROVE ChainWhole' /\ EventsWhole'
  <2>1. ChainWhole /\ EventsWhole
    BY <1>9 DEF Inv
  <2>2. ChainWhole'
    BY <1>1, <1>2, <1>3, <2>1 DEF ChainWhole, Linked
  <2>3. EventsWhole'
    BY <1>2, <2>1 DEF EventsWhole, EventSound, Event, Counted
  <2> QED BY <2>2, <2>3
<1> QED BY <1>1, <1>2, <1>4, <1>5, <1>8, <1>9

-----------------------------------------------------------------------------
(* The writes of a call                                                    *)

(* What a reading promised is restored a file at a time.                   *)
LEMMA RestoreSound ==
    ASSUME Premises, Inv, NEW p \in Procs, job[p].op = "restoring", Persist(p)
    PROVE  Inv'
<1>1. /\ Resumable /\ Pending # None /\ job[p].doc = Pending /\ job[p].todo = Restoring
  BY Persisting, RestoringFirst DEF Inv, ProcessSound, Restored
<1>2. PICK r : r = Pending
  OBVIOUS
<1> DEFINE d == r.doc
           x == Write("record", r)
           y == Write("version", d)
           z == Write("index", Ref(d))
           todo == job[p].todo
<1>3. r # None /\ Linked(d) /\ IndexLeadsTo(d) /\ disk.version[d.v] \in {None, d}
  BY <1>1, <1>2 DEF Resumable
<1>4. todo = Writes(Needed(disk.record = None), x, Needed(disk.version[d.v] = None), y,
                    Needed(disk.index # Ref(d)), z)
  BY <1>1, <1>2, Restores
<1>5. disk.record # None => r = disk.record
  BY <1>2 DEF Pending
<1>6. ASSUME disk'.record = r, Linked(d)', IndexLeadsTo(d)', disk'.version[d.v] \in {None, d},
             Tail(todo) = Writes(Needed(disk'.record = None), x, Needed(disk'.version[d.v] = None), y,
                                 Needed(disk'.index # Ref(d)), z)
      PROVE  ProcessSound(p)'
  <2>1. Pending' = r
    BY <1>3, <1>6 DEF Pending
  <2>2. Resumable'
    <3>1. Linked(Pending.doc)' /\ IndexLeadsTo(Pending.doc)'
      BY <1>6, <2>1 DEF Linked, IndexLeadsTo
    <3> QED BY <1>3, <1>6, <2>1, <3>1 DEF Resumable
  <2>3. Restoring' = Tail(todo)
    <3>1. \A w : /\ If(Needed(disk'.record = None) = 1, w) = If(disk'.record = None, w)
                 /\ If(Needed(disk'.version[d.v] = None) = 1, w) = If(disk'.version[d.v] = None, w)
                 /\ If(Needed(disk'.index # Ref(d)) = 1, w) = If(disk'.index # Ref(d), w)
      BY DEF If, Needed
    <3>2. Restoring' = If(disk'.record = None, x) \o If(disk'.version[d.v] = None, y)
                         \o If(disk'.index # Ref(d), z)
      BY <1>3, <2>1 DEF Restoring
    <3> HIDE DEF x, y, z, todo
    <3> QED BY <1>6, <3>1, <3>2 DEF Writes
  <2> QED BY <1>1, <1>2, <2>1, <2>2, <2>3, Persisting DEF ProcessSound, Restored
<1>7. \/ Head(todo) = x /\ disk.record = None
      \/ Head(todo) = y /\ disk.record = r /\ disk.version[d.v] = None
      \/ Head(todo) = z /\ disk.record = r /\ disk.version[d.v] = d /\ disk.index # Ref(d)
  BY <1>2, <1>3, <1>5, RestoringFirst, Persisting
<1>8. CASE Head(todo) = x /\ disk.record = None
  <2>1. disk' = [disk EXCEPT !.record = r]
    <3>1. disk' = Written(disk, x)
      BY <1>8, Persisting
    <3> QED BY <3>1 DEF Written, Write
  <2>2. Present # {} /\ r = [doc |-> disk.version[Newest], req |-> None]
    BY <1>2, <1>3, <1>8 DEF Pending
  <2>3. Newest \in Present /\ (\A n \in Present : n <= Newest) /\ d = disk.version[Newest]
    BY <2>2, NewestIsNewest DEF Premises
  <2>4. d \in Docs /\ d.v = Newest /\ disk.version[d.v] = d /\ d.v \in Versions /\ r \in Records
    BY <2>2, <2>3, DiskTyped DEF Present, Records
  <2>5. disk.index # None => disk.index.v <= d.v
    <3>1. d.v \in Nat /\ (disk.index # None => disk.index.v \in Nat)
      BY <2>4, DiskTyped DEF Versions, Premises, BoundsAreNat
    <3> QED BY <1>3, <2>4, <3>1, RefIsRef DEF IndexLeadsTo
  <2>6. losses <= 2 => \A a \in answers : a.doc.v = d.v => a.doc = d
    <3>1. d # None
      BY <2>4, Nones DEF Premises
    <3> QED BY <2>4, <3>1 DEF Inv, AnswersSound, Agrees
  <2>7. DiskSound' /\ RecordAhead' /\ AnswersSound'
    BY <1>8, <2>1, <2>2, <2>3, <2>4, <2>5, <2>6, Persisting, RecordWritten
  <2>8. losses # 0
    BY <1>8, <2>2 DEF Inv, ChainWhole, Blank
  <2>9. /\ disk'.record = r /\ disk'.version = disk.version /\ disk'.index = disk.index
    BY <2>1 DEF Inv, DiskSound
  <2>10. Linked(d)' /\ IndexLeadsTo(d)'
    BY <1>3, <2>9 DEF Linked, IndexLeadsTo
  <2>11. Tail(todo) = Writes(Needed(disk'.record = None), x, Needed(disk'.version[d.v] = None), y,
                             Needed(disk'.index # Ref(d)), z)
    <3>1. Needed(disk.record = None) = 1 /\ Needed(disk'.record = None) = 0
      BY <1>3, <1>8, <2>9 DEF Needed
    <3> HIDE DEF todo, x, y, z
    <3> QED BY <1>4, <2>9, <3>1, WritesLeft
  <2>12. ProcessSound(p)'
    BY <1>3, <1>6, <2>9, <2>10, <2>11
  <2> QED BY <2>7, <2>8, <2>12, Persisting, Moving
<1>9. CASE Head(todo) = y /\ disk.record = r /\ disk.version[d.v] = None
  <2>1. disk' = [disk EXCEPT !.version[d.v] = d, !.root = TRUE]
    <3>1. disk' = Written(disk, y)
      BY <1>9, Persisting
    <3> QED BY <3>1, <1>9 DEF Written, Write
  <2>2. /\ d \in Docs /\ Present' = Present \cup {d.v}
        /\ disk'.record = disk.record /\ disk'.index = disk.index
        /\ \A n \in Versions : disk'.version[n] = IF n = d.v THEN d ELSE disk.version[n]
        /\ DiskSound' /\ RecordAhead' /\ AnswersSound'
        /\ losses = 0 => ChainWhole' /\ EventsWhole'
    BY <1>3, <1>9, <2>1, Persisting, VersionWritten
  <2>3. d.v \in Versions /\ d.v \in Nat /\ d # None
    BY <2>2, Nones DEF Docs, Versions, Premises, BoundsAreNat
  <2>4. \A e : e.v \in Versions /\ e.v - 1 # d.v /\ Linked(e) => Linked(e)'
    <3>1. \A e : e.v \in Versions /\ e.v # 1 => e.v - 1 \in Versions
      BY DEF Versions, Premises, BoundsAreNat
    <3> QED BY <2>2, <3>1 DEF Linked
  <2>5. Linked(d)' /\ d.v - 1 # d.v
    BY <1>3, <2>3, <2>4
  <2>6. IndexLeadsTo(d)'
    <3> SUFFICES ASSUME disk.index # None, disk.index # Ref(d) PROVE IndexLeadsTo(d)'
      BY <2>2 DEF IndexLeadsTo
    <3>1. /\ disk.index.v < d.v /\ disk.index.v \in Versions
          /\ \A n \in disk.index.v..(d.v - 1) : disk.version[n] # None
          /\ \A n \in (disk.index.v + 1)..(d.v - 1) : Linked(disk.version[n])
          /\ Ref(disk.version[disk.index.v]) = disk.index
      BY <1>3, DiskTyped DEF IndexLeadsTo
    <3>2. \A n \in disk.index.v..(d.v - 1) : n \in Versions /\ n # d.v /\ n - 1 # d.v
                                              /\ disk'.version[n] = disk.version[n]
      BY <2>2, <2>3, <3>1 DEF Versions, Premises, BoundsAreNat
    <3>3. ASSUME NEW n \in (disk.index.v + 1)..(d.v - 1) PROVE Linked(disk.version[n])'
      <4>1. n \in disk.index.v..(d.v - 1)
        BY <2>3, <3>1 DEF Versions, Premises, BoundsAreNat
      <4>2. PICK e : e = disk.version[n]
        OBVIOUS
      <4>3. Linked(e) /\ e # None /\ e.v = n
        BY <3>1, <3>2, <4>1, <4>2, DiskTyped
      <4>4. Linked(e)'
        BY <2>4, <3>2, <4>1, <4>3
      <4> QED BY <3>2, <4>1, <4>2, <4>4 DEF Linked
    <3>4. disk.index.v \in disk.index.v..(d.v - 1)
      BY <2>3, <3>1 DEF Versions, Premises, BoundsAreNat
    <3> QED BY <2>2, <3>1, <3>2, <3>3, <3>4 DEF IndexLeadsTo
  <2>7. Tail(todo) = Writes(Needed(disk'.record = None), x, Needed(disk'.version[d.v] = None), y,
                            Needed(disk'.index # Ref(d)), z)
    <3>1. /\ Needed(disk.record = None) = 0 /\ Needed(disk'.record = None) = 0
          /\ Needed(disk.version[d.v] = None) = 1 /\ Needed(disk'.version[d.v] = None) = 0
      BY <1>3, <1>9, <2>2, <2>3 DEF Needed
    <3>2. Needed(disk'.index # Ref(d)) = Needed(disk.index # Ref(d))
      BY <2>2
    <3> HIDE DEF todo, x, y, z
    <3> QED BY <1>4, <3>1, <3>2, WritesLeft
  <2>8. ProcessSound(p)'
    BY <1>3, <1>6, <1>9, <2>2, <2>3, <2>5, <2>6, <2>7
  <2> QED BY <2>2, <2>8, Persisting, Moving
<1>10. CASE Head(todo) = z /\ disk.record = r /\ disk.version[d.v] = d /\ disk.index # Ref(d)
  <2>1. disk' = [disk EXCEPT !.index = Ref(d), !.root = TRUE]
    <3>1. disk' = Written(disk, z)
      BY <1>10, Persisting
    <3> QED BY <3>1 DEF Written, Write
  <2>2. /\ d \in Docs /\ disk'.record = disk.record /\ disk'.index = Ref(d)
        /\ disk'.version = disk.version
        /\ DiskSound' /\ RecordAhead' /\ AnswersSound'
        /\ losses = 0 => ChainWhole' /\ EventsWhole'
    BY <1>3, <1>10, <2>1, Persisting, IndexWritten
  <2>3. d # None
    BY <2>2, Nones DEF Premises
  <2>4. Linked(d)' /\ IndexLeadsTo(d)'
    BY <1>3, <2>2 DEF Linked, IndexLeadsTo
  <2>5. Tail(todo) = Writes(Needed(disk'.record = None), x, Needed(disk'.version[d.v] = None), y,
                            Needed(disk'.index # Ref(d)), z)
    <3>1. /\ Needed(disk.record = None) = 0 /\ Needed(disk'.record = None) = 0
          /\ Needed(disk.version[d.v] = None) = 0 /\ Needed(disk'.version[d.v] = None) = 0
          /\ Needed(disk.index # Ref(d)) = 1 /\ Needed(disk'.index # Ref(d)) = 0
      BY <1>3, <1>10, <2>2, <2>3 DEF Needed
    <3> HIDE DEF todo, x, y, z
    <3>2. Writes(0, x, 0, y, 0, z) = <<>>
      BY WritesLeft
    <3> QED BY <1>4, <3>1, <3>2, WritesLeft, SMTT(30)
  <2>6. ProcessSound(p)'
    BY <1>3, <1>6, <1>10, <2>2, <2>4, <2>5
  <2> QED BY <2>2, <2>6, Persisting, Moving
<1> QED BY <1>7, <1>8, <1>9, <1>10

(* A capture writes its record, then the version, then the index.          *)
LEMMA AnnounceSound ==
    ASSUME Premises, Inv, NEW p \in Procs, job[p].op = "capturing", Persist(p)
    PROVE  Inv'
<1>1. /\ Capturing(p) /\ job[p].value \in Values
      /\ job'[p].op = "capturing" /\ job'[p].value = job[p].value /\ job'[p].doc = job[p].doc
      /\ job'[p].todo = Tail(job[p].todo) /\ job[p].todo # <<>>
      /\ disk' = Written(disk, Head(job[p].todo)) /\ UNCHANGED <<losses, clock, answers>>
  BY Persisting DEF Inv, ProcessSound, ControlSound, JobSound
<1>2. PICK d, r, value : d = job[p].doc /\ value = job[p].value /\ r = [doc |-> d, req |-> value]
  OBVIOUS
<1>3. /\ d \in Docs /\ d.v \in Versions /\ d.v \in Nat /\ d # None /\ value = Says(d)
      /\ r \in Records /\ r.doc = d /\ r.req = value /\ r # None
  BY <1>1, <1>2, Nones DEF Capturing, Docs, Records, Versions, Premises, BoundsAreNat
<1>4. /\ job'[p].op = "capturing" /\ job'[p].value = value /\ job'[p].doc = d
      /\ job'[p].todo = Tail(job[p].todo)
  BY <1>1, <1>2
<1>5. CASE /\ job[p].todo = <<Write("record", r), Write("version", d), Write("index", Ref(d))>>
           /\ Announceable(d)
  <2>1. /\ Head(job[p].todo) = Write("record", r)
        /\ Tail(job[p].todo) = <<Write("version", d), Write("index", Ref(d))>>
    BY <1>5, Heads
  <2>2. disk' = [disk EXCEPT !.record = r]
    <3>1. disk' = Written(disk, Write("record", r))
      BY <1>1, <2>1
    <3> QED BY <3>1 DEF Written, Write
  <2>3. /\ disk'.record = r /\ disk'.version = disk.version /\ disk'.index = disk.index
        /\ disk'.state = disk.state /\ disk'.event = disk.event
    BY <2>2 DEF Inv, DiskSound
  <2>4. disk.record # None => disk.record.doc.v \in Versions /\ disk.record.doc.v \in Nat
    BY DiskTyped DEF Docs, Versions, Premises, BoundsAreNat
  <2>5. \/ /\ disk.record = None /\ Present = {} /\ disk.index = None
           /\ d.v = 1 /\ d.base = None
        \/ /\ Settled /\ disk.record # None /\ d.v = disk.record.doc.v + 1
           /\ d.base = Ref(disk.record.doc)
    BY <1>5 DEF Announceable, Settled, Blank
  <2>6. /\ \A n \in Present : n <= d.v
        /\ disk.index # None => disk.index.v <= d.v
        /\ disk.record # None => disk.record.doc.v <= d.v
    <3>1. \A n \in Present : n \in Nat
      BY DEF Present, Versions, Premises, BoundsAreNat
    <3>2. disk.index # None => disk.index.v \in Nat
      BY DiskTyped DEF Versions, Premises, BoundsAreNat
    <3> QED BY <1>3, <2>4, <2>5, <3>1, <3>2 DEF Inv, RecordAhead
  <2>7. losses <= 2 => \A a \in answers : a.doc.v = d.v => a.doc = d
    BY <1>3, <1>5 DEF Announceable
  <2>8. DiskSound' /\ RecordAhead' /\ AnswersSound'
    BY <1>1, <1>3, <2>2, <2>6, <2>7, RecordWritten
  <2>9. disk.version[d.v] = None
    <3>1. d.v \notin Present
      BY <1>3, <2>4, <2>5 DEF Inv, RecordAhead
    <3> QED BY <1>3, <3>1 DEF Present
  <2>10. ProcessSound(p)'
    BY <1>2, <1>3, <1>4, <2>1, <2>3, <2>9 DEF ProcessSound, Capturing
  <2>11. ASSUME losses = 0 PROVE ChainWhole' /\ EventsWhole'
    <3>1. ChainWhole /\ EventsWhole
      BY <2>11 DEF Inv
    <3>2. Present' = Present /\ \A e : Linked(e)' = Linked(e)
      BY <2>3 DEF Present, Linked
    <3>3. EventsWhole'
      BY <2>3, <3>1 DEF EventsWhole, EventSound, Event, Counted
    <3>4. \A n \in Present : Linked(disk.version[n])'
      <4>1. \A n \in Present : Linked(disk.version[n])
        BY <2>5, <3>1 DEF ChainWhole
      <4> QED BY <2>3, <4>1 DEF Linked
    <3>5. \A n \in 1..(d.v - 1) : n \in Present'
      <4>1. CASE d.v = 1
        BY <4>1
      <4>2. CASE Settled /\ d.v = disk.record.doc.v + 1
        <5>1. disk.record.doc.v \in Present
          BY <2>4, <4>2, DiskTyped, Nones DEF Settled, Present, Premises
        <5>2. \A n \in 1..(disk.record.doc.v - 1) : n \in Present
          BY <3>1, <4>2 DEF ChainWhole, Settled
        <5>3. disk.record.doc.v \in Nat /\ d.v - 1 = disk.record.doc.v
          BY <2>4, <4>2 DEF Settled
        <5> QED BY <3>2, <5>1, <5>2, <5>3
      <4> QED BY <2>5, <4>1, <4>2
    <3>6. Linked(d) /\ disk.index = IF d.v = 1 THEN None ELSE Ref(disk.version[d.v - 1])
      <4>1. CASE disk.index = None /\ d.v = 1 /\ d.base = None
        BY <4>1 DEF Linked
      <4>2. CASE /\ Settled /\ disk.record # None /\ d.v = disk.record.doc.v + 1
                 /\ d.base = Ref(disk.record.doc)
        <5>1. d.v - 1 = disk.record.doc.v /\ d.v # 1
          BY <2>4, <4>2 DEF Versions, Premises, BoundsAreNat
        <5>2. disk.version[d.v - 1] = disk.record.doc /\ disk.record.doc # None
          BY <4>2, <5>1, DiskTyped, Nones DEF Settled, Premises
        <5> QED BY <4>2, <5>1, <5>2 DEF Linked, Settled
      <4> QED BY <2>5, <4>1, <4>2
    <3>7. Linked(d)'
      BY <3>2, <3>6
    <3>8. Linked(disk.record.doc)' /\ disk'.record.doc = d /\ disk'.record # None
      BY <1>3, <2>3, <3>7 DEF Linked
    <3>9. ChainWhole'
      BY <2>3, <2>9, <3>2, <3>4, <3>5, <3>6, <3>8 DEF ChainWhole
    <3> QED BY <3>3, <3>9
  <2> QED BY <2>8, <2>10, <2>11, Persisting, Moving
<1>6. CASE /\ disk.record = r /\ disk.version[d.v] = None
           /\ job[p].todo = <<Write("version", d), Write("index", Ref(d))>>
  <2>1. /\ Head(job[p].todo) = Write("version", d)
        /\ Tail(job[p].todo) = <<Write("index", Ref(d))>>
    BY <1>6, Heads
  <2>2. disk' = [disk EXCEPT !.version[d.v] = d, !.root = TRUE]
    <3>1. disk' = Written(disk, Write("version", d))
      BY <1>1, <2>1
    <3> QED BY <3>1, <1>6 DEF Written, Write
  <2>3. /\ disk'.record = disk.record
        /\ \A n \in Versions : disk'.version[n] = IF n = d.v THEN d ELSE disk.version[n]
        /\ DiskSound' /\ RecordAhead' /\ AnswersSound'
        /\ losses = 0 => ChainWhole' /\ EventsWhole'
    <3>1. /\ disk.record # None /\ disk.record = r /\ disk.version[r.doc.v] = None
          /\ disk' = [disk EXCEPT !.version[r.doc.v] = r.doc, !.root = TRUE]
          /\ UNCHANGED <<losses, answers>>
      BY <1>1, <1>3, <1>6, <2>2
    <3>2. /\ disk'.record = disk.record
          /\ \A n \in Versions : disk'.version[n] = IF n = r.doc.v THEN r.doc ELSE disk.version[n]
          /\ DiskSound' /\ RecordAhead' /\ AnswersSound'
          /\ losses = 0 => ChainWhole' /\ EventsWhole'
      BY <3>1, VersionWritten
    <3> QED BY <1>3, <3>2
  <2>4. disk'.record = r /\ disk'.version[d.v] = d
    BY <1>3, <1>6, <2>3
  <2>5. ProcessSound(p)'
    BY <1>2, <1>3, <1>4, <2>1, <2>4 DEF ProcessSound, Capturing
  <2> QED BY <2>3, <2>5, Persisting, Moving
<1>7. CASE /\ disk.record = r /\ disk.version[d.v] = d
           /\ job[p].todo = <<Write("index", Ref(d))>>
  <2>1. Head(job[p].todo) = Write("index", Ref(d)) /\ Tail(job[p].todo) = <<>>
    BY <1>7, Heads
  <2>2. disk' = [disk EXCEPT !.index = Ref(d), !.root = TRUE]
    <3>1. disk' = Written(disk, Write("index", Ref(d)))
      BY <1>1, <2>1
    <3> QED BY <3>1 DEF Written, Write
  <2>3. /\ disk'.record = disk.record /\ disk'.index = Ref(d) /\ disk'.version = disk.version
        /\ DiskSound' /\ RecordAhead' /\ AnswersSound'
        /\ losses = 0 => ChainWhole' /\ EventsWhole'
    BY <1>1, <1>3, <1>7, <2>2, IndexWritten
  <2>4. disk'.record = r /\ Settled'
    BY <1>3, <1>7, <2>3 DEF Settled
  <2>5. ProcessSound(p)'
    BY <1>2, <1>3, <1>4, <2>1, <2>4 DEF ProcessSound, Capturing
  <2> QED BY <2>3, <2>5, Persisting, Moving
<1> QED BY <1>1, <1>2, <1>5, <1>6, <1>7 DEF Capturing

(* A selection catches the state up, writes its event, then the state.     *)
LEMMA SelectionWrites ==
    ASSUME Premises, Inv, NEW p \in Procs, job[p].op = "selecting", Persist(p)
    PROVE  Inv'
<1>1. /\ Selecting(p) /\ job'[p].op = "selecting" /\ job'[p].todo = Tail(job[p].todo)
      /\ job[p].todo # <<>> /\ disk' = Written(disk, Head(job[p].todo))
      /\ UNCHANGED <<losses, clock, answers>>
  BY Persisting DEF Inv, ProcessSound
<1>2. Counted \in Nat
  BY EventsTyped
<1>3. ASSUME DiskSound', UNCHANGED <<disk.record, disk.version, disk.index>>, Selecting(p)',
             losses = 0 => EventsWhole'
      PROVE  Inv'
  <2>1. RecordAhead' /\ AnswersSound' /\ (losses = 0 => ChainWhole')
    BY <1>1, <1>3, VersionsStay
  <2>2. ProcessSound(p)'
    BY <1>1, <1>3 DEF ProcessSound
  <2> QED BY <1>3, <2>1, <2>2, Persisting, Moving
<1>4. CASE Uncounted /\ Head(job[p].todo) = Write("repair", disk.event[Counted + 1])
  <2>1. PICK e : e = disk.event[Counted + 1]
    OBVIOUS
  <2>2. e \in Choices /\ e.n = Counted + 1 /\ e.n \in Events /\ e # None
    BY <1>4, <2>1, EventsTyped DEF Uncounted, Event
  <2>3. disk' = [disk EXCEPT !.state = e, !.root = TRUE]
    <3>1. disk' = Written(disk, Write("repair", e))
      BY <1>1, <1>4, <2>1
    <3> QED BY <3>1 DEF Written, Write
  <2>4. /\ disk'.state = e /\ disk'.event = disk.event
        /\ UNCHANGED <<disk.record, disk.version, disk.index>>
    BY <2>3 DEF Inv, DiskSound
  <2>5. DiskSound'
    BY <2>2, <2>3 DEF Inv, DiskSound, Present
  <2>6. Counted' = Counted + 1
    BY <2>2, <2>4 DEF Counted
  <2>7. losses = 0 => EventsWhole'
    <3> SUFFICES ASSUME losses = 0 PROVE EventsWhole'
      OBVIOUS
    <3>1. EventsWhole
      BY DEF Inv
    <3>2. disk'.event[disk'.state.n] = disk'.state
      BY <2>1, <2>2, <2>4
    <3>3. \A n \in Events : disk'.event[n] # None => n <= Counted + 1 + 1 /\ EventSound(n)'
      BY <1>2, <2>4, <3>1 DEF EventsWhole, EventSound, Event, Events, Premises, BoundsAreNat
    <3> QED BY <2>6, <3>2, <3>3 DEF EventsWhole
  <2>8. Selecting(p)'
    <3>1. CASE job[p].todo = <<Write("repair", e)>>
      <4>1. job'[p].todo = <<>>
        BY <1>1, <3>1, Heads
      <4> QED BY <4>1 DEF Selecting
    <3>2. ASSUME NEW x \in Choices, Choosable(x, Counted + 2),
                 job[p].todo = <<Write("repair", e), Write("event", x), Write("state", x)>>
          PROVE  Selecting(p)'
      <4>1. job'[p].todo = <<Write("event", x), Write("state", x)>>
        BY <1>1, <3>2, Heads
      <4>2. Choosable(x, Counted + 1)'
        BY <1>1, <1>2, <2>4, <2>6, <3>2 DEF Choosable
      <4> QED BY <4>1, <4>2 DEF Selecting
    <3>3. \A x : Head(<<Write("event", x), Write("state", x)>>) # Head(job[p].todo)
                 /\ Head(<<Write("state", x)>>) # Head(job[p].todo)
      BY <1>4, Heads DEF Write
    <3> QED BY <1>1, <2>1, <3>1, <3>2, <3>3 DEF Selecting
  <2> QED BY <1>3, <2>4, <2>5, <2>7, <2>8
<1>5. ASSUME NEW x \in Choices, Choosable(x, Counted + 1),
             job[p].todo = <<Write("event", x), Write("state", x)>>
      PROVE  Inv'
  <2>1. Head(job[p].todo) = Write("event", x) /\ job'[p].todo = <<Write("state", x)>>
    BY <1>1, <1>5, Heads
  <2>2. disk' = [disk EXCEPT !.event[x.n] = x, !.root = TRUE] /\ x.n \in Events /\ x # None
    <3>1. disk' = Written(disk, Write("event", x))
      BY <1>1, <2>1
    <3>2. x.n \in Events /\ x # None
      BY Nones DEF Choices, Premises
    <3> QED BY <3>1, <3>2 DEF Written, Write
  <2>3. /\ disk'.state = disk.state /\ disk'.version = disk.version
        /\ \A n \in Events : disk'.event[n] = IF n = x.n THEN x ELSE disk.event[n]
        /\ UNCHANGED <<disk.record, disk.version, disk.index>>
    BY <2>2 DEF Inv, DiskSound
  <2>4. DiskSound'
    BY <2>2 DEF Inv, DiskSound, Present
  <2>5. Counted' = Counted
    BY <2>3 DEF Counted
  <2>6. Choosable(x, Counted + 1)'
    BY <1>1, <1>5, <2>3, <2>5 DEF Choosable
  <2>7. Selecting(p)'
    BY <1>5, <2>1, <2>2, <2>3, <2>6 DEF Selecting
  <2>8. ASSUME losses = 0 PROVE EventsWhole'
    <3>1. EventsWhole /\ x.n = Counted + 1 /\ RefOf(disk.version[x.ref.v]) = x.ref
      BY <1>5, <2>8 DEF Inv, Choosable
    <3>2. disk.state # None => disk.state.n # x.n /\ disk.state.n \in Events
      BY <3>1, EventsTyped DEF Counted
    <3>3. disk'.state # None => disk'.event[disk'.state.n] = disk'.state
      BY <2>3, <3>1, <3>2 DEF EventsWhole
    <3>4. \A n \in Events : disk'.event[n] # None => n <= Counted + 1
      BY <1>2, <2>3, <3>1 DEF EventsWhole
    <3>5. ASSUME NEW n \in Events, disk'.event[n] # None PROVE EventSound(n)'
      <4>1. CASE n = x.n
        BY <2>2, <2>3, <3>1, <4>1 DEF EventSound, Event
      <4>2. CASE n # x.n
        BY <2>3, <3>1, <3>5, <4>2 DEF EventsWhole, EventSound, Event
      <4> QED BY <4>1, <4>2
    <3> QED BY <2>5, <3>3, <3>4, <3>5 DEF EventsWhole
  <2> QED BY <1>3, <2>3, <2>4, <2>7, <2>8
<1>6. ASSUME NEW x \in Choices, Choosable(x, Counted + 1), losses = 0 => disk.event[x.n] = x,
             job[p].todo = <<Write("state", x)>>
      PROVE  Inv'
  <2>1. Head(job[p].todo) = Write("state", x) /\ job'[p].todo = <<>>
    BY <1>1, <1>6, Heads
  <2>2. disk' = [disk EXCEPT !.state = x, !.root = TRUE] /\ x.n \in Events /\ x # None
    <3>1. disk' = Written(disk, Write("state", x))
      BY <1>1, <2>1
    <3>2. x.n \in Events /\ x # None
      BY Nones DEF Choices, Premises
    <3> QED BY <3>1, <3>2 DEF Written, Write
  <2>3. /\ disk'.state = x /\ disk'.event = disk.event
        /\ UNCHANGED <<disk.record, disk.version, disk.index>>
    BY <2>2 DEF Inv, DiskSound
  <2>4. DiskSound'
    BY <2>2 DEF Inv, DiskSound, Present
  <2>5. Counted' = x.n
    BY <2>2, <2>3 DEF Counted
  <2>6. Selecting(p)'
    BY <2>1 DEF Selecting
  <2>7. losses = 0 => EventsWhole'
    <3> SUFFICES ASSUME losses = 0 PROVE EventsWhole'
      OBVIOUS
    <3>1. EventsWhole /\ x.n = Counted + 1 /\ disk.event[x.n] = x
      BY <1>6 DEF Inv, Choosable
    <3>2. disk'.event[disk'.state.n] = disk'.state
      BY <2>3, <3>1
    <3>3. \A n \in Events : disk'.event[n] # None => n <= x.n + 1 /\ EventSound(n)'
      BY <1>2, <2>3, <3>1 DEF EventsWhole, EventSound, Event, Events, Premises, BoundsAreNat
    <3> QED BY <2>5, <3>2, <3>3 DEF EventsWhole
  <2> QED BY <1>3, <2>3, <2>4, <2>6, <2>7
<1>7. \A x : /\ Head(<<Write("repair", disk.event[Counted + 1]), Write("event", x), Write("state", x)>>)
                = Write("repair", disk.event[Counted + 1])
             /\ Head(<<Write("repair", disk.event[Counted + 1])>>)
                = Write("repair", disk.event[Counted + 1])
  BY Heads
<1> QED BY <1>1, <1>4, <1>5, <1>6, <1>7 DEF Selecting

LEMMA PersistSound == ASSUME Premises, Inv, NEW p \in Procs, Persist(p) PROVE Inv'
BY Persisting, RestoreSound, AnnounceSound, SelectionWrites

-----------------------------------------------------------------------------
(* The theorem                                                             *)

LEMMA StepSound == ASSUME Premises, Inv, [Next]_vars PROVE Inv'
<1>1. CASE Lose
  BY <1>1, LoseSound
<1>2. ASSUME NEW p \in Procs, Work(p) PROVE Inv'
  BY <1>2, ResumeSound, DecideSound, CapturedSound, ChosenSound, PersistSound DEF Work
<1>3. ASSUME NEW p \in Procs, Ask(p) PROVE Inv'
  <2>1. ASSUME NEW body \in Bodies, NEW base \in Bases,
               Capture(p, [body |-> body, base |-> base])
        PROVE  Inv'
    BY <2>1, CaptureSound
  <2>2. ASSUME NEW n \in Present, Select(p, Ref(disk.version[n])) PROVE Inv'
    BY <2>2, SelectSound
  <2> QED BY <1>3, <2>1, <2>2 DEF Ask
<1>4. ASSUME NEW p \in Procs, WriteFails(p) \/ Dies(p) PROVE Inv'
  BY <1>4, WriteFailsSound, DiesSound
<1>5. CASE UNCHANGED vars
  <2>1. UNCHANGED <<disk, lock, job, clock, losses, answers>>
    BY <1>5 DEF vars
  <2>2. DiskSound' /\ RecordAhead' /\ (losses' = 0 => ChainWhole')
    BY <2>1 DEF Inv, DiskSound, RecordAhead, ChainWhole, Blank, Present, Linked
  <2>3. AnswersSound'
    BY <2>1 DEF Inv, AnswersSound, AnswersTrue, OneContentPerVersion, Missing, Agrees, Present
  <2>4. ControlSound'
    BY <2>1 DEF Inv, ControlSound, JobSound
  <2>5. losses' = 0 => EventsWhole'
    BY <2>1 DEF Inv, EventsWhole, EventSound, Event, Counted
  <2>6. \A p \in Procs : ProcessSound(p)'
    <3> SUFFICES ASSUME NEW p \in Procs, ProcessSound(p) PROVE ProcessSound(p)'
      BY DEF Inv
    <3>1. Restored(p) => Restored(p)'
      BY <2>1, SameReading DEF Restored
    <3>2. Announceable(job[p].doc) => Announceable(job[p].doc)'
      BY <2>1 DEF Announceable, Blank, Settled, Present
    <3>3. Capturing(p) => Capturing(p)'
      BY <2>1, <3>2 DEF Capturing, Settled
    <3>4. Selecting(p) => Selecting(p)'
      BY <2>1 DEF Selecting, Choosable, Uncounted, Counted, Event
    <3> QED BY <2>1, <3>1, <3>3, <3>4 DEF ProcessSound
  <2> QED BY <2>1, <2>2, <2>3, <2>4, <2>5, <2>6 DEF Inv
<1> QED BY <1>1, <1>2, <1>3, <1>4, <1>5 DEF Next

(* Without losses nothing on disk is refused.                              *)
LEMMA WholeIsUsable ==
    ASSUME Premises, Inv, losses = 0
    PROVE  Resumable /\ LatestSound /\ SelectionSound
<1>1. ChainWhole /\ EventsWhole
  BY DEF Inv
<1> DEFINE d == disk.record.doc  k == d.v
<1>2. disk.record # None => d \in Docs /\ k \in Versions /\ k \in Nat /\ Ref(d) \in Refs /\ Ref(d).v = k
  BY DiskTyped, RefIsRef DEF Docs, Versions, Premises, BoundsAreNat
<1>3. disk.record # None =>
        \/ disk.index = Ref(d) /\ disk.version[k] = d
        \/ k = 1 /\ disk.index = None
        \/ /\ k # 1 /\ k - 1 \in Versions /\ disk.version[k - 1] # None
           /\ disk.index = Ref(disk.version[k - 1]) /\ disk.index.v = k - 1
  <2> SUFFICES ASSUME disk.record # None, k # 1, disk.index = Ref(disk.version[k - 1])
               PROVE  k - 1 \in Versions /\ disk.version[k - 1] # None /\ disk.index.v = k - 1
    BY <1>1 DEF ChainWhole
  <2>1. k - 1 \in 1..(k - 1)
    BY <1>2 DEF Versions, Premises, BoundsAreNat
  <2>2. k - 1 \in Present
    BY <1>1, <2>1 DEF ChainWhole
  <2> QED BY <2>2, DiskTyped, RefIsRef DEF Present
<1>4. Resumable
  <2>1. CASE disk.record = None
    BY <1>1, <2>1 DEF Resumable, Pending, ChainWhole, Blank
  <2>2. CASE disk.record # None
    <3>1. Pending = disk.record /\ Linked(d) /\ disk.version[k] \in {None, d}
      BY <1>1, <2>2 DEF Pending, ChainWhole
    <3>2. IndexLeadsTo(d)
      <4>1. CASE /\ k # 1 /\ k - 1 \in Versions /\ disk.version[k - 1] # None
                 /\ disk.index = Ref(disk.version[k - 1]) /\ disk.index.v = k - 1
        <5>1. /\ k - 1 < k /\ k \in Nat /\ (\A n \in (k - 1)..(k - 1) : n = k - 1)
              /\ \A n \in (k - 1 + 1)..(k - 1) : FALSE
          BY <1>2, <2>2
        <5> HIDE DEF d
        <5> QED BY <4>1, <5>1 DEF IndexLeadsTo
      <4> QED BY <1>3, <2>2, <4>1 DEF IndexLeadsTo
    <3> QED BY <2>2, <3>1, <3>2 DEF Resumable
  <2> QED BY <2>1, <2>2
<1>5. LatestSound
  <2> SUFFICES ASSUME disk.index # None PROVE LatestSound
    BY DEF LatestSound
  <2>1. disk.record # None
    BY <1>1 DEF ChainWhole, Blank
  <2>2. disk.index.v \in {k, k - 1} /\ RefOf(disk.version[disk.index.v]) = disk.index
    <3>1. d # None
      BY <1>2, <2>1, Nones DEF Premises
    <3> QED BY <1>2, <1>3, <2>1, <3>1 DEF RefOf
  <2>3. ~At(k + 1) /\ ~At(k + 2)
    BY <1>2, <2>1 DEF Inv, RecordAhead, At, Present
  <2>4. Unindexed => disk.index.v + 1 = k /\ disk.index.v + 2 = k + 1
    BY <1>2, <2>1, <2>2, <2>3 DEF Unindexed
  <2>5. Unindexed => Linked(disk.version[disk.index.v + 1])
    BY <1>1, <2>1 DEF ChainWhole, Unindexed, At, Present
  <2> QED BY <2>2, <2>3, <2>4, <2>5 DEF LatestSound
<1>6. SelectionSound
  <2>1. Counted \in Nat
    BY EventsTyped
  <2>2. \A n : Event(n) => n \in Events /\ n <= Counted + 1 /\ EventSound(n)
    BY <1>1 DEF EventsWhole, Event
  <2>3. disk.state # None => disk.event[Counted] = disk.state /\ Event(Counted)
    BY <1>1, EventsTyped DEF EventsWhole, Counted, Event
  <2>4. ~Event(Counted + 2)
    BY <2>1, <2>2
  <2> QED BY <2>2, <2>3, <2>4 DEF SelectionSound, Uncounted
<1> QED BY <1>4, <1>5, <1>6

LEMMA SoundIsSound == ASSUME Premises, Inv PROVE SeriesSound
<1>1. TypeOK
  <2>1. \A n \in Present : disk.version[n].v = n /\ disk.version[n].body \in Bodies
    BY DiskTyped DEF Present, Docs
  <2>2. lock # None => job[lock].op # "idle"
    BY DEF Inv, ControlSound, JobSound
  <2>3. \A p \in Procs : job[p].op # "idle" => lock = p
    BY DEF Inv, ControlSound, JobSound
  <2> QED BY <2>1, <2>2, <2>3, DiskTyped DEF TypeOK, Inv, DiskSound
<1>2. NeverStuck
  BY WholeIsUsable DEF NeverStuck
<1> QED BY <1>1, <1>2 DEF SeriesSound, Inv, AnswersSound

(* A series of compositions stays sound, for every number of processes,    *)
(* versions and selections and wherever calls die or writes fail: no two   *)
(* answers give one version number two documents unless three files of the *)
(* series were lost, every answer is the document of its request, and with *)
(* no file lost every operation of the history service still works.        *)
THEOREM SeriesKept == ASSUME Premises PROVE Spec => []SeriesSound
<1>1. Init => Inv
  BY InitSound
<1>2. Inv /\ [Next]_vars => Inv'
  BY StepSound
<1>3. Inv => SeriesSound
  BY SoundIsSound
<1> QED BY <1>1, <1>2, <1>3, PTL DEF Spec
=============================================================================
