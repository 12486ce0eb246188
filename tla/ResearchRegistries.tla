-------------------------- MODULE ResearchRegistries ---------------------------
(***************************************************************************)
(* The registries of the research work: virtual Runs, the inputs and       *)
(* exhibits of a project, its Questions with what rests on them, and the   *)
(* attention maps.  They share no state that any of them decides by: a     *)
(* behaviour picks one and the others stand still.                         *)
(***************************************************************************)
EXTENDS Integers, Sequences, FiniteSets, FiniteSetTheorems, TLAPS

CONSTANTS
    None,
    Callers, Profiles, Codes, Faults, Policies, Items, Minimum, Retries, Repairs,
    MaxVersions, MaxRunMoves, MaxRuns, MaxModelRuns, MaxOthers,              \* runner
    Clients, RecordQuestions, ApprovedIn, Contents, Artifacts, Sources, ExhibitIds,
    PageLimit, MaxStateMoves, MaxTime, MaxDamage,               \* records
    Readers, QuestionLimit, CandidateLimit, RequestLimit, SynthesisLimit, MaxCandidates,
    MaxRivals, MaxResumes,                                      \* proposals
    Actors, Configs, FirstConfig, Baseline, Questions, MaxMaps,
    MaxAdvances                                                 \* guidance

(* A Run asks each of its profiles once.                                   *)
ASSUME RunnerAssumption ==
    /\ Retries \in Nat /\ Repairs \in Nat /\ Minimum \in Nat \ {0}
    /\ Len(Profiles) \in Nat /\ DOMAIN Profiles = 1..Len(Profiles)
    /\ \A a, b \in DOMAIN Profiles : Profiles[a] = Profiles[b] => a = b

(* Pages are not empty; nothing that is numbered or stored is None.        *)
ASSUME RecordAssumption ==
    /\ PageLimit \in Nat \ {0} /\ MaxStateMoves \in Nat
    /\ Contents \subseteq Nat /\ ExhibitIds \subseteq Nat
    /\ None \notin Clients /\ \A S \in SUBSET ExhibitIds : None # S
    /\ None \notin [time : Int, id : Int]

ASSUME ResumeAssumption ==
    CandidateLimit \in Nat /\ RequestLimit \in Nat /\ SynthesisLimit \in Nat

ASSUME ConfigAssumption == FirstConfig \in Configs /\ None \notin Nat

VARIABLES
    registry,
    head, captured, runs, datasets, results, replies, job,
    recordHead, guard, now, inputs, copies, damaged, exhibits, metadata, clientJob,
    snapshots, candidates, decisions, requests, resumes, readerJob,
    config, approved, events, maps, activations, active, actorJob

Runner == INSTANCE VirtualRunner WITH MaxMoves <- MaxRunMoves

(* The store has its metadata table.                                       *)
Records == INSTANCE ProjectRecords WITH
    Questions <- RecordQuestions, Approved <- ApprovedIn, Limit <- PageLimit,
    Legacy <- FALSE, MaxMoves <- MaxStateMoves, head <- recordHead, job <- clientJob

Proposals == INSTANCE ResearchProposals WITH job <- readerJob

Guidance == INSTANCE Attention WITH job <- actorJob

runnerVars == <<head, captured, runs, datasets, results, replies, job>>
recordVars == <<recordHead, guard, now, inputs, copies, damaged, exhibits, metadata, clientJob>>
proposalVars == <<snapshots, candidates, decisions, requests, resumes, readerJob>>
guidanceVars == <<config, approved, events, maps, activations, active, actorJob>>

Init ==
    /\ registry \in {"runner", "records", "proposals", "guidance"}
    /\ Runner!Init /\ Records!Init /\ Proposals!Init /\ Guidance!Init

Next ==
    /\ UNCHANGED registry
    /\ \/ /\ registry = "runner" /\ Runner!Next
          /\ UNCHANGED <<recordVars, proposalVars, guidanceVars>>
       \/ /\ registry = "records" /\ Records!Next
          /\ UNCHANGED <<runnerVars, proposalVars, guidanceVars>>
       \/ /\ registry = "proposals" /\ Proposals!Next
          /\ UNCHANGED <<runnerVars, recordVars, guidanceVars>>
       \/ /\ registry = "guidance" /\ Guidance!Next
          /\ UNCHANGED <<runnerVars, recordVars, proposalVars>>

vars == <<registry, runnerVars, recordVars, proposalVars, guidanceVars>>

Spec == Init /\ [][Next]_vars

(* What a caller is told is so: a Run that reports readiness rests on      *)
(* completed Runs of every scenario its policy requires, all under one     *)
(* freeze; one that is reported at all executed while the State stood      *)
(* still, a successful one left the responses it made and their analysis;  *)
(* what it captured can be inspected; and its requests are bounded.        *)
ToldTheTruth ==
    /\ Runner!ReadyUnderOneFreeze /\ Runner!SuccessIsAnalysed /\ Runner!StateStoodStill
    /\ Runner!Inspectable /\ Runner!RequestsBounded

(* A listing shows every record that was there when it began, each once.   *)
ListingComplete == Records!ListingComplete

(* From one Snapshot to the next nothing is lost and nothing closed is     *)
(* changed or built upon, and nothing is registered against a Snapshot     *)
(* other than the current one.                                             *)
RevisionsFollow ==
    [][/\ registry = "proposals" => Proposals!RevisionsFollow
       /\ registry = "records" => Records!BoundToHead]_<<proposalVars, recordVars>>

(* A review of a Question names everything that rests on it as it was.     *)
ReviewSeesAll == Proposals!ReviewSeesAll

(* A resume explains what is in force by the candidate it was made by and  *)
(* the request it was decided on, or says that it has left some out.       *)
ResumeExplains == Proposals!ResumeExplains

(* No issue disappears silently, and the active map stays readable however *)
(* often the Profile is advanced.                                          *)
NothingForgotten ==
    Guidance!TypeOK /\ Guidance!NothingForgotten /\ Guidance!AttentionStays

-----------------------------------------------------------------------------
(* The modules count alike.                                                *)
LEMMA SameCount ==
    \A S : /\ Runner!Cardinality(S) = Cardinality(S)
           /\ Records!Cardinality(S) = Cardinality(S)
           /\ Proposals!Cardinality(S) = Cardinality(S)
           /\ Records!IsFiniteSet(S) = IsFiniteSet(S)
<1> SUFFICES ASSUME NEW S
             PROVE  /\ Runner!Cardinality(S) = Cardinality(S)
                    /\ Records!Cardinality(S) = Cardinality(S)
                    /\ Proposals!Cardinality(S) = Cardinality(S)
                    /\ Records!IsFiniteSet(S) = IsFiniteSet(S)
  OBVIOUS
<1>1. Runner!Cardinality(S) = Cardinality(S)
  BY DEF Runner!Cardinality, Cardinality
<1>2. Records!Cardinality(S) = Cardinality(S)
  BY DEF Records!Cardinality, Cardinality
<1>3. Proposals!Cardinality(S) = Cardinality(S)
  BY DEF Proposals!Cardinality, Cardinality
<1>4. Records!IsFiniteSet(S) = IsFiniteSet(S)
  BY DEF Records!IsFiniteSet, IsFiniteSet
<1> QED BY <1>1, <1>2, <1>3, <1>4

-----------------------------------------------------------------------------
(* Virtual Runs                                                           *)

Series(s) == \E S : s \in Seq(S)

(* Attempts and records name each other.                                   *)
JoinSound(r) ==
    /\ Series(r.attempts) /\ Series(r.records)
    /\ Len(r.attempts) <= Len(Profiles)
    /\ \A a \in DOMAIN r.attempts :
          /\ r.attempts[a].number = a /\ r.attempts[a].profile = Profiles[a]
          /\ r.attempts[a].status = "generated" =>
                /\ r.attempts[a].response \in DOMAIN r.records
                /\ r.records[r.attempts[a].response].attempt = a
    /\ \A i \in DOMAIN r.records :
          /\ r.records[i].quality \in {"valid", "invalid", "malformed"}
          /\ r.records[i].attempt \in DOMAIN r.attempts
          /\ r.records[i].profile = Profiles[r.records[i].attempt]
          /\ r.attempts[r.records[i].attempt].status = "generated"
          /\ r.attempts[r.records[i].attempt].response = i

RestsOn(n, m, s) ==
    /\ m \in DOMAIN runs /\ runs[m].status = "completed" /\ runs[m].scenario = s
    /\ runs[m].pins = runs[n].pins

(* A Run's readiness rests on Runs that are completed.                     *)
ReadinessRests(n) ==
    runs[n].status = "completed" /\ runs[n].ready
    => \A s \in runs[n].policy.require : \E m \in runs[n].prior \cup {n} : RestsOn(n, m, s)

RunFields == {"pins", "backend", "scenario", "policy", "prior", "status", "attempts", "records",
              "open", "ready", "ended"}

RunSound(n) ==
    /\ DOMAIN runs[n] = RunFields
    /\ runs[n].pins.instrumentOf = runs[n].pins.snapshot
    /\ runs[n].backend = "llm" => JoinSound(runs[n])
    /\ runs[n].backend = "llm" /\ runs[n].status = "completed"
       => Len(runs[n].attempts) = Len(Profiles)
    /\ ReadinessRests(n)

(* How far a call has come with its Run: that is completed, it has been    *)
(* looked at, and its own responses are registered.                        *)
Holding == {"captured", "settled", "analysing", "analysed", "answered"}
Past == Holding \cup {"checked", "capturing"}
Finished == Past \cup {"completed"}
Busy == Finished \cup {"generate", "ask"}

(* A Run with as many valid responses as an llm Run needs.                 *)
Enough(r) == Cardinality(Runner!OfQuality(r.records, "valid")) >= Minimum

HasOwn(n) == n \in DOMAIN datasets /\ datasets[n] = Runner!Dataset(runs[n])

(* Requests spent on a profile: those of each repair, and of this one.     *)
CostSound(j) ==
    /\ j.transport \in 0..Retries /\ j.repair \in 0..Repairs /\ j.posts \in Nat
    /\ j.posts <= j.repair * (Retries + 1) + j.transport

CallSound(c) ==
    /\ job[c].at = "resolved" =>
          job[c].pins.instrumentOf = job[c].pins.snapshot /\ job[c].prior \subseteq DOMAIN runs
    /\ job[c].at \in Busy => job[c].run \in DOMAIN runs
    /\ job[c].at \in {"generate", "ask"} =>
          /\ runs[job[c].run].status = "running"
          /\ runs[job[c].run].backend = "llm" <=> job[c].at = "ask"
    /\ job[c].at = "ask" => CostSound(job[c])
    /\ job[c].at \in {"generate", "ask", "completed"} =>
          /\ runs[job[c].run].pins.snapshot = job[c].before
          /\ job[c].before \in Nat /\ job[c].before <= head
    /\ job[c].at \in Finished => runs[job[c].run].status = "completed"
    /\ job[c].at = "completed" =>
          /\ runs[job[c].run].ended \in Nat
          /\ job[c].before <= runs[job[c].run].ended /\ runs[job[c].run].ended <= head
    /\ job[c].at \in Past => runs[job[c].run].ended = runs[job[c].run].pins.snapshot
    /\ job[c].at \in Holding => HasOwn(job[c].run)
    /\ job[c].at \in {"analysing", "analysed", "answered"} =>
          runs[job[c].run].backend = "llm" /\ Enough(runs[job[c].run])
    /\ job[c].at \in {"analysed", "answered"} => <<job[c].run, job[c].items>> \in results

(* A Run is the one call's that made it.                                   *)
OneCall ==
    \A c, d \in Callers : job[c].at \in Busy /\ job[d].at \in Busy /\ job[c].run = job[d].run
                          => c = d

(* What is told of a Run.                                                  *)
AnswerSound(n) ==
    /\ HasOwn(n) /\ runs[n].ended = runs[n].pins.snapshot
    /\ runs[n].backend = "llm" =>
          IF replies[n].status = "SUCCEEDED"
          THEN Enough(runs[n]) /\ <<n, replies[n].items>> \in results
          ELSE ~Enough(runs[n])
    /\ runs[n].backend # "llm" => replies[n].status = "SUCCEEDED"

RegisteredSound(n) ==
    /\ n \in DOMAIN runs /\ runs[n].status = "completed"
    /\ datasets[n].own => datasets[n] = Runner!Dataset(runs[n])

DataSound ==
    /\ \A n \in DOMAIN datasets : RegisteredSound(n)
    /\ \A n \in DOMAIN replies : AnswerSound(n)

RunnerInv ==
    /\ DOMAIN job = Callers /\ Series(runs) /\ head \in Nat
    /\ \A n \in DOMAIN runs : RunSound(n) /\ runs[n].prior \subseteq DOMAIN runs
    /\ \A c \in Callers : CallSound(c)
    /\ OneCall /\ DataSound

-----------------------------------------------------------------------------
LEMMA Appended ==
    ASSUME NEW s, Series(s), NEW e
    PROVE  /\ Series(Append(s, e))
           /\ Len(s) \in Nat /\ DOMAIN s = 1..Len(s)
           /\ Len(Append(s, e)) = Len(s) + 1 /\ DOMAIN Append(s, e) = DOMAIN s \cup {Len(s) + 1}
           /\ Append(s, e)[Len(s) + 1] = e /\ Len(s) + 1 \notin DOMAIN s
           /\ \A i \in DOMAIN s : Append(s, e)[i] = s[i]
<1>1. PICK S : s \in Seq(S)
  BY DEF Series
<1>2. s \in Seq(S \cup {e}) /\ e \in S \cup {e}
  BY <1>1
<1>3. Append(s, e) \in Seq(S \cup {e})
  BY <1>2
<1>4. Series(Append(s, e))
  BY <1>3 DEF Series
<1> QED BY <1>2, <1>3, <1>4

LEMMA Altered ==
    ASSUME NEW s, Series(s), NEW n \in DOMAIN s, NEW v, NEW t, t = [s EXCEPT ![n] = v]
    PROVE  /\ Series(t) /\ DOMAIN t = DOMAIN s /\ Len(t) = Len(s) /\ t[n] = v
           /\ \A m \in DOMAIN s : m # n => t[m] = s[m]
<1>1. PICK S : s \in Seq(S)
  BY DEF Series
<1>2. s \in Seq(S \cup {v}) /\ v \in S \cup {v}
  BY <1>1
<1>3. t \in Seq(S \cup {v})
  BY <1>2
<1> QED BY <1>2, <1>3 DEF Series

(* Completed Runs stay as they are.                                        *)
RunKept(n) == runs'[n] = runs[n]

LEMMA ReadinessStays ==
    ASSUME NEW n, NEW t \in DOMAIN runs', RunSound(n), n \in DOMAIN runs, RunKept(n),
           DOMAIN runs \subseteq DOMAIN runs',
           \A m \in DOMAIN runs : runs[m].status = "completed" => RunKept(m)
    PROVE  RunSound(n)'
<1>1. ReadinessRests(n)'
  BY DEF RunSound, ReadinessRests, RestsOn, RunKept
<1> QED BY <1>1 DEF RunSound, RunKept, JoinSound

LEMMA RunnerInit == Runner!Init => RunnerInv
<1> SUFFICES ASSUME Runner!Init PROVE RunnerInv
  OBVIOUS
<1>1. Series(<<>>) /\ DOMAIN <<>> = {}
  BY <<>> \in Seq({}) DEF Series
<1>2. \A c \in Callers : job[c].at = "idle"
  BY DEF Runner!Init, Runner!Idle
<1> QED BY <1>1, <1>2 DEF Runner!Init, RunnerInv, CallSound, OneCall, DataSound, Busy, Finished,
       Past, Holding

(* The State moves on, and what is registered and analysed stays.          *)
Extends ==
    /\ head' \in Nat /\ head <= head'
    /\ DOMAIN runs \subseteq DOMAIN runs'
    /\ \A n \in DOMAIN datasets : n \in DOMAIN datasets' /\ datasets'[n] = datasets[n]
    /\ results \subseteq results'

LEMMA CallKept ==
    ASSUME head \in Nat, Extends, NEW d, CallSound(d), job'[d] = job[d],
           job[d].at \in Busy => RunKept(job[d].run)
    PROVE  CallSound(d)'
<1>1. CASE job[d].at \in Busy
  <2>1. PICK j : j = job[d]
    OBVIOUS
  <2>2. PICK r : r = runs[j.run]
    OBVIOUS
  <2>3. j.run \in DOMAIN runs' /\ runs'[j.run] = r /\ job'[d] = j
    BY <1>1, <2>1, <2>2 DEF CallSound, RunKept, Extends
  <2>4. j.at \in {"generate", "ask"} =>
          r.status = "running" /\ (r.backend = "llm" <=> j.at = "ask")
    BY <2>1, <2>2 DEF CallSound
  <2>5. j.at = "ask" => CostSound(j)
    BY <2>1 DEF CallSound
  <2>6. j.at \in {"generate", "ask", "completed"} =>
          r.pins.snapshot = j.before /\ j.before \in Nat /\ j.before <= head'
    BY <2>1, <2>2 DEF CallSound, Extends
  <2>7. j.at = "completed" => r.ended \in Nat /\ j.before <= r.ended /\ r.ended <= head'
    BY <2>1, <2>2 DEF CallSound, Extends
  <2>8. /\ j.at \in Finished => r.status = "completed"
        /\ j.at \in Past => r.ended = r.pins.snapshot
        /\ j.at \in {"analysing", "analysed", "answered"} => r.backend = "llm" /\ Enough(r)
    BY <2>1, <2>2 DEF CallSound
  <2>9. /\ j.at \in Holding => j.run \in DOMAIN datasets' /\ datasets'[j.run] = Runner!Dataset(r)
        /\ j.at \in {"analysed", "answered"} => <<j.run, j.items>> \in results'
    BY <2>1, <2>2 DEF CallSound, HasOwn, Extends
  <2>10. j.at # "resolved"
    BY <1>1, <2>1 DEF Busy, Finished, Past, Holding
  <2> QED BY <2>3, <2>4, <2>5, <2>6, <2>7, <2>8, <2>9, <2>10 DEF CallSound, HasOwn, CostSound
<1>2. CASE job[d].at \notin Busy
  BY <1>2 DEF CallSound, Busy, Finished, Past, Holding, Extends
<1> QED BY <1>1, <1>2

(* What the other calls rely on.                                           *)
LEMMA OthersKept ==
    ASSUME RunnerInv, Extends, NEW c \in Callers, job' = [job EXCEPT ![c] = job'[c]],
           \A m \in DOMAIN runs :
               (\E d \in Callers \ {c} : job[d].at \in Busy /\ job[d].run = m) => RunKept(m)
    PROVE  \A d \in Callers \ {c} : job'[d] = job[d] /\ CallSound(d)'
<1> TAKE d \in Callers \ {c}
<1>1. job'[d] = job[d] /\ CallSound(d) /\ head \in Nat
  BY DEF RunnerInv
<1>2. job[d].at \in Busy => RunKept(job[d].run)
  BY <1>1 DEF CallSound
<1> QED BY <1>1, <1>2, CallKept

(* What is told and registered of completed Runs stands.                   *)
LEMMA DataKept ==
    ASSUME RunnerInv, Extends, replies' = replies,
           \A m \in DOMAIN runs : runs[m].status = "completed" => RunKept(m),
           \A n \in DOMAIN datasets' \ DOMAIN datasets : RegisteredSound(n)'
    PROVE  DataSound'
<1>1. ASSUME NEW n \in DOMAIN datasets
      PROVE  /\ RegisteredSound(n)' /\ n \in DOMAIN runs' /\ runs'[n] = runs[n]
             /\ n \in DOMAIN datasets' /\ datasets'[n] = datasets[n]
  <2>1. RegisteredSound(n)
    BY DEF RunnerInv, DataSound
  <2>2. RunKept(n) /\ n \in DOMAIN runs'
    BY <2>1 DEF RegisteredSound, Extends
  <2>3. n \in DOMAIN datasets' /\ datasets'[n] = datasets[n]
    BY DEF Extends
  <2> QED BY <2>1, <2>2, <2>3 DEF RegisteredSound, RunKept
<1>2. ASSUME NEW n \in DOMAIN replies PROVE AnswerSound(n)'
  <2>1. AnswerSound(n) /\ n \in DOMAIN datasets
    BY DEF RunnerInv, DataSound, AnswerSound, HasOwn
  <2>2. runs'[n] = runs[n] /\ n \in DOMAIN datasets' /\ datasets'[n] = datasets[n]
    BY <1>1, <2>1
  <2>3. <<n, replies[n].items>> \in results => <<n, replies[n].items>> \in results'
    BY DEF Extends
  <2> QED BY <2>1, <2>2, <2>3 DEF AnswerSound, HasOwn
<1> QED BY <1>1, <1>2 DEF DataSound

(* A call keeps its Run, or leaves it.                                     *)
LEMMA OneCallKept ==
    ASSUME OneCall, NEW c \in Callers, \A d \in Callers \ {c} : job'[d] = job[d],
           job'[c].at \in Busy => job[c].at \in Busy /\ job'[c].run = job[c].run
    PROVE  OneCall'
BY DEF OneCall

(* What leaves the Runs alone.                                             *)
LEMMA RunsStand ==
    ASSUME RunnerInv, runs' = runs
    PROVE  \A n \in DOMAIN runs : RunSound(n)'
BY DEF RunnerInv, RunSound, JoinSound, ReadinessRests, RestsOn

LEMMA CallsStand ==
    ASSUME RunnerInv, Extends, UNCHANGED <<runs, job>>, DataSound'
    PROVE  RunnerInv'
<1>1. \A c \in Callers : CallSound(c)'
  BY CallKept DEF RunnerInv, RunKept
<1>2. OneCall'
  BY DEF RunnerInv, OneCall
<1> QED BY <1>1, <1>2, RunsStand DEF RunnerInv, Extends

LEMMA RunnerStands ==
    ASSUME RunnerInv, UNCHANGED <<head, runs, datasets, results, replies, job>>
    PROVE  RunnerInv'
<1>1. Extends
  BY DEF RunnerInv, Extends
<1>2. DataSound'
  BY <1>1, DataKept DEF RunKept
<1> QED BY <1>1, <1>2, CallsStand

LEMMA CallSteps ==
    ASSUME RunnerInv, NEW c \in Callers, job' = [job EXCEPT ![c] = job'[c]],
           runs' = runs, Extends, CallSound(c)', DataSound',
           job'[c].at \in Busy => job[c].at \in Busy /\ job'[c].run = job[c].run
    PROVE  RunnerInv'
<1>1. \A d \in Callers \ {c} : job'[d] = job[d] /\ CallSound(d)'
  BY OthersKept DEF RunKept
<1>2. OneCall'
  BY <1>1, OneCallKept DEF RunnerInv
<1> QED BY <1>1, <1>2, RunsStand DEF RunnerInv, Extends

(* What another request costs.                                             *)
LEMMA CostOfRetry ==
    ASSUME NEW t \in Nat, NEW r \in Nat, NEW p \in Nat, p <= r * (Retries + 1) + t
    PROVE  p + 1 <= r * (Retries + 1) + (t + 1)
BY RunnerAssumption

LEMMA CostOfRepair ==
    ASSUME NEW t \in 0..Retries, NEW r \in Nat, NEW p \in Nat, p <= r * (Retries + 1) + t
    PROVE  p + 1 <= (r + 1) * (Retries + 1) + 0
<1>1. Retries \in Nat /\ Retries + 1 \in Nat /\ r * (Retries + 1) \in Nat
  BY RunnerAssumption
<1>2. (r + 1) * (Retries + 1) = r * (Retries + 1) + (Retries + 1)
  BY RunnerAssumption
<1> QED BY <1>1, <1>2

LEMMA Product ==
    ASSUME NEW a \in Nat, NEW b \in Nat, NEW k \in Nat, a <= b
    PROVE  a * k <= b * k
<1>1. PICK d \in Nat : b = a + d
  <2>1. b - a \in Nat /\ b = a + (b - a)
    OBVIOUS
  <2> QED BY <2>1
<1>2. b * k = a * k + d * k /\ d * k \in Nat /\ a * k \in Nat
  BY <1>1
<1> QED BY <1>2

LEMMA CostBounded ==
    ASSUME NEW j, CostSound(j)
    PROVE  j.posts + 1 <= (Retries + 1) * (Repairs + 1)
<1>1. /\ j.transport \in Nat /\ j.transport <= Retries /\ j.repair \in Nat
      /\ j.repair <= Repairs /\ j.posts \in Nat
      /\ j.posts <= j.repair * (Retries + 1) + j.transport
      /\ Retries + 1 \in Nat /\ Repairs \in Nat /\ Retries \in Nat
  BY RunnerAssumption DEF CostSound
<1>2. j.repair * (Retries + 1) <= Repairs * (Retries + 1)
  BY <1>1, Product
<1>3. (Retries + 1) * (Repairs + 1) = Repairs * (Retries + 1) + (Retries + 1)
  BY <1>1
<1>4. j.repair * (Retries + 1) \in Nat /\ Repairs * (Retries + 1) \in Nat
  BY <1>1
<1> QED BY <1>1, <1>2, <1>3, <1>4

(* Responses are registered for a Run that has none.                       *)
LEMMA Registers ==
    ASSUME RunnerInv, NEW n \in DOMAIN runs \ DOMAIN datasets, runs[n].status = "completed",
           NEW d, d.own => d = Runner!Dataset(runs[n]),
           datasets' = Runner!With(datasets, n, d), UNCHANGED <<head, runs, results, replies>>
    PROVE  Extends /\ DataSound' /\ n \in DOMAIN datasets' /\ datasets'[n] = d
<1>1. /\ DOMAIN datasets' = DOMAIN datasets \cup {n} /\ datasets'[n] = d
      /\ \A m \in DOMAIN datasets : m # n => datasets'[m] = datasets[m]
  <2>1. PICK more : more = Runner!With(datasets, n, d)
    OBVIOUS
  <2>2. /\ DOMAIN more = DOMAIN datasets \cup {n} /\ more[n] = d
        /\ \A m \in DOMAIN datasets : m # n => more[m] = datasets[m]
    BY <2>1 DEF Runner!With
  <2> QED BY <2>1, <2>2
<1>2. Extends
  BY <1>1 DEF RunnerInv, Extends
<1>3. RegisteredSound(n)'
  BY <1>1 DEF RegisteredSound
<1>4. DataSound'
  BY <1>1, <1>2, <1>3, DataKept DEF RunKept
<1> QED BY <1>1, <1>2, <1>4

LEMMA Unregistered ==
    ASSUME RunnerInv, UNCHANGED <<head, runs, datasets, replies>>, results \subseteq results'
    PROVE  Extends /\ DataSound'
<1>1. Extends
  BY DEF RunnerInv, Extends
<1> QED BY <1>1, DataKept DEF RunKept

(* An llm Run has enough valid responses when those registered are its own.*)
LEMMA EnoughTold ==
    ASSUME NEW n, HasOwn(n), runs[n].backend = "llm"
    PROVE  Runner!EnoughValid(n) <=> Enough(runs[n])
BY SameCount DEF HasOwn, Runner!Dataset, Runner!EnoughValid, Enough

LEMMA PlainSteps ==
    ASSUME RunnerInv, NEW c \in Callers,
           \/ Runner!Request(c) \/ Runner!RefuseContext(c) \/ Runner!TransportFailure(c)
                \/ Runner!Unreadable(c)
           \/ Runner!StateMoved(c) \/ Runner!Crash(c)
    PROVE  RunnerInv'
<1>1. DOMAIN job = Callers /\ CallSound(c) /\ head \in Nat
  BY DEF RunnerInv
<1>2. /\ UNCHANGED <<head, captured, runs, datasets, results, replies>>
      /\ Extends /\ DataSound'
  <2>1. UNCHANGED <<head, captured, runs, datasets, results, replies>>
    BY DEF Runner!Request, Runner!RefuseContext, Runner!TransportFailure, Runner!Unreadable,
       Runner!StateMoved, Runner!Crash
  <2> QED BY <2>1, Unregistered
<1>3. CASE Runner!Request(c)
  <2>1. /\ job' = [job EXCEPT ![c] = job'[c]] /\ job'[c].at = "resolved"
        /\ job'[c].pins.instrumentOf = job'[c].pins.snapshot
        /\ job'[c].prior \subseteq DOMAIN runs
    <3>1. PICK v \in DOMAIN captured, scenario \in Runner!Scenarios,
               backend \in {"structural", "llm"}, policy \in Policies,
               prior \in {{}} \cup {{n} : n \in DOMAIN runs}, items \in Items :
            /\ Runner!Resolves(v)
            /\ job' = [job EXCEPT ![c] =
                 [at |-> "resolved", pins |-> Runner!Pins(v, head, backend), backend |-> backend,
                  scenario |-> scenario, policy |-> policy, prior |-> prior, items |-> items]]
      BY <1>3 DEF Runner!Request
    <3>2. PICK pins : pins = Runner!Pins(v, head, backend)
      OBVIOUS
    <3>3. pins.instrumentOf = pins.snapshot
      BY <3>1, <3>2 DEF Runner!Resolves, Runner!Pins
    <3> QED BY <1>1, <3>1, <3>2, <3>3
  <2>2. CallSound(c)' /\ job'[c].at \notin Busy
    BY <1>2, <2>1 DEF CallSound, Busy, Finished, Past, Holding
  <2> QED BY <1>2, <2>1, <2>2, CallSteps
<1>4. CASE Runner!RefuseContext(c) \/ Runner!StateMoved(c) \/ Runner!Crash(c)
  <2>1. job' = [job EXCEPT ![c] = Runner!Idle]
    BY <1>4 DEF Runner!RefuseContext, Runner!StateMoved, Runner!Crash
  <2>2. CallSound(c)' /\ job'[c].at \notin Busy /\ job' = [job EXCEPT ![c] = job'[c]]
    BY <1>1, <2>1 DEF CallSound, Busy, Finished, Past, Holding, Runner!Idle
  <2> QED BY <1>2, <2>1, <2>2, CallSteps
<1>5. CASE Runner!TransportFailure(c) \/ Runner!Unreadable(c)
  <2>1. job[c].at = "ask"
    BY <1>5 DEF Runner!TransportFailure, Runner!Unreadable
  <2>2. PICK j : j = job[c]
    OBVIOUS
  <2>3. CostSound(j) /\ j.transport \in Nat /\ j.repair \in Nat /\ j.posts \in Nat
    BY <1>1, <2>1, <2>2, RunnerAssumption DEF CallSound, CostSound
  <2>4. PICK k : k = job'[c]
    OBVIOUS
  <2>5. /\ job' = [job EXCEPT ![c] = k] /\ k.at = "ask" /\ k.run = j.run /\ k.posts = j.posts + 1
        /\ k.before = j.before
        /\ \/ k.transport = j.transport + 1 /\ j.transport < Retries /\ k.repair = j.repair
           \/ k.repair = j.repair + 1 /\ j.repair < Repairs /\ k.transport = 0
    <3>1. CASE Runner!TransportFailure(c)
      BY <1>1, <2>1, <2>2, <2>4, <3>1 DEF Runner!TransportFailure, Runner!RetryLeft,
         Runner!Asking
    <3>2. CASE Runner!Unreadable(c)
      BY <1>1, <2>1, <2>2, <2>4, <3>2 DEF Runner!Unreadable, Runner!RepairLeft, Runner!Asking
    <3> QED BY <1>5, <3>1, <3>2
  <2>6. CostSound(k)
    <3>1. CASE k.transport = j.transport + 1 /\ j.transport < Retries /\ k.repair = j.repair
      <4>1. k.posts <= k.repair * (Retries + 1) + k.transport
        BY <2>3, <2>5, <3>1, CostOfRetry DEF CostSound
      <4> QED BY <2>3, <2>5, <3>1, <4>1, RunnerAssumption, SMTT(30) DEF CostSound
    <3>2. CASE k.repair = j.repair + 1 /\ j.repair < Repairs /\ k.transport = 0
      <4>1. k.posts <= k.repair * (Retries + 1) + k.transport
        BY <2>3, <2>5, <3>2, CostOfRepair DEF CostSound
      <4>2. j.repair + 1 \in 0..Repairs /\ 0 \in 0..Retries /\ j.posts + 1 \in Nat
        BY <2>3, <3>2, RunnerAssumption
      <4> QED BY <2>5, <3>2, <4>1, <4>2 DEF CostSound
    <3> QED BY <2>5, <3>1, <3>2
  <2>7. CallSound(c)'
    <3>1. /\ runs'[k.run].status = "running" /\ runs'[k.run].backend = "llm"
          /\ k.run \in DOMAIN runs'
          /\ runs'[k.run].pins.snapshot = k.before /\ k.before \in Nat /\ k.before <= head'
      BY <1>1, <1>2, <2>1, <2>2, <2>5 DEF CallSound, Busy
    <3>2. CostSound(job'[c])
      BY <2>4, <2>6
    <3> QED
      BY <2>4, <2>5, <3>1, <3>2 DEF CallSound, Busy, Finished, Past, Holding, CostSound
  <2> QED BY <1>2, <2>1, <2>2, <2>4, <2>5, <2>7, CallSteps DEF Busy
<1> QED BY <1>3, <1>4, <1>5

(* What a call does with its completed Run.                                *)
LEMMA LaterSteps ==
    ASSUME RunnerInv, NEW c \in Callers,
           \/ Runner!StateHeld(c) \/ Runner!LoadState(c) \/ Runner!CaptureDataset(c)
           \/ Runner!ReuseDataset(c) \/ Runner!Analyse(c) \/ Runner!Reply(c)
    PROVE  RunnerInv'
<1>0. DOMAIN job = Callers /\ CallSound(c) /\ DataSound /\ head \in Nat
  BY DEF RunnerInv
<1>1. PICK n : n = job[c].run
  OBVIOUS
<1>2. PICK at : at = job[c].at
  OBVIOUS
<1>3. at \in Finished /\ UNCHANGED <<head, runs>>
  BY <1>2 DEF Runner!StateHeld, Runner!LoadState, Runner!CaptureDataset, Runner!ReuseDataset,
     Runner!Analyse, Runner!Reply, Runner!NextAfter, Finished, Past, Holding
<1>4. /\ n \in DOMAIN runs /\ runs[n].status = "completed"
      /\ at = "completed" => runs[n].pins.snapshot = job[c].before /\ runs[n].ended \in Nat
                             /\ job[c].before \in Nat
                             /\ job[c].before <= runs[n].ended /\ runs[n].ended <= head
      /\ at \in Past => runs[n].ended = runs[n].pins.snapshot
      /\ at \in Holding => HasOwn(n)
      /\ at \in {"analysing", "analysed", "answered"}
         => runs[n].backend = "llm" /\ Enough(runs[n])
      /\ at \in {"analysed", "answered"} => <<n, job[c].items>> \in results
  BY <1>0, <1>1, <1>2, <1>3 DEF CallSound, Busy
<1>5. ASSUME job' = [job EXCEPT ![c] = job'[c]], job'[c].run = n, Extends, DataSound',
             job'[c].at \in Past, runs[n].ended = runs[n].pins.snapshot,
             job'[c].at \in Holding => HasOwn(n)',
             job'[c].at \in {"analysing", "analysed", "answered"}
             => runs[n].backend = "llm" /\ Enough(runs[n]),
             job'[c].at \in {"analysed", "answered"} => <<n, job'[c].items>> \in results'
      PROVE  RunnerInv'
  <2>1. job'[c].at \in Finished /\ job'[c].at \in Busy
        /\ job'[c].at \notin {"resolved", "generate", "ask", "completed"}
    BY <1>5 DEF Finished, Busy, Past, Holding
  <2>2. CallSound(c)'
    BY <1>3, <1>4, <1>5, <2>1 DEF CallSound, HasOwn
  <2>3. job[c].at \in Busy
    BY <1>2, <1>3 DEF Busy
  <2> QED BY <1>1, <1>3, <1>5, <2>2, <2>3, CallSteps
<1>6. ASSUME job' = [job EXCEPT ![c] = Runner!Idle], Extends, DataSound'
      PROVE  RunnerInv'
  <2>1. CallSound(c)' /\ job'[c].at \notin Busy /\ job' = [job EXCEPT ![c] = job'[c]]
    BY <1>0, <1>6 DEF CallSound, Busy, Finished, Past, Holding, Runner!Idle
  <2> QED BY <1>3, <1>6, <2>1, CallSteps
<1>7. ASSUME UNCHANGED <<datasets, results, replies>>
      PROVE  Extends /\ DataSound' /\ (HasOwn(n) => HasOwn(n)')
  BY <1>3, <1>7, Unregistered DEF HasOwn
<1>8. CASE Runner!StateHeld(c)
  <2>1. /\ UNCHANGED <<datasets, results, replies>> /\ head = job[c].before
        /\ at \in {"completed", "captured", "analysed"}
        /\ job' = [job EXCEPT ![c].at = Runner!NextAfter[@]]
    BY <1>2, <1>8 DEF Runner!StateHeld, Runner!NextAfter, Runner!Held
  <2>2. PICK next : next = Runner!NextAfter[at]
    OBVIOUS
  <2>3. /\ at = "completed" => next = "checked"
        /\ at = "captured" => next = "settled"
        /\ at = "analysed" => next = "answered"
    BY <2>2 DEF Runner!NextAfter
  <2>4. /\ job' = [job EXCEPT ![c] = job'[c]] /\ job'[c].at = next /\ job'[c].run = n
        /\ job'[c].items = job[c].items
    BY <1>0, <1>1, <1>2, <2>1, <2>2
  <2>5. runs[n].ended = runs[n].pins.snapshot
    <3>1. CASE at = "completed"
      BY <1>0, <1>4, <2>1, <3>1
    <3>2. CASE at # "completed"
      BY <1>4, <2>1, <3>2 DEF Past, Holding
    <3> QED BY <3>1, <3>2
  <2> QED BY <1>4, <1>5, <1>7, <2>1, <2>3, <2>4, <2>5 DEF Past, Holding
<1>9. CASE Runner!LoadState(c)
  <2>1. /\ UNCHANGED <<datasets, results, replies>>
        /\ at = "checked" \/ (at = "settled" /\ Runner!ToAnalyse(n))
        /\ job' = [job EXCEPT ![c].at = IF @ = "checked" THEN "capturing" ELSE "analysing",
                              ![c].before = head]
    BY <1>1, <1>2, <1>9 DEF Runner!LoadState
  <2>2. PICK next : next = IF at = "checked" THEN "capturing" ELSE "analysing"
    OBVIOUS
  <2>3. job' = [job EXCEPT ![c] = job'[c]] /\ job'[c].at = next /\ job'[c].run = n
    <3>1. PICK j : j = [job[c] EXCEPT !.at = next, !.before = head]
      OBVIOUS
    <3>2. job' = [job EXCEPT ![c] = j]
      BY <1>0, <1>2, <2>1, <2>2, <3>1
    <3>3. j.at = next /\ j.run = n
      BY <1>1, <1>2, <2>1, <3>1
    <3> QED BY <1>0, <3>2, <3>3
  <2>4. at = "settled" => HasOwn(n) /\ runs[n].backend = "llm" /\ Enough(runs[n])
    BY <1>4, <2>1, EnoughTold DEF Holding, Runner!ToAnalyse
  <2>5. runs[n].ended = runs[n].pins.snapshot
    BY <1>4, <2>1 DEF Past, Holding
  <2> QED BY <1>5, <1>7, <2>1, <2>2, <2>3, <2>4, <2>5 DEF Past, Holding
<1>10. CASE Runner!CaptureDataset(c)
  <2>1. PICK d : d = Runner!Dataset(runs[n])
    OBVIOUS
  <2>2. /\ at = "capturing" /\ n \notin DOMAIN datasets /\ UNCHANGED <<results, replies>>
        /\ datasets' = Runner!With(datasets, n, d)
        /\ job' = [job EXCEPT ![c].at = "captured"]
    BY <1>1, <1>2, <1>10, <2>1 DEF Runner!CaptureDataset
  <2>3. Extends /\ DataSound' /\ n \in DOMAIN datasets' /\ datasets'[n] = d
    BY <1>3, <1>4, <2>1, <2>2, Registers
  <2>4. HasOwn(n)'
    BY <1>3, <2>1, <2>3 DEF HasOwn
  <2>5. job' = [job EXCEPT ![c] = job'[c]] /\ job'[c].at = "captured" /\ job'[c].run = n
    BY <1>0, <1>1, <2>2
  <2>6. runs[n].ended = runs[n].pins.snapshot
    BY <1>4, <2>2 DEF Past
  <2> QED BY <1>5, <2>3, <2>4, <2>5, <2>6 DEF Past, Holding
<1>11. CASE Runner!ReuseDataset(c)
  <2>1. /\ at = "capturing" /\ n \in DOMAIN datasets /\ UNCHANGED <<datasets, results, replies>>
        /\ job' = [job EXCEPT ![c] = IF Runner!SameResponses(n) THEN [@ EXCEPT !.at = "settled"]
                                     ELSE Runner!Idle]
    BY <1>1, <1>2, <1>11 DEF Runner!ReuseDataset
  <2>2. CASE Runner!SameResponses(n)
    <3>1. HasOwn(n)
      BY <1>0, <2>1, <2>2 DEF Runner!SameResponses, DataSound, RegisteredSound, HasOwn
    <3>2. job' = [job EXCEPT ![c] = job'[c]] /\ job'[c].at = "settled" /\ job'[c].run = n
      BY <1>0, <1>1, <2>1, <2>2
    <3>3. runs[n].ended = runs[n].pins.snapshot
      BY <1>4, <2>1 DEF Past
    <3> QED BY <1>5, <1>7, <2>1, <3>1, <3>2, <3>3 DEF Past, Holding
  <2>3. CASE ~Runner!SameResponses(n)
    BY <1>0, <1>6, <1>7, <2>1, <2>3
  <2> QED BY <2>2, <2>3
<1>12. CASE Runner!Analyse(c)
  <2>1. /\ at = "analysing" /\ UNCHANGED <<datasets, replies>>
        /\ results' = results \cup {<<n, job[c].items>>}
        /\ job' = [job EXCEPT ![c].at = "analysed"]
    BY <1>1, <1>2, <1>12 DEF Runner!Analyse
  <2>2. Extends /\ DataSound'
    BY <1>3, <2>1, Unregistered
  <2>3. HasOwn(n)'
    BY <1>3, <1>4, <2>1 DEF HasOwn, Holding
  <2>4. /\ job' = [job EXCEPT ![c] = job'[c]] /\ job'[c].at = "analysed" /\ job'[c].run = n
        /\ job'[c].items = job[c].items
    BY <1>0, <1>1, <2>1
  <2>5. runs[n].ended = runs[n].pins.snapshot
    BY <1>4, <2>1 DEF Past, Holding
  <2> QED BY <1>4, <1>5, <2>1, <2>2, <2>3, <2>4, <2>5 DEF Past, Holding
<1>13. CASE Runner!Reply(c)
  <2>1. PICK answer :
          answer = [status |-> IF Runner!EnoughValid(n) THEN "SUCCEEDED" ELSE "ERROR",
                    items |-> job[c].items]
    OBVIOUS
  <2>2. /\ UNCHANGED <<datasets, results>> /\ job' = [job EXCEPT ![c] = Runner!Idle]
        /\ replies' = Runner!With(replies, n, answer)
        /\ at = "answered" \/ (at = "settled" /\ ~Runner!ToAnalyse(n))
    BY <1>1, <1>2, <1>13, <2>1 DEF Runner!Reply
  <2>3. /\ DOMAIN replies' = DOMAIN replies \cup {n} /\ replies'[n] = answer
        /\ \A m \in DOMAIN replies : m # n => replies'[m] = replies[m]
    <3>1. PICK more : more = Runner!With(replies, n, answer)
      OBVIOUS
    <3>2. /\ DOMAIN more = DOMAIN replies \cup {n} /\ more[n] = answer
          /\ \A m \in DOMAIN replies : m # n => more[m] = replies[m]
      BY <3>1 DEF Runner!With
    <3> QED BY <2>2, <3>1, <3>2
  <2>4. HasOwn(n) /\ runs[n].ended = runs[n].pins.snapshot
    BY <1>4, <2>2 DEF Past, Holding
  <2>5. /\ runs[n].backend = "llm" =>
              IF answer.status = "SUCCEEDED"
              THEN Enough(runs[n]) /\ <<n, answer.items>> \in results
              ELSE ~Enough(runs[n])
        /\ runs[n].backend # "llm" => answer.status = "SUCCEEDED"
    <3>1. CASE runs[n].backend = "llm"
      <4>1. Runner!EnoughValid(n) <=> Enough(runs[n])
        BY <2>4, <3>1, EnoughTold
      <4>2. CASE at = "answered"
        BY <1>4, <2>1, <3>1, <4>1, <4>2
      <4>3. CASE ~Runner!ToAnalyse(n)
        BY <2>1, <3>1, <4>1, <4>3 DEF Runner!ToAnalyse
      <4> QED BY <2>2, <4>2, <4>3
    <3>2. CASE runs[n].backend # "llm"
      BY <2>1, <3>2 DEF Runner!EnoughValid
    <3> QED BY <3>1, <3>2
  <2>6. ASSUME NEW m \in DOMAIN replies' PROVE AnswerSound(m)'
    <3>1. CASE m = n
      BY <1>3, <2>2, <2>3, <2>4, <2>5, <3>1 DEF AnswerSound, HasOwn
    <3>2. CASE m # n
      <4>1. m \in DOMAIN replies /\ AnswerSound(m) /\ replies'[m] = replies[m]
        BY <1>0, <2>3, <2>6, <3>2 DEF DataSound
      <4> QED BY <1>3, <2>2, <4>1 DEF AnswerSound, HasOwn
    <3> QED BY <3>1, <3>2
  <2>7. DataSound'
    BY <1>0, <1>3, <2>2, <2>6 DEF DataSound, RegisteredSound
  <2>8. Extends
    BY <1>0, <1>3, <2>2 DEF Extends
  <2> QED BY <1>6, <2>2, <2>7, <2>8
<1> QED BY <1>8, <1>9, <1>10, <1>11, <1>12, <1>13

(* What a Run must be when its call makes something of it.                 *)
MadeSound(old, r) ==
    /\ DOMAIN r = RunFields /\ r.pins = old.pins /\ r.backend = old.backend
    /\ r.prior = old.prior
    /\ r.backend = "llm" => JoinSound(r)
    /\ r.backend = "llm" /\ r.status = "completed"
       => Len(r.attempts) = Len(Profiles)
    /\ r.status = "completed" /\ r.ready
       => \A s \in r.policy.require :
             \/ r.scenario = s
             \/ \E m \in r.prior : /\ m \in DOMAIN runs /\ runs[m].status = "completed"
                                   /\ runs[m].scenario = s /\ runs[m].pins = r.pins

LEMMA RunSteps ==
    ASSUME RunnerInv, NEW c \in Callers, job' = [job EXCEPT ![c] = job'[c]],
           job[c].at \in {"generate", "ask"}, UNCHANGED <<head, datasets, results, replies>>,
           NEW n, n = job[c].run, NEW r, runs' = [runs EXCEPT ![n] = r], MadeSound(runs[n], r),
           CallSound(c)', job'[c].at \in Busy => job'[c].run = n
    PROVE  RunnerInv'
<1>1. /\ DOMAIN job = Callers /\ Series(runs) /\ n \in DOMAIN runs /\ runs[n].status = "running"
      /\ RunSound(n) /\ runs[n].prior \subseteq DOMAIN runs
  BY DEF RunnerInv, CallSound, Busy
<1>2. /\ Series(runs') /\ DOMAIN runs' = DOMAIN runs /\ runs'[n] = r
      /\ \A m \in DOMAIN runs : m # n => runs'[m] = runs[m]
  BY <1>1, Altered
<1>3. \A m \in DOMAIN runs : runs[m].status = "completed" => RunKept(m)
  BY <1>1, <1>2 DEF RunKept
<1>4. ASSUME NEW m \in DOMAIN runs PROVE RunSound(m)' /\ (runs[m].prior \subseteq DOMAIN runs)'
  <2>1. CASE m = n
    <3>1. ReadinessRests(n)'
      BY <1>1, <1>2, <1>3 DEF MadeSound, ReadinessRests, RestsOn, RunKept
    <3> QED BY <1>1, <1>2, <2>1, <3>1 DEF MadeSound, RunSound
  <2>2. CASE m # n
    <3>1. RunKept(m) /\ RunSound(m) /\ runs[m].prior \subseteq DOMAIN runs
      BY <1>2, <2>2 DEF RunKept, RunnerInv
    <3>2. RunSound(m)'
      BY <1>1, <1>2, <1>3, <3>1, ReadinessStays
    <3> QED BY <1>2, <3>1, <3>2 DEF RunKept
  <2> QED BY <2>1, <2>2
<1>5. ASSUME NEW m \in DOMAIN runs, \E d \in Callers \ {c} : job[d].at \in Busy /\ job[d].run = m
      PROVE  RunKept(m)
  BY <1>2, <1>5 DEF RunnerInv, OneCall, Busy, RunKept
<1>6. Extends
  BY <1>2 DEF RunnerInv, Extends
<1>7. \A d \in Callers \ {c} : job'[d] = job[d] /\ CallSound(d)'
  BY <1>5, <1>6, OthersKept
<1>8. OneCall'
  BY <1>7, OneCallKept DEF RunnerInv, Busy
<1>9. DataSound'
  BY <1>3, <1>6, DataKept
<1> QED BY <1>1, <1>2, <1>4, <1>6, <1>7, <1>8, <1>9 DEF RunnerInv, Extends

LEMMA StartStep ==
    ASSUME RunnerInv, NEW c \in Callers, Runner!Start(c)
    PROVE  RunnerInv'
<1>0. PICK n : n = Len(runs) + 1
  OBVIOUS
<1> DEFINE r == Runner!NewRun(job[c])
           j == [at |-> IF job[c].backend = "llm" THEN "ask" ELSE "generate",
                 run |-> Len(runs) + 1, items |-> job[c].items, before |-> head, repair |-> 0,
                 transport |-> 0, posts |-> 0]
<1>1. /\ DOMAIN job = Callers /\ Series(runs) /\ CallSound(c) /\ DataSound /\ OneCall
      /\ job[c].at = "resolved" /\ runs' = Append(runs, r) /\ job' = [job EXCEPT ![c] = j]
      /\ job[c].pins.snapshot = head /\ head \in Nat
      /\ UNCHANGED <<head, datasets, results, replies>>
  BY DEF RunnerInv, Runner!Start, Runner!ContextValid
<1>2. /\ r.status = "running" /\ r.backend = job[c].backend /\ r.prior = job[c].prior
      /\ r.pins = job[c].pins /\ r.attempts = <<>> /\ r.records = <<>> /\ DOMAIN r = RunFields
  BY DEF Runner!NewRun, RunFields
<1>3. /\ j.at = (IF job[c].backend = "llm" THEN "ask" ELSE "generate") /\ j.run = n
      /\ j.repair = 0 /\ j.transport = 0 /\ j.posts = 0 /\ j.before = head
  BY <1>0
<1>4. JoinSound(r)
  <2>1. Series(<<>>) /\ DOMAIN <<>> = {} /\ Len(<<>>) = 0
    BY <<>> \in Seq({}) DEF Series
  <2> HIDE DEF r
  <2> QED BY <1>2, <2>1, RunnerAssumption DEF JoinSound
<1>5. job'[c] = j
  BY <1>1
<1> HIDE DEF r, j
<1>6. /\ Series(runs') /\ n = Len(runs) + 1 /\ n \notin DOMAIN runs
      /\ DOMAIN runs' = DOMAIN runs \cup {n} /\ runs'[n] = r
      /\ \A m \in DOMAIN runs : runs'[m] = runs[m]
  BY <1>0, <1>1, Appended
<1>7. ASSUME NEW m \in DOMAIN runs PROVE RunSound(m)' /\ (runs[m].prior \subseteq DOMAIN runs)'
  <2>1. RunSound(m)'
    BY <1>6, ReadinessStays DEF RunKept, RunnerInv
  <2> QED BY <1>6, <2>1 DEF RunnerInv
<1>8. RunSound(n)' /\ (runs[n].prior \subseteq DOMAIN runs)'
  <2>1. r.pins.instrumentOf = r.pins.snapshot /\ r.prior \subseteq DOMAIN runs
    BY <1>1, <1>2 DEF CallSound
  <2>2. JoinSound(runs'[n])
    BY <1>4, <1>6
  <2> QED BY <1>2, <1>6, <2>1, <2>2 DEF RunSound, ReadinessRests
<1>9. Extends
  BY <1>1, <1>6 DEF Extends
<1>10. \A d \in Callers \ {c} : job'[d] = job[d] /\ CallSound(d)'
  <2>1. job' = [job EXCEPT ![c] = job'[c]]
    BY <1>1, <1>5
  <2> QED BY <1>6, <1>9, <2>1, OthersKept DEF RunKept
<1>11. CallSound(c)'
  <2>1. /\ runs'[n].status = "running" /\ runs'[n].backend = job[c].backend /\ n \in DOMAIN runs'
        /\ runs'[n].pins.snapshot = head
    BY <1>1, <1>2, <1>6
  <2>2. CostSound(j)
    BY <1>3, RunnerAssumption DEF CostSound
  <2> QED
    BY <1>1, <1>3, <1>5, <2>1, <2>2 DEF CallSound, CostSound, Busy, Finished, Past, Holding
<1>12. OneCall'
  <2>1. ASSUME NEW d \in Callers \ {c}, job'[d].at \in Busy PROVE job'[d].run # n
    <3>1. CallSound(d) /\ job'[d] = job[d]
      BY <1>10 DEF RunnerInv
    <3>2. job[d].run \in DOMAIN runs
      BY <2>1, <3>1 DEF CallSound
    <3> QED BY <1>6, <3>1, <3>2
  <2> QED BY <1>1, <1>3, <1>5, <1>10, <2>1 DEF OneCall, Busy, Finished
<1>13. DataSound'
  BY <1>1, <1>6, <1>9, DataKept DEF RunKept
<1> QED BY <1>1, <1>6, <1>7, <1>8, <1>9, <1>10, <1>11, <1>12, <1>13 DEF RunnerInv, Extends

(* A failed attempt has no record; an answered one has the next.           *)
LEMMA JoinFailed ==
    ASSUME NEW old, JoinSound(old), NEW t, NEW r, Len(old.attempts) < Len(Profiles),
           r.attempts = Append(old.attempts, t), r.records = old.records,
           t.number = Len(old.attempts) + 1, t.profile = Profiles[Len(old.attempts) + 1],
           t.status = "failed"
    PROVE  JoinSound(r)
<1>1. Series(old.attempts) /\ Series(old.records)
  BY DEF JoinSound
<1>2. /\ Series(r.attempts) /\ Len(r.attempts) = Len(old.attempts) + 1
      /\ Len(old.attempts) \in Nat /\ Len(old.attempts) + 1 \notin DOMAIN old.attempts
      /\ DOMAIN r.attempts = DOMAIN old.attempts \cup {Len(old.attempts) + 1}
      /\ r.attempts[Len(old.attempts) + 1] = t
      /\ \A a \in DOMAIN old.attempts : r.attempts[a] = old.attempts[a]
  BY <1>1, Appended
<1>3. Len(r.attempts) <= Len(Profiles)
  BY <1>2, RunnerAssumption
<1>4. ASSUME NEW a \in DOMAIN r.attempts
      PROVE  /\ r.attempts[a].number = a /\ r.attempts[a].profile = Profiles[a]
             /\ r.attempts[a].status = "generated" =>
                  /\ r.attempts[a].response \in DOMAIN r.records
                  /\ r.records[r.attempts[a].response].attempt = a
  <2>1. CASE a \in DOMAIN old.attempts
    BY <1>2, <2>1 DEF JoinSound
  <2>2. CASE a = Len(old.attempts) + 1
    BY <1>2, <2>2
  <2> QED BY <1>2, <2>1, <2>2
<1>5. ASSUME NEW i \in DOMAIN r.records
      PROVE  /\ r.records[i].quality \in {"valid", "invalid", "malformed"}
             /\ r.records[i].attempt \in DOMAIN r.attempts
             /\ r.records[i].profile = Profiles[r.records[i].attempt]
             /\ r.attempts[r.records[i].attempt].status = "generated"
             /\ r.attempts[r.records[i].attempt].response = i
  BY <1>2, <1>5 DEF JoinSound
<1> QED BY <1>1, <1>2, <1>3, <1>4, <1>5 DEF JoinSound

LEMMA JoinAnswered ==
    ASSUME NEW old, JoinSound(old), NEW t, NEW e, NEW r, Len(old.attempts) < Len(Profiles),
           r.attempts = Append(old.attempts, t), r.records = Append(old.records, e),
           t.number = Len(old.attempts) + 1, t.profile = Profiles[Len(old.attempts) + 1],
           t.status = "generated", t.response = Len(old.records) + 1,
           e.profile = t.profile, e.attempt = Len(old.attempts) + 1,
           e.quality \in {"valid", "invalid", "malformed"}
    PROVE  JoinSound(r)
<1>1. Series(old.attempts) /\ Series(old.records)
  BY DEF JoinSound
<1>2. /\ Series(r.attempts) /\ Len(r.attempts) = Len(old.attempts) + 1
      /\ Len(old.attempts) \in Nat /\ Len(old.attempts) + 1 \notin DOMAIN old.attempts
      /\ DOMAIN r.attempts = DOMAIN old.attempts \cup {Len(old.attempts) + 1}
      /\ r.attempts[Len(old.attempts) + 1] = t
      /\ \A a \in DOMAIN old.attempts : r.attempts[a] = old.attempts[a]
  BY <1>1, Appended
<1>3. /\ Series(r.records) /\ Len(old.records) + 1 \notin DOMAIN old.records
      /\ DOMAIN r.records = DOMAIN old.records \cup {Len(old.records) + 1}
      /\ r.records[Len(old.records) + 1] = e
      /\ \A i \in DOMAIN old.records : r.records[i] = old.records[i]
  BY <1>1, Appended
<1>4. ASSUME NEW a \in DOMAIN r.attempts
      PROVE  /\ r.attempts[a].number = a /\ r.attempts[a].profile = Profiles[a]
             /\ r.attempts[a].status = "generated" =>
                  /\ r.attempts[a].response \in DOMAIN r.records
                  /\ r.records[r.attempts[a].response].attempt = a
  <2>1. CASE a \in DOMAIN old.attempts
    BY <1>2, <1>3, <2>1, SMTT(30) DEF JoinSound
  <2>2. CASE a = Len(old.attempts) + 1
    BY <1>2, <1>3, <2>2
  <2> QED BY <1>2, <2>1, <2>2
<1>5. ASSUME NEW i \in DOMAIN r.records
      PROVE  /\ r.records[i].quality \in {"valid", "invalid", "malformed"}
             /\ r.records[i].attempt \in DOMAIN r.attempts
             /\ r.records[i].profile = Profiles[r.records[i].attempt]
             /\ r.attempts[r.records[i].attempt].status = "generated"
             /\ r.attempts[r.records[i].attempt].response = i
  <2>1. CASE i \in DOMAIN old.records
    BY <1>2, <1>3, <2>1, SMTT(30) DEF JoinSound
  <2>2. CASE i = Len(old.records) + 1
    BY <1>2, <1>3, <2>2
  <2> QED BY <1>3, <2>1, <2>2
<1>6. Len(r.attempts) <= Len(Profiles)
  BY <1>2, RunnerAssumption
<1> QED
  <2> HIDE DEF Series
  <2> QED BY <1>2, <1>3, <1>4, <1>5, <1>6 DEF JoinSound

LEMMA AskSteps ==
    ASSUME RunnerInv, NEW c \in Callers, Runner!AttemptFails(c) \/ Runner!AttemptAnswers(c)
    PROVE  RunnerInv'
<1>1. PICK n : n = job[c].run
  OBVIOUS
<1>2. PICK old : old = runs[n]
  OBVIOUS
<1>3. /\ DOMAIN job = Callers /\ Series(runs) /\ CallSound(c)
      /\ job[c].at = "ask" /\ Runner!NextProfile(c)
      /\ UNCHANGED <<head, datasets, results, replies>>
      /\ Len(old.attempts) + 1 <= Len(Profiles)
  BY <1>1, <1>2 DEF RunnerInv, Runner!AttemptFails, Runner!AttemptAnswers, Runner!Asked,
     Runner!Attempts
<1>4. /\ n \in DOMAIN runs /\ old.status = "running" /\ old.backend = "llm"
      /\ JoinSound(old) /\ DOMAIN old = RunFields
  BY <1>1, <1>2, <1>3 DEF RunnerInv, CallSound, RunSound, Busy
<1>5. PICK S : runs \in Seq(S)
  BY <1>3 DEF Series
<1>6. \E r : runs' = [runs EXCEPT ![n] = r] /\ MadeSound(old, r)
             /\ r.status = "running" /\ r.backend = "llm"
  <2>1. CASE Runner!AttemptFails(c)
    <3>1. PICK t : t = Runner!Attempt(c, "failed", None)
      OBVIOUS
    <3>2. t.number = Len(old.attempts) + 1 /\ t.profile = Profiles[Len(old.attempts) + 1]
          /\ t.status = "failed"
      BY <1>1, <1>2, <3>1 DEF Runner!Attempt, Runner!Asked, Runner!Attempts
    <3>3. PICK r : r = [old EXCEPT !.attempts = Append(@, t)]
      OBVIOUS
    <3>4. runs' = [runs EXCEPT ![n] = r]
      BY <1>1, <1>2, <1>4, <1>5, <2>1, <3>1, <3>3 DEF Runner!AttemptFails
    <3>5. /\ DOMAIN r = RunFields /\ r.pins = old.pins /\ r.backend = old.backend
          /\ r.prior = old.prior /\ r.status = old.status /\ r.records = old.records
          /\ r.attempts = Append(old.attempts, t)
      BY <1>4, <3>3 DEF RunFields
    <3>6. JoinSound(r)
      <4>1. Len(old.attempts) < Len(Profiles)
        BY <1>3, <1>4, Appended, RunnerAssumption DEF JoinSound
      <4> QED BY <1>4, <3>2, <3>5, <4>1, JoinFailed
    <3> QED BY <1>4, <3>4, <3>5, <3>6 DEF MadeSound
  <2>2. CASE Runner!AttemptAnswers(c)
    <3>1. PICK quality \in {"valid", "invalid", "malformed"} :
            runs' = [runs EXCEPT
                ![job[c].run].attempts
                    = Append(@, Runner!Attempt(c, "generated", Runner!RecordNumber(c))),
                ![job[c].run].records = Append(@, Runner!Record(c, quality))]
      BY <2>2 DEF Runner!AttemptAnswers
    <3>2. PICK t, e : t = Runner!Attempt(c, "generated", Runner!RecordNumber(c))
               /\ e = Runner!Record(c, quality)
      OBVIOUS
    <3>3. /\ t.number = Len(old.attempts) + 1 /\ t.profile = Profiles[Len(old.attempts) + 1]
          /\ t.status = "generated" /\ t.response = Len(old.records) + 1
          /\ e.profile = t.profile /\ e.attempt = Len(old.attempts) + 1 /\ e.quality = quality
      BY <1>1, <1>2, <3>2 DEF Runner!Attempt, Runner!Asked, Runner!Attempts, Runner!Record,
         Runner!RecordNumber, Runner!Records
    <3>4. PICK r : r = [old EXCEPT !.attempts = Append(@, t), !.records = Append(@, e)]
      OBVIOUS
    <3>5. runs' = [runs EXCEPT ![n] = r]
      BY <1>1, <1>2, <1>4, <1>5, <3>1, <3>2, <3>4 DEF RunFields
    <3>6. /\ DOMAIN r = RunFields /\ r.pins = old.pins /\ r.backend = old.backend
          /\ r.prior = old.prior /\ r.status = old.status /\ r.records = Append(old.records, e)
          /\ r.attempts = Append(old.attempts, t)
      BY <1>4, <3>4 DEF RunFields
    <3>7. JoinSound(r)
      <4>1. Len(old.attempts) < Len(Profiles)
        BY <1>3, <1>4, Appended, RunnerAssumption DEF JoinSound
      <4> QED BY <1>4, <3>3, <3>6, <4>1, JoinAnswered
    <3> QED BY <1>4, <3>5, <3>6, <3>7 DEF MadeSound
  <2> QED BY <2>1, <2>2
<1>7. PICK r : runs' = [runs EXCEPT ![n] = r] /\ MadeSound(old, r)
               /\ r.status = "running" /\ r.backend = "llm"
  BY <1>6
<1>8. /\ job' = [job EXCEPT ![c] = job'[c]] /\ job'[c].at = "ask" /\ job'[c].run = n
      /\ job'[c].transport = 0 /\ job'[c].repair = 0 /\ job'[c].posts = 0
      /\ job'[c].before = job[c].before
  BY <1>1, <1>3 DEF Runner!NextProfile, Runner!Asking
<1>9. CallSound(c)'
  <2>1. runs'[n] = r /\ n \in DOMAIN runs' /\ r.pins = old.pins
    BY <1>4, <1>5, <1>7 DEF MadeSound
  <2>2. CostSound(job'[c])
    BY <1>8, RunnerAssumption DEF CostSound
  <2>3. old.pins.snapshot = job[c].before /\ job[c].before \in Nat /\ job[c].before <= head'
    BY <1>1, <1>2, <1>3 DEF CallSound
  <2> QED
    BY <1>7, <1>8, <2>1, <2>2, <2>3 DEF CallSound, CostSound, Busy, Finished, Past, Holding
<1> QED BY <1>1, <1>2, <1>3, <1>7, <1>8, <1>9, RunSteps

LEMMA CompleteSteps ==
    ASSUME RunnerInv, NEW c \in Callers, Runner!Generate(c) \/ Runner!RefusePrior(c)
           \/ Runner!AllAsked(c)
    PROVE  RunnerInv'
<1>1. PICK n : n = job[c].run
  OBVIOUS
<1>2. PICK old : old = runs[n]
  OBVIOUS
<1>3. /\ DOMAIN job = Callers /\ Series(runs) /\ CallSound(c)
      /\ job[c].at \in {"generate", "ask"} /\ UNCHANGED <<head, datasets, results, replies>>
      /\ head \in Nat
  BY DEF RunnerInv, Runner!Generate, Runner!RefusePrior, Runner!AllAsked
<1>4. /\ n \in DOMAIN runs /\ old.status = "running" /\ DOMAIN old = RunFields
      /\ old.prior \subseteq DOMAIN runs
      /\ old.backend = "llm" <=> job[c].at = "ask"
      /\ old.backend = "llm" => JoinSound(old)
      /\ old.pins.snapshot = job[c].before /\ job[c].before \in Nat /\ job[c].before <= head
  BY <1>1, <1>2, <1>3 DEF RunnerInv, CallSound, RunSound, Busy
<1>5. PICK S : runs \in Seq(S)
  BY <1>3 DEF Series
<1>6. ASSUME NEW r, runs' = [runs EXCEPT ![n] = r], MadeSound(old, r),
             \/ job' = [job EXCEPT ![c] = Runner!Idle]
             \/ /\ r.status = "completed" /\ r.ended = head
                /\ job' = [job EXCEPT ![c].at = "completed"]
      PROVE  RunnerInv'
  <2>1. runs'[n] = r /\ n \in DOMAIN runs' /\ r.pins = old.pins
    BY <1>4, <1>5, <1>6 DEF MadeSound
  <2>2. CASE job' = [job EXCEPT ![c] = Runner!Idle]
    <3>1. CallSound(c)' /\ job'[c].at \notin Busy /\ job' = [job EXCEPT ![c] = job'[c]]
      BY <1>3, <2>2 DEF CallSound, Busy, Finished, Past, Holding, Runner!Idle
    <3> QED BY <1>1, <1>2, <1>3, <1>6, <3>1, RunSteps
  <2>3. CASE /\ r.status = "completed" /\ r.ended = head
             /\ job' = [job EXCEPT ![c].at = "completed"]
    <3>1. /\ job'[c].at = "completed" /\ job'[c].run = n /\ job' = [job EXCEPT ![c] = job'[c]]
          /\ job'[c].before = job[c].before
      BY <1>1, <1>3, <2>3
    <3>2. CallSound(c)'
      BY <1>3, <1>4, <2>1, <2>3, <3>1 DEF CallSound, Busy, Finished, Past, Holding
    <3> QED BY <1>1, <1>2, <1>3, <1>6, <3>1, <3>2, RunSteps
  <2> QED BY <1>6, <2>2, <2>3
<1>7. CASE Runner!RefusePrior(c)
  <2>1. PICK r : r = [old EXCEPT !.status = "failed"]
    OBVIOUS
  <2>2. runs' = [runs EXCEPT ![n] = r] /\ job' = [job EXCEPT ![c] = Runner!Idle]
    BY <1>1, <1>2, <1>4, <1>5, <1>7, <2>1 DEF Runner!RefusePrior
  <2>3. /\ DOMAIN r = RunFields /\ r.pins = old.pins /\ r.backend = old.backend
        /\ r.prior = old.prior /\ r.status = "failed" /\ r.records = old.records
        /\ r.attempts = old.attempts
    BY <1>4, <2>1 DEF RunFields
  <2>4. MadeSound(old, r)
    BY <1>4, <2>3 DEF MadeSound, JoinSound
  <2> QED BY <1>6, <2>2, <2>4
<1>8. ASSUME NEW records, NEW attempts, NEW issues, Runner!Complete(c, records, attempts, issues),
             job' = [job EXCEPT ![c].at = "completed"],
             old.backend = "llm" => records = old.records /\ attempts = old.attempts
                                    /\ Len(attempts) = Len(Profiles),
             old.backend # "llm" => \A m \in old.prior : Runner!Counts(m, old)
      PROVE  RunnerInv'
  <2>1. PICK mid : mid = [old EXCEPT !.records = records, !.attempts = attempts]
    OBVIOUS
  <2>2. PICK open : open = Runner!OpenDefects(mid, issues)
    OBVIOUS
  <2>3. PICK ready \in BOOLEAN : ready <=> Runner!Ready(mid, open)
    OBVIOUS
  <2>4. PICK r : r = [mid EXCEPT !.status = "completed", !.open = open,
                     !.ready = Runner!Ready(mid, open), !.ended = head]
    OBVIOUS
  <2>5. runs' = [runs EXCEPT ![n] = r]
    BY <1>1, <1>2, <1>8, <2>1, <2>2, <2>4 DEF Runner!Complete
  <2>6. /\ DOMAIN mid = RunFields /\ mid.pins = old.pins /\ mid.backend = old.backend
        /\ mid.prior = old.prior /\ mid.scenario = old.scenario /\ mid.policy = old.policy
        /\ mid.records = records /\ mid.attempts = attempts
    BY <1>4, <2>1 DEF RunFields
  <2>7. /\ DOMAIN r = RunFields /\ r.pins = old.pins /\ r.backend = old.backend
        /\ r.prior = old.prior /\ r.scenario = old.scenario /\ r.policy = old.policy
        /\ r.records = records /\ r.attempts = attempts /\ r.status = "completed"
        /\ r.ready = Runner!Ready(mid, open) /\ r.ended = head
    BY <2>4, <2>6 DEF RunFields
  <2>8. ASSUME r.ready, NEW s \in r.policy.require
        PROVE  \/ r.scenario = s
               \/ \E m \in r.prior : /\ m \in DOMAIN runs /\ runs[m].status = "completed"
                                     /\ runs[m].scenario = s /\ runs[m].pins = r.pins
    <3>1. s \in Runner!PriorScenarios(mid) \cup {mid.scenario}
      BY <2>6, <2>7, <2>8 DEF Runner!Ready, Runner!Required
    <3>2. CASE s = mid.scenario
      BY <2>6, <2>7, <3>2
    <3>3. CASE s \in Runner!PriorScenarios(mid)
      <4>1. old.backend # "llm" /\ \E m \in old.prior : runs[m].scenario = s
        BY <2>6, <3>3 DEF Runner!PriorScenarios
      <4> QED BY <1>4, <1>8, <2>7, <4>1 DEF Runner!Counts, Runner!FreezeSignature
    <3> QED BY <3>1, <3>2, <3>3
  <2>9. MadeSound(old, r)
    BY <1>4, <1>8, <2>7, <2>8 DEF MadeSound, JoinSound
  <2> QED BY <1>6, <1>8, <2>5, <2>7, <2>9
<1>9. CASE Runner!Generate(c)
  <2>1. PICK issues \in SUBSET Codes :
          /\ Runner!Complete(c, <<[profile |-> None, attempt |-> None,
                                   quality |-> IF issues = {} THEN "valid" ELSE "invalid"]>>,
                             <<>>, issues)
          /\ job' = [job EXCEPT ![c].at = "completed"]
    BY <1>9 DEF Runner!Generate
  <2>2. old.backend # "llm" /\ \A m \in old.prior : Runner!Counts(m, old)
    BY <1>1, <1>2, <1>4, <1>9 DEF Runner!Generate
  <2> QED BY <1>8, <2>1, <2>2
<1>10. CASE Runner!AllAsked(c)
  <2>1. PICK issues \in SUBSET Codes : Runner!Complete(c, Runner!Records(c), Runner!Attempts(c),
             issues)
    BY <1>10 DEF Runner!AllAsked
  <2>2. job' = [job EXCEPT ![c].at = "completed"] /\ job[c].at = "ask"
        /\ Len(old.attempts) + 1 > Len(Profiles)
    BY <1>1, <1>2, <1>10 DEF Runner!AllAsked, Runner!Asked, Runner!Attempts
  <2>3. Runner!Records(c) = old.records /\ Runner!Attempts(c) = old.attempts
    BY <1>1, <1>2 DEF Runner!Records, Runner!Attempts
  <2>4. Len(old.attempts) = Len(Profiles)
    BY <1>4, <2>2, Appended, RunnerAssumption DEF JoinSound
  <2> QED BY <1>4, <1>8, <2>1, <2>2, <2>3, <2>4
<1> QED BY <1>7, <1>9, <1>10

(* Others register responses for a Run, and analyse what is registered.    *)
LEMMA OtherSteps ==
    ASSUME RunnerInv,
           \/ Runner!MoveState \/ Runner!CaptureInstrument
           \/ \E n \in DOMAIN runs : Runner!RegisterOthers(n)
                                      \/ \E items \in Items : Runner!AnalyseStored(n, items)
    PROVE  RunnerInv'
<1>1. CASE Runner!MoveState \/ Runner!CaptureInstrument
  <2>1. UNCHANGED <<runs, datasets, results, replies, job>> /\ head \in Nat
        /\ (head' = head \/ head' = head + 1)
    BY <1>1 DEF Runner!MoveState, Runner!CaptureInstrument, RunnerInv
  <2>2. Extends
    BY <2>1 DEF Extends
  <2>3. DataSound'
    BY <2>1, <2>2, DataKept DEF RunKept
  <2> QED BY <2>1, <2>2, <2>3, CallsStand
<1>2. CASE \E n \in DOMAIN runs : Runner!RegisterOthers(n)
  <2>1. PICK n \in DOMAIN runs : Runner!RegisterOthers(n)
    BY <1>2
  <2>2. PICK d : d = Runner!Strangers
    OBVIOUS
  <2>3. /\ n \in DOMAIN runs \ DOMAIN datasets /\ runs[n].status = "completed"
        /\ datasets' = Runner!With(datasets, n, d) /\ d.own = FALSE
        /\ UNCHANGED <<head, runs, results, replies, job>>
    BY <2>1, <2>2 DEF Runner!RegisterOthers, Runner!Strangers
  <2>4. Extends /\ DataSound'
    BY <2>3, Registers
  <2> QED BY <2>3, <2>4, CallsStand
<1>3. CASE \E n \in DOMAIN runs : \E items \in Items : Runner!AnalyseStored(n, items)
  <2>1. UNCHANGED <<head, runs, datasets, replies, job>> /\ results \subseteq results'
    BY <1>3 DEF Runner!AnalyseStored
  <2>2. Extends /\ DataSound'
    BY <2>1, Unregistered
  <2> QED BY <2>1, <2>2, CallsStand
<1> QED BY <1>1, <1>2, <1>3

LEMMA RunnerStep == ASSUME RunnerInv, Runner!Next PROVE RunnerInv'
BY OtherSteps, PlainSteps, LaterSteps, StartStep, AskSteps, CompleteSteps DEF Runner!Next

(* Every response is of the attempt that generated it, and of no other.    *)
LEMMA OneResponse ==
    ASSUME NEW r, JoinSound(r), NEW a \in Runner!Generated(r)
    PROVE  {i \in DOMAIN r.records : r.records[i].profile = r.attempts[a].profile}
           = {r.attempts[a].response}
<1>1. /\ a \in DOMAIN r.attempts /\ r.attempts[a].profile = Profiles[a]
      /\ r.attempts[a].response \in DOMAIN r.records
      /\ r.records[r.attempts[a].response].attempt = a
      /\ \A i \in DOMAIN r.records : /\ r.records[i].attempt \in DOMAIN r.attempts
                                     /\ r.records[i].profile = Profiles[r.records[i].attempt]
                                     /\ r.attempts[r.records[i].attempt].response = i
  BY DEF JoinSound, Runner!Generated
<1>2. DOMAIN r.attempts \subseteq DOMAIN Profiles
  BY Appended, RunnerAssumption DEF JoinSound
<1>3. ASSUME NEW i \in DOMAIN r.records, r.records[i].profile = r.attempts[a].profile
      PROVE  i = r.attempts[a].response
  BY <1>1, <1>2, <1>3, RunnerAssumption
<1> QED BY <1>1, <1>3

LEMMA AsManyResponses ==
    ASSUME NEW r, JoinSound(r)
    PROVE  Cardinality(Runner!Generated(r)) = Cardinality(DOMAIN r.records)
           /\ IsFiniteSet(DOMAIN r.records)
<1>1. Series(r.attempts) /\ Series(r.records)
  BY DEF JoinSound
<1>2. IsFiniteSet(DOMAIN r.records)
  <2>1. DOMAIN r.records = 1..Len(r.records) /\ 1 \in Int /\ Len(r.records) \in Int
    BY <1>1, Appended
  <2>2. IsFiniteSet(1..Len(r.records))
    BY <2>1, FS_Interval
  <2> QED BY <2>1, <2>2
<1> DEFINE f == [i \in DOMAIN r.records |-> r.records[i].attempt]
<1>3. f \in [DOMAIN r.records -> Runner!Generated(r)]
  BY DEF JoinSound, Runner!Generated
<1>4. \A i, k \in DOMAIN r.records : f[i] = f[k] => i = k
  BY DEF JoinSound
<1>5. \A a \in Runner!Generated(r) : \E i \in DOMAIN r.records : f[i] = a
  BY DEF JoinSound, Runner!Generated
<1>6. f \in Bijection(DOMAIN r.records, Runner!Generated(r))
  <2> HIDE DEF f
  <2> QED BY <1>3, <1>4, <1>5 DEF Bijection, Injection, IsInjective, Surjection
<1>7. ExistsBijection(DOMAIN r.records, Runner!Generated(r))
  BY <1>6 DEF ExistsBijection
<1> QED BY <1>2, <1>7, FS_Bijection

LEMMA InspectionJoins ==
    ASSUME RunnerInv, NEW n \in DOMAIN datasets, datasets[n].own, runs[n].backend = "llm"
    PROVE  LET r == runs[n]
               kept == datasets[n].accepted \cup datasets[n].rejected
                       \cup datasets[n].unreferenced
               shown == Runner!Shown(n)
           IN /\ Runner!AttemptsJoin(r) /\ Runner!ResponsesJoin(r, kept)
              /\ Runner!ProfilesJoin(r, kept)
              /\ shown.requested = shown.generated + shown.failed
              /\ shown.generated = shown.valid + shown.rejected
<1>1. PICK r : r = runs[n]
  OBVIOUS
<1>2. PICK d : d = datasets[n]
  OBVIOUS
<1>3. JoinSound(r) /\ Len(r.attempts) = Len(Profiles) /\ d = Runner!Dataset(r)
  BY <1>1, <1>2 DEF RunnerInv, DataSound, RegisteredSound, RunSound
<1>4. /\ d.accepted = Runner!OfQuality(r.records, "valid")
      /\ d.rejected = Runner!OfQuality(r.records, "invalid")
      /\ d.unreferenced = Runner!OfQuality(r.records, "malformed")
  BY <1>3 DEF Runner!Dataset
<1>5. d.accepted \cup d.rejected \cup d.unreferenced = DOMAIN r.records
  BY <1>3, <1>4 DEF JoinSound, Runner!OfQuality
<1>6. d.accepted \cap (d.rejected \cup d.unreferenced) = {}
  BY <1>4 DEF Runner!OfQuality
<1>7. Runner!AttemptsJoin(r)
  BY <1>3 DEF Runner!AttemptsJoin, JoinSound
<1>8. Runner!ResponsesJoin(r, DOMAIN r.records)
  <2> SUFFICES ASSUME NEW i \in DOMAIN r.records
               PROVE  \E a \in Runner!Generated(r) :
                         /\ r.attempts[a].profile = r.records[i].profile
                         /\ r.attempts[a].number = r.records[i].attempt
                         /\ r.attempts[a].response = i
    BY DEF Runner!ResponsesJoin
  <2>1. r.records[i].attempt \in Runner!Generated(r)
    BY <1>3 DEF JoinSound, Runner!Generated
  <2> QED BY <1>3, <2>1 DEF JoinSound
<1>9. Runner!ProfilesJoin(r, DOMAIN r.records)
  <2> SUFFICES ASSUME NEW a \in Runner!Generated(r)
               PROVE  Cardinality({i \in DOMAIN r.records :
                                      r.records[i].profile = r.attempts[a].profile}) = 1
    BY SameCount DEF Runner!ProfilesJoin
  <2>1. {i \in DOMAIN r.records : r.records[i].profile = r.attempts[a].profile}
        = {r.attempts[a].response}
    BY <1>3, OneResponse
  <2>2. Cardinality({r.attempts[a].response}) = 1
    BY FS_Singleton
  <2> QED BY <2>1, <2>2
<1>10. /\ DOMAIN r.attempts = 1..Len(Profiles) /\ IsFiniteSet(DOMAIN r.attempts)
       /\ Cardinality(DOMAIN r.attempts) = Len(Profiles)
  <2>1. DOMAIN r.attempts = 1..Len(Profiles)
    <3>1. PICK S : r.attempts \in Seq(S)
      BY <1>3 DEF JoinSound, Series
    <3> QED BY <1>3, <3>1
  <2>2. PICK most \in Nat : most = Len(Profiles)
    BY RunnerAssumption
  <2>3. IsFiniteSet(1..most) /\ Cardinality(1..most) = most
    BY FS_Interval
  <2> QED BY <2>1, <2>2, <2>3
<1>11. Cardinality(Runner!Generated(r)) + Cardinality(DOMAIN r.attempts \ Runner!Generated(r))
       = Len(Profiles)
  <2>1. /\ Runner!Generated(r) \subseteq DOMAIN r.attempts
        /\ DOMAIN r.attempts \cap Runner!Generated(r) = Runner!Generated(r)
    BY DEF Runner!Generated
  <2>2. IsFiniteSet(Runner!Generated(r)) /\ Cardinality(Runner!Generated(r)) \in Nat
    BY <1>10, <2>1, FS_Subset, FS_CardinalityType
  <2>3. Cardinality(DOMAIN r.attempts \ Runner!Generated(r))
        = Cardinality(DOMAIN r.attempts) - Cardinality(Runner!Generated(r))
    BY <1>10, <2>1, FS_Difference, ZenonT(40)
  <2> QED BY <1>10, <2>2, <2>3, RunnerAssumption
<1>12. Cardinality(Runner!Generated(r))
       = Cardinality(d.accepted) + Cardinality(d.rejected \cup d.unreferenced)
  <2>1. /\ IsFiniteSet(DOMAIN r.records)
        /\ Cardinality(Runner!Generated(r)) = Cardinality(DOMAIN r.records)
    BY <1>3, AsManyResponses
  <2>2. IsFiniteSet(d.accepted) /\ IsFiniteSet(d.rejected \cup d.unreferenced)
    BY <1>5, <2>1, FS_Subset
  <2>3. /\ Cardinality(d.accepted) \in Nat /\ Cardinality(d.rejected \cup d.unreferenced) \in Nat
        /\ Cardinality({}) = 0
    BY <2>2, FS_CardinalityType, FS_EmptySet
  <2>4. DOMAIN r.records = d.accepted \cup (d.rejected \cup d.unreferenced)
    BY <1>5
  <2>5. Cardinality(DOMAIN r.records)
        = Cardinality(d.accepted) + Cardinality(d.rejected \cup d.unreferenced) - Cardinality({})
    BY <1>6, <2>2, <2>4, FS_Union
  <2> QED BY <2>1, <2>3, <2>5
<1>13. /\ Runner!Shown(n).requested = Len(Profiles)
       /\ Runner!Shown(n).generated = Cardinality(Runner!Generated(r))
       /\ Runner!Shown(n).valid = Cardinality(d.accepted)
       /\ Runner!Shown(n).rejected = Cardinality(d.rejected \cup d.unreferenced)
       /\ Runner!Shown(n).failed = Cardinality(DOMAIN r.attempts \ Runner!Generated(r))
  BY <1>1, <1>2, SameCount DEF Runner!Shown
<1>14. /\ Runner!Shown(n).requested = Runner!Shown(n).generated + Runner!Shown(n).failed
       /\ Runner!Shown(n).generated = Runner!Shown(n).valid + Runner!Shown(n).rejected
  BY <1>11, <1>12, <1>13
<1> QED BY <1>1, <1>2, <1>5, <1>7, <1>8, <1>9, <1>14

LEMMA ValidCounted ==
    ASSUME NEW r, JoinSound(r)
    PROVE  Cardinality(Runner!OfQuality(r.records, "valid")) \in Nat
<1>1. IsFiniteSet(DOMAIN r.records)
  BY AsManyResponses
<1>2. Runner!OfQuality(r.records, "valid") \subseteq DOMAIN r.records
  BY DEF Runner!OfQuality
<1> QED BY <1>1, <1>2, FS_Subset, FS_CardinalityType

LEMMA RunnerRight ==
    RunnerInv => Runner!ReadyUnderOneFreeze /\ Runner!SuccessIsAnalysed
        /\ Runner!StateStoodStill /\ Runner!Inspectable /\ Runner!RequestsBounded
<1> SUFFICES ASSUME RunnerInv
             PROVE  /\ Runner!ReadyUnderOneFreeze /\ Runner!SuccessIsAnalysed
                    /\ Runner!StateStoodStill /\ Runner!Inspectable /\ Runner!RequestsBounded
  OBVIOUS
<1>1. Runner!ReadyUnderOneFreeze
  <2> SUFFICES ASSUME NEW n \in Runner!Completed, runs[n].ready, NEW s \in runs[n].policy.require
               PROVE  \E m \in runs[n].prior \cup {n} :
                         /\ m \in Runner!Completed /\ runs[m].scenario = s
                         /\ runs[m].pins.snapshot = runs[n].pins.snapshot
                         /\ runs[m].pins.instrumentOf = runs[m].pins.snapshot
                         /\ runs[m].pins.version = runs[n].pins.version
    BY DEF Runner!ReadyUnderOneFreeze
  <2>1. n \in DOMAIN runs /\ runs[n].status = "completed" /\ RunSound(n)
    BY DEF Runner!Completed, RunnerInv
  <2>2. PICK m \in runs[n].prior \cup {n} : RestsOn(n, m, s)
    BY <2>1 DEF RunSound, ReadinessRests
  <2>3. m \in DOMAIN runs /\ RunSound(m)
    BY <2>2 DEF RestsOn, RunnerInv
  <2> QED BY <2>2, <2>3 DEF RestsOn, RunSound, Runner!Completed
<1>2. Runner!SuccessIsAnalysed
  <2> SUFFICES ASSUME NEW n \in DOMAIN replies
               PROVE  /\ n \in DOMAIN datasets /\ datasets[n] = Runner!Dataset(runs[n])
                      /\ runs[n].backend = "llm" =>
                           IF replies[n].status = "SUCCEEDED"
                           THEN /\ Cardinality(Runner!OfQuality(runs[n].records, "valid"))
                                     >= Minimum
                                /\ <<n, replies[n].items>> \in results
                           ELSE Cardinality(Runner!OfQuality(runs[n].records, "valid")) < Minimum
                      /\ runs[n].backend # "llm" => replies[n].status = "SUCCEEDED"
    BY SameCount DEF Runner!SuccessIsAnalysed
  <2>1. AnswerSound(n)
    BY DEF RunnerInv, DataSound
  <2>2. runs[n].backend = "llm"
        => Cardinality(Runner!OfQuality(runs[n].records, "valid")) \in Nat
    BY <2>1, ValidCounted DEF AnswerSound, HasOwn, RunnerInv, DataSound, RegisteredSound, RunSound
  <2> QED BY <2>1, <2>2, RunnerAssumption DEF AnswerSound, HasOwn, Enough
<1>3. Runner!Inspectable
  BY InspectionJoins DEF Runner!Inspectable
<1>4. Runner!RequestsBounded
  BY CostBounded DEF RunnerInv, CallSound, Runner!RequestsBounded
<1>5. Runner!StateStoodStill
  BY DEF RunnerInv, DataSound, AnswerSound, Runner!StateStoodStill
<1> QED BY <1>1, <1>2, <1>3, <1>4, <1>5

-----------------------------------------------------------------------------
(* Inputs and exhibits                                                    *)

(* Rows have a number and a time, and no two of them the same number.      *)
RowsSound(rows) ==
    /\ IsFiniteSet(rows)
    /\ \A r \in rows : r.id \in Int /\ r.time \in Int
    /\ \A r, s \in rows : r.id = s.id => r = s

InputsSound == RowsSound(inputs)

ExhibitsSound ==
    /\ RowsSound(exhibits)
    /\ \A e \in exhibits : e.id \in ExhibitIds /\ e.question \in ApprovedIn[e.snapshot]

MetadataSound ==
    /\ metadata = None => exhibits = {}
    /\ metadata # None => metadata = Records!Known

Guarded == {"register", "copied", "inserted", "capture", "schema", "ready"}

RowSound(row) ==
    row.id \in ExhibitIds /\ row.time \in Nat /\ row.question \in ApprovedIn[row.snapshot]

(* What a call stores was validated against the Snapshot that its lock     *)
(* keeps in place.                                                         *)
WriterSound(c) ==
    /\ guard = c <=> clientJob[c].at \in Guarded
    /\ clientJob[c].at \in {"read", "register", "copied", "inserted"}
         => clientJob[c].content \in Contents
    /\ clientJob[c].at = "copied" => clientJob[c].stamp \in Nat
    /\ clientJob[c].at = "validated" => clientJob[c].question \in ApprovedIn[clientJob[c].snapshot]
    /\ clientJob[c].at \in {"stamped", "capture", "schema", "ready"} =>
                RowSound(clientJob[c].row) /\ clientJob[c].row.snapshot = clientJob[c].snapshot
    /\ clientJob[c].at \in {"capture", "schema", "ready"} => clientJob[c].row.snapshot = recordHead
    /\ clientJob[c].at \in {"schema", "ready"} => metadata # None

(* The rows shown are none of those still to come, and every row that was  *)
(* there when the listing began is one or the other.                       *)
(* What a listing has still to show.                                      *)
StillToShow(rows, of, cursor) == {r \in rows : Records!After(of, cursor, r)}

Ids(rows) == {r.id : r \in rows}

(* Where it goes on after a page.                                          *)
CursorAt(of, page) == [time |-> Records!LastOf(of, page).time, id |-> Records!LastOf(of, page).id]

ListingSound(rows, of, since, cursor, shown) ==
    /\ cursor \in {None} \cup [time : Int, id : Int]
    /\ shown \subseteq Ids(rows)
    /\ cursor = None => shown = {}
    /\ cursor # None => \A r \in rows : r.id \in shown => ~Records!Before(of, cursor, r)
    /\ \A i \in since : i \in shown \/ \E r \in rows : r.id = i /\ Records!After(of, cursor, r)

ListSound(c) ==
    clientJob[c].at = "list" =>
              /\ clientJob[c].of \in {"inputs", "exhibits"} /\ clientJob[c].more \in BOOLEAN
                   /\ ~clientJob[c].twice
              /\ IF clientJob[c].more
                 THEN ListingSound(Records!Rows(clientJob[c].of), clientJob[c].of,
                     clientJob[c].since, clientJob[c].cursor,
                                   clientJob[c].shown)
                 ELSE clientJob[c].since \subseteq clientJob[c].shown

RecordsInv ==
    /\ DOMAIN clientJob = Clients /\ now \in Nat /\ recordHead \in Nat
    /\ InputsSound /\ ExhibitsSound /\ MetadataSound
    /\ \A c \in Clients : WriterSound(c) /\ ListSound(c)

(* What is listed is what there is.                                        *)
LEMMA AllListed ==
    MetadataSound =>
        Records!Rows("exhibits") = exhibits /\ Records!Rows("inputs") = inputs
BY DEF MetadataSound, Records!Rows, Records!Listed, Records!Known

(* A set of numbers has a least one.                                       *)
LEMMA LeastOf ==
    ASSUME NEW S \in SUBSET Nat, S # {}
    PROVE  \E n \in S : \A m \in S : n <= m
<1> DEFINE R == OpToRel(<, Nat)
<1>1. PICK n \in S : \A m \in S : ~ (<<m, n>> \in R)
  <2> HIDE DEF R
  <2> QED BY NatLessThanWellFounded, WFMin DEF R
<1>2. ASSUME NEW m \in S PROVE n <= m
  <2>1. ~(m < n)
    BY <1>1 DEF OpToRel
  <2> QED BY <2>1
<1> QED BY <1>2

LEMMA BeforeIsOrder ==
    ASSUME NEW of, NEW S, RowsSound(S), NEW a \in S, NEW b \in S
    PROVE  /\ a # b => Records!Before(of, a, b) \/ Records!Before(of, b, a)
           /\ ~(Records!Before(of, a, b) /\ Records!Before(of, b, a))
           /\ ~Records!Before(of, a, a)
           /\ \A c \in S : Records!Before(of, a, b) /\ Records!Before(of, b, c)
                => Records!Before(of, a, c)
BY DEF Records!Before, Records!Precedes, RowsSound

LEMMA SubsetSound ==
    ASSUME NEW S, RowsSound(S), NEW T \in SUBSET S
    PROVE  RowsSound(T)
BY FS_Subset DEF RowsSound

(* A set of rows has a first one.                                          *)
LEMMA FirstExists ==
    ASSUME NEW of, NEW S, RowsSound(S), S # {}
    PROVE  \E r \in S : Records!Ahead(of, S, r) = {}
<1> DEFINE Count(r) == Cardinality(Records!Ahead(of, S, r))
           N == {Count(r) : r \in S}
<1>1. \A r \in S : IsFiniteSet(Records!Ahead(of, S, r)) /\ Count(r) \in Nat
  BY FS_Subset, FS_CardinalityType DEF RowsSound, Records!Ahead
<1>2. N \in SUBSET Nat /\ N # {}
  BY <1>1
<1>3. PICK n \in N : \A m \in N : n <= m
  <2> HIDE DEF N
  <2> QED BY <1>2, LeastOf
<1>4. PICK r \in S : n = Count(r)
  BY <1>3
<1>5. ASSUME NEW s \in Records!Ahead(of, S, r) PROVE FALSE
  <2>1. s \in S /\ Records!Before(of, s, r)
    BY <1>5 DEF Records!Ahead
  <2>2. Records!Ahead(of, S, s) \subseteq Records!Ahead(of, S, r)
    BY <2>1, <1>4, BeforeIsOrder DEF Records!Ahead
  <2>3. s \notin Records!Ahead(of, S, s)
    BY DEF Records!Ahead
  <2>4. Count(s) <= Count(r) /\ Count(s) # Count(r)
    BY <1>1, <1>4, <1>5, <2>2, <2>3, FS_Subset
  <2>5. n <= Count(s)
    BY <1>3, <2>1
  <2> QED BY <1>1, <1>4, <2>1, <2>4, <2>5
<1> QED BY <1>4, <1>5

(* And a last one.                                                         *)
LEMMA LastExists ==
    ASSUME NEW of, NEW S, RowsSound(S), S # {}
    PROVE  \E r \in S : \A s \in S : s = r \/ Records!Before(of, s, r)
<1> DEFINE way == IF of = "inputs" THEN "exhibits" ELSE "inputs"
<1>1. PICK r \in S : Records!Ahead(way, S, r) = {}
  BY FirstExists
<1>2. ASSUME NEW s \in S, s # r PROVE Records!Before(of, s, r)
  <2>1. ~Records!Before(way, s, r)
    BY <1>1, <1>2 DEF Records!Ahead
  <2> QED BY <1>2, <2>1, BeforeIsOrder DEF Records!Before
<1> QED BY <1>2

(* A page is what is listed first of what remains.                         *)
LEMMA PageIsFirst ==
    ASSUME NEW of, NEW rest, RowsSound(rest)
    PROVE  /\ Records!FirstOf(of, rest) \subseteq rest
           /\ rest # {} => Records!FirstOf(of, rest) # {}
           /\ \A r \in rest \ Records!FirstOf(of, rest),
                s \in Records!FirstOf(of, rest) : Records!Before(of, s, r)
<1>1. Records!FirstOf(of, rest) \subseteq rest
  BY DEF Records!FirstOf
<1>2. \A r \in rest : IsFiniteSet(Records!Ahead(of, rest, r))
      /\ Cardinality(Records!Ahead(of, rest, r)) \in Nat
  BY FS_Subset, FS_CardinalityType DEF RowsSound, Records!Ahead
<1>3. ASSUME rest # {} PROVE Records!FirstOf(of, rest) # {}
  <2>1. PICK r \in rest : Records!Ahead(of, rest, r) = {}
    BY <1>3, FirstExists
  <2>2. Cardinality(Records!Ahead(of, rest, r)) = 0
    BY <2>1, FS_EmptySet
  <2> QED BY <2>2, RecordAssumption, SameCount DEF Records!FirstOf
<1>4. ASSUME NEW r \in rest \ Records!FirstOf(of, rest), NEW s \in Records!FirstOf(of, rest)
      PROVE  Records!Before(of, s, r)
  <2>1. SUFFICES ASSUME ~Records!Before(of, s, r) PROVE FALSE
    OBVIOUS
  <2>2. s \in rest /\ r \in rest /\ r # s
    BY <1>1, <1>4
  <2>3. Records!Before(of, r, s)
    BY <2>1, <2>2, BeforeIsOrder
  <2>4. Records!Ahead(of, rest, r) \subseteq Records!Ahead(of, rest, s)
    BY <2>2, <2>3, BeforeIsOrder DEF Records!Ahead
  <2>5. Cardinality(Records!Ahead(of, rest, r)) <= Cardinality(Records!Ahead(of, rest, s))
    BY <1>2, <2>2, <2>4, FS_Subset
  <2>6. /\ Cardinality(Records!Ahead(of, rest, s)) < PageLimit
        /\ ~(Cardinality(Records!Ahead(of, rest, r)) < PageLimit)
    BY <1>4, SameCount DEF Records!FirstOf
  <2> QED BY <1>2, <2>2, <2>5, <2>6, RecordAssumption
<1> QED BY <1>1, <1>3, <1>4

(* New rows are new to a listing that is under way.                        *)
LEMMA ListingGrows ==
    ASSUME NEW old, NEW new, old \subseteq new,
           \A r \in new \ old, s \in old : r.id # s.id,
           NEW of, NEW since, NEW cursor, NEW shown,
           ListingSound(old, of, since, cursor, shown)
    PROVE  ListingSound(new, of, since, cursor, shown)
<1>1. ASSUME NEW r \in new, r.id \in shown PROVE r \in old
  BY <1>1 DEF ListingSound, Ids
<1> QED BY <1>1 DEF ListingSound, Ids

(* A page shows nothing again, and leaves out nothing that came before     *)
(* what it leaves for the next one.                                        *)
LEMMA PageRead ==
    ASSUME NEW rows, RowsSound(rows), NEW of, NEW since, NEW cursor, NEW shown,
           ListingSound(rows, of, since, cursor, shown),
           NEW rest, rest = StillToShow(rows, of, cursor),
           NEW page, page = Records!FirstOf(of, rest)
    PROVE  /\ rest # page => ListingSound(rows, of, since, CursorAt(of, page), shown \cup Ids(page))
           /\ rest = page => since \subseteq shown \cup Ids(page)
           /\ \A r \in page : r.id \notin shown
<1> USE DEF StillToShow, Ids
<1> DEFINE last == Records!LastOf(of, page)
           next == CursorAt(of, page)
<1>1. RowsSound(rest) /\ rest \subseteq rows
  BY SubsetSound
<1>2. /\ page \subseteq rest /\ (rest # {} => page # {})
      /\ \A r \in rest \ page, s \in page : Records!Before(of, s, r)
  BY <1>1, PageIsFirst
<1>3. ASSUME NEW r \in page, r.id \in shown PROVE FALSE
  <2>1. r \in rows /\ Records!After(of, cursor, r)
    BY <1>1, <1>2
  <2>2. CASE cursor = None
    BY <1>3, <2>2 DEF ListingSound
  <2>3. CASE cursor # None
    BY <1>3, <2>1, <2>3 DEF ListingSound, Records!After
  <2> QED BY <2>2, <2>3
<1>4. ASSUME NEW i \in since
      PROVE  i \in shown \cup {r.id : r \in page} \/ \E r \in rest \ page : r.id = i
  <2>1. i \in shown \/ \E r \in rows : r.id = i /\ Records!After(of, cursor, r)
    BY DEF ListingSound
  <2> QED BY <2>1
<1>5. CASE rest = page
  BY <1>3, <1>4, <1>5
<1>6. CASE rest # page
  <2>1. page # {} /\ RowsSound(page)
    BY <1>1, <1>2, <1>6, SubsetSound
  <2>2. last \in page /\ \A s \in page : s = last \/ Records!Before(of, s, last)
    BY <2>1, LastExists DEF Records!LastOf
  <2>3. last \in rows /\ last.time \in Int /\ last.id \in Int /\ Records!After(of, cursor, last)
    BY <1>1, <1>2, <2>2 DEF RowsSound
  <2>4. next = [time |-> last.time, id |-> last.id]
    BY DEF CursorAt
  <2>5. next \in [time : Int, id : Int] /\ next # None
    BY <2>3, <2>4, RecordAssumption
  <2>6. next.time = last.time /\ next.id = last.id
    BY DEF CursorAt
  <2>7. \A r : Records!Before(of, next, r) <=> Records!Before(of, last, r)
    BY <2>6 DEF Records!Before, Records!Precedes
  <2>8. ASSUME NEW r \in rows, r.id \in shown \cup {s.id : s \in page}
        PROVE  ~Records!Before(of, next, r)
    <3>1. CASE r \in page
      BY <1>1, <1>2, <2>2, <2>3, <2>7, <3>1, BeforeIsOrder
    <3>2. CASE r \notin page
      <4>1. r.id \in shown
        BY <1>1, <1>2, <2>8, <3>2 DEF RowsSound
      <4>2. cursor # None /\ ~Records!Before(of, cursor, r)
        BY <4>1 DEF ListingSound
      <4>3. Records!Before(of, cursor, last)
        BY <2>3, <4>2 DEF Records!After
      <4>4. cursor.time \in Int /\ cursor.id \in Int
        BY <4>2 DEF ListingSound
      <4>5. ~Records!Before(of, last, r)
        BY <2>3, <4>2, <4>3, <4>4 DEF Records!Before, Records!Precedes, RowsSound
      <4> QED BY <2>7, <4>5
    <3> QED BY <3>1, <3>2
  <2>9. ASSUME NEW r \in rest \ page PROVE r \in rows /\ Records!After(of, next, r)
    BY <1>1, <1>2, <2>2, <2>7 DEF Records!After
  <2>10. shown \cup Ids(page) \subseteq Ids(rows)
    BY <1>1, <1>2 DEF ListingSound
  <2> HIDE DEF next
  <2>11. \A i \in since : i \in shown \cup {r.id : r \in page}
             \/ \E r \in rows : r.id = i /\ Records!After(of, next, r)
    BY <1>4, <2>9
  <2> HIDE DEF last
  <2>12. \A r \in rows : r.id \in shown \cup Ids(page) => ~Records!Before(of, next, r)
    BY <2>8
  <2>13. \A i \in since : i \in shown \cup Ids(page)
             \/ \E r \in rows : r.id = i /\ Records!After(of, next, r)
    BY <2>11
  <2>14. next \in {None} \cup [time : Int, id : Int]
    BY <2>5
  <2> HIDE DEF Ids
  <2>15. ListingSound(rows, of, since, next, shown \cup Ids(page))
    BY <2>5, <2>10, <2>12, <2>13, <2>14 DEF ListingSound
  <2> QED BY <1>3, <1>6, <2>15 DEF next
<1> QED BY <1>5, <1>6

LEMMA RecordsInit == Records!Init => RecordsInv
<1> SUFFICES ASSUME Records!Init PROVE RecordsInv
  OBVIOUS
<1>1. exhibits = {} /\ inputs = {} /\ metadata = None
  BY RecordAssumption DEF Records!Init
<1>2. RowsSound({})
  BY FS_EmptySet DEF RowsSound
<1>3. InputsSound /\ ExhibitsSound /\ MetadataSound
  BY <1>1, <1>2 DEF InputsSound, ExhibitsSound, MetadataSound
<1>4. \A c \in Clients : clientJob[c].at = "idle" /\ guard # c
  BY RecordAssumption DEF Records!Init, Records!Idle
<1>5. \A c \in Clients : WriterSound(c) /\ ListSound(c)
  BY <1>4 DEF WriterSound, ListSound, Guarded
<1> QED BY <1>3, <1>5 DEF Records!Init, RecordsInv

(* A listing stays as it is while nothing is listed anew.                  *)
LEMMA ListingStands ==
    ASSUME MetadataSound, MetadataSound', UNCHANGED <<inputs, exhibits>>,
           NEW c \in Clients, ListSound(c), clientJob'[c] = clientJob[c]
    PROVE  ListSound(c)'
<1>1. /\ Records!Rows("exhibits")' = Records!Rows("exhibits")
      /\ Records!Rows("inputs")' = Records!Rows("inputs")
  <2>1. Records!Rows("exhibits")' = exhibits' /\ Records!Rows("inputs")' = inputs'
    BY DEF MetadataSound, Records!Rows, Records!Listed, Records!Known
  <2> QED BY <2>1, AllListed
<1>2. ASSUME NEW of \in {"inputs", "exhibits"}, NEW since, NEW cursor, NEW shown,
             ListingSound(Records!Rows(of), of, since, cursor, shown)
      PROVE  ListingSound(Records!Rows(of), of, since, cursor, shown)'
  BY <1>1, <1>2 DEF ListingSound, Records!Before, Records!Precedes, Records!After, Ids
<1>3. CASE clientJob[c].at = "list"
  <2>1. PICK j : j = clientJob[c]
    OBVIOUS
  <2>2. j.more => ListingSound(Records!Rows(j.of), j.of, j.since, j.cursor, j.shown)'
    BY <1>2, <1>3, <2>1 DEF ListSound
  <2> QED BY <1>3, <2>1, <2>2 DEF ListSound
<1>4. CASE clientJob[c].at # "list"
  BY <1>4 DEF ListSound
<1> QED BY <1>3, <1>4

(* And goes on past what is added.                                         *)
LEMMA ListingGoesOn ==
    ASSUME MetadataSound, MetadataSound', InputsSound', ExhibitsSound',
           inputs \subseteq inputs', exhibits \subseteq exhibits',
           NEW c \in Clients, ListSound(c), clientJob'[c] = clientJob[c]
    PROVE  ListSound(c)'
<1>1. /\ Records!Rows("exhibits") \subseteq Records!Rows("exhibits")'
      /\ Records!Rows("inputs") \subseteq Records!Rows("inputs")'
      /\ RowsSound(Records!Rows("exhibits")') /\ RowsSound(Records!Rows("inputs")')
  <2>1. Records!Rows("exhibits")' = exhibits' /\ Records!Rows("inputs")' = inputs'
    BY DEF MetadataSound, Records!Rows, Records!Listed, Records!Known
  <2> QED BY <2>1, AllListed DEF InputsSound, ExhibitsSound, RowsSound
<1>2. CASE clientJob[c].at = "list"
  <2>1. PICK j : j = clientJob[c]
    OBVIOUS
  <2>2. PICK old, new : old = Records!Rows(j.of) /\ new = Records!Rows(j.of)'
    OBVIOUS
  <2>3. j.of \in {"inputs", "exhibits"}
    BY <1>2, <2>1 DEF ListSound
  <2>4. old \subseteq new /\ \A r \in new \ old, s \in old : r.id # s.id
    <3>1. CASE j.of = "inputs"
      BY <1>1, <2>2, <3>1 DEF RowsSound
    <3>2. CASE j.of = "exhibits"
      BY <1>1, <2>2, <3>2 DEF RowsSound
    <3> QED BY <2>3, <3>1, <3>2
  <2>5. j.more => ListingSound(old, j.of, j.since, j.cursor, j.shown)
    BY <1>2, <2>1, <2>2 DEF ListSound
  <2>6. j.more => ListingSound(new, j.of, j.since, j.cursor, j.shown)
    BY <2>4, <2>5, ListingGrows
  <2> QED BY <1>2, <2>1, <2>2, <2>6 DEF ListSound
<1>3. CASE clientJob[c].at # "list"
  BY <1>3 DEF ListSound
<1> QED BY <1>2, <1>3

(* One more row with a number of its own.                                  *)
LEMMA RowsGrow ==
    ASSUME NEW S, RowsSound(S), NEW r, r.id \in Int, r.time \in Int, \A s \in S : s.id # r.id
    PROVE  RowsSound(S \cup {r})
BY FS_AddElement DEF RowsSound

(* A call that leaves the records alone.                                   *)
Leaves(c) ==
    /\ clientJob' = [clientJob EXCEPT ![c] = clientJob'[c]]
    /\ UNCHANGED <<recordHead, now, inputs, exhibits, metadata>>
    /\ guard' = guard \/ (guard = None /\ guard' = c) \/ (guard = c /\ guard' = None)

LEMMA OthersStand ==
    ASSUME RecordsInv, NEW c \in Clients, Leaves(c), WriterSound(c)', ListSound(c)'
    PROVE  RecordsInv'
<1>1. MetadataSound' /\ InputsSound' /\ ExhibitsSound' /\ DOMAIN clientJob' = Clients
  BY DEF RecordsInv, Leaves, MetadataSound, InputsSound, ExhibitsSound, Records!Known
<1>2. ASSUME NEW d \in Clients, d # c PROVE WriterSound(d)' /\ ListSound(d)'
  <2>1. clientJob'[d] = clientJob[d] /\ WriterSound(d) /\ ListSound(d)
    BY <1>2 DEF RecordsInv, Leaves
  <2>2. WriterSound(d)'
    BY <1>2, <2>1, RecordAssumption DEF WriterSound, Leaves, RowSound
  <2>3. ListSound(d)'
    BY <1>1, <2>1, ListingStands DEF RecordsInv, Leaves
  <2> QED BY <2>2, <2>3
<1> QED BY <1>1, <1>2 DEF RecordsInv, Leaves

LEMMA WriterSteps ==
    ASSUME RecordsInv, NEW c \in Clients,
           \/ Records!GuardHead(c) \/ Records!RefuseStale(c) \/ Records!Crash(c)
                \/ Records!ReadFile(c) \/ Records!StoreCopy(c)
           \/ Records!RefuseCopy(c) \/ Records!VerifyCopy(c) \/ Records!Validate(c)
                \/ Records!Stamp(c) \/ Records!EndList(c)
    PROVE  RecordsInv'
<1>1. WriterSound(c) /\ DOMAIN clientJob = Clients /\ c # None /\ now \in Nat /\ recordHead \in Nat
  BY RecordAssumption DEF RecordsInv
<1>2. Leaves(c) /\ WriterSound(c)' /\ clientJob'[c].at # "list"
  <2>1. CASE Records!GuardHead(c)
    BY <1>1, <2>1 DEF Records!GuardHead, Records!StillHead, Leaves, WriterSound, Guarded,
       RowSound
  <2>2. CASE Records!RefuseStale(c)
    BY <1>1, <2>2 DEF Records!RefuseStale, Records!Idle, Leaves, WriterSound, Guarded
  <2>3. CASE Records!Crash(c)
    BY <1>1, <2>3 DEF Records!Crash, Records!Idle, Leaves, WriterSound, Guarded
  <2>4. CASE Records!ReadFile(c)
    BY <1>1, <2>4 DEF Records!ReadFile, Records!Idle, Leaves, WriterSound, Guarded
  <2>5. CASE Records!StoreCopy(c)
    BY <1>1, <2>5 DEF Records!StoreCopy, Records!Idle, Leaves, WriterSound, Guarded
  <2>6. CASE Records!RefuseCopy(c) \/ Records!VerifyCopy(c) \/ Records!EndList(c)
    BY <1>1, <2>6 DEF Records!RefuseCopy, Records!VerifyCopy, Records!EndList,
       Records!Release, Records!Idle, Leaves, WriterSound, Guarded
  <2>7. CASE Records!Validate(c)
    BY <1>1, <2>7 DEF Records!Validate, Records!QuestionApproved, Records!Idle, Leaves,
       WriterSound, Guarded
  <2>8. CASE Records!Stamp(c)
    <3>1. PICK id \in ExhibitIds :
             /\ clientJob' = [clientJob EXCEPT ![c] =
                  [at |-> "stamped", snapshot |-> recordHead,
                   row |-> [id |-> id, time |-> now, question |-> clientJob[c].question,
                            from |-> clientJob[c].from, source |-> clientJob[c].source,
                            snapshot |-> recordHead]]]
             /\ clientJob[c].at = "validated" /\ clientJob[c].snapshot = recordHead
             /\ UNCHANGED <<recordHead, guard, now, inputs, copies, damaged, exhibits, metadata>>
      BY <2>8 DEF Records!Stamp
    <3>2. /\ clientJob'[c].at = "stamped" /\ RowSound(clientJob'[c].row)
          /\ clientJob'[c].row.snapshot = recordHead
          /\ clientJob'[c].snapshot = recordHead
      BY <1>1, <3>1 DEF RowSound, WriterSound
    <3>3. WriterSound(c)'
      BY <1>1, <3>1, <3>2 DEF WriterSound, Guarded, RowSound
    <3> QED BY <1>1, <3>1, <3>2, <3>3 DEF Leaves
  <2> QED BY <2>1, <2>2, <2>3, <2>4, <2>5, <2>6, <2>7, <2>8
<1>3. ListSound(c)'
  BY <1>2 DEF ListSound
<1> QED BY <1>2, <1>3, OthersStand

LEMMA SurroundingSteps ==
    ASSUME RecordsInv, Records!MoveState \/ Records!Tick \/ Records!Damage \/ Records!Recover
    PROVE  RecordsInv'
<1>1. /\ UNCHANGED <<guard, inputs, exhibits, metadata, clientJob>> /\ recordHead' \in Nat
      /\ now' \in Nat
      /\ recordHead' = recordHead \/ guard = None
  BY DEF RecordsInv, Records!MoveState, Records!Tick, Records!Damage, Records!Recover
<1>2. MetadataSound' /\ InputsSound' /\ ExhibitsSound'
  BY <1>1 DEF RecordsInv, MetadataSound, InputsSound, ExhibitsSound, Records!Known
<1>3. ASSUME NEW c \in Clients PROVE WriterSound(c)' /\ ListSound(c)'
  <2>1. WriterSound(c)'
    BY <1>1, RecordAssumption DEF RecordsInv, WriterSound, Guarded, RowSound
  <2>2. ListSound(c)'
    BY <1>1, <1>2, ListingStands DEF RecordsInv
  <2> QED BY <2>1, <2>2
<1> QED BY <1>1, <1>2, <1>3 DEF RecordsInv

LEMMA StoreSteps ==
    ASSUME RecordsInv, NEW c \in Clients, Records!InsertInput(c) \/ Records!InsertExhibit(c)
    PROVE  RecordsInv'
<1>1. /\ WriterSound(c) /\ DOMAIN clientJob = Clients /\ recordHead \in Nat
      /\ InputsSound /\ ExhibitsSound /\ MetadataSound
  BY DEF RecordsInv
<1>2. /\ guard = c /\ clientJob'[c].at \in {"inserted", "idle"} /\ UNCHANGED <<recordHead, now>>
      /\ clientJob'[c].at = "inserted" => clientJob'[c].content \in Contents /\ guard' = c
      /\ clientJob'[c].at = "idle" => guard' = None
      /\ guard' = guard \/ guard' = None
      /\ \A d \in Clients : d # c => clientJob'[d] = clientJob[d]
      /\ DOMAIN clientJob' = Clients
  BY <1>1 DEF Records!InsertInput, Records!InsertExhibit, Records!Release, WriterSound,
     Guarded, Records!Idle
<1>3. /\ InputsSound' /\ ExhibitsSound' /\ MetadataSound'
      /\ inputs \subseteq inputs' /\ exhibits \subseteq exhibits'
  <2>1. CASE Records!InsertInput(c)
    <3> DEFINE id == Records!InputId(clientJob[c].content, recordHead)
               r == [id |-> id, time |-> clientJob[c].stamp, content |-> clientJob[c].content,
                     snapshot |-> recordHead]
    <3>1. id \in Int /\ clientJob[c].stamp \in Int
      BY <1>1, <2>1, RecordAssumption DEF Records!InsertInput, WriterSound, Records!InputId
    <3>2. r.id = id /\ r.time = clientJob[c].stamp
      OBVIOUS
    <3>3. inputs' = IF \E i \in inputs : i.id = id THEN inputs ELSE inputs \cup {r}
      BY <2>1 DEF Records!InsertInput
    <3> HIDE DEF id, r
    <3>4. InputsSound' /\ inputs \subseteq inputs'
      BY <1>1, <3>1, <3>2, <3>3, RowsGrow DEF InputsSound
    <3> QED BY <1>1, <2>1, <3>4 DEF Records!InsertInput, ExhibitsSound, MetadataSound,
       Records!Known
  <2>2. CASE Records!InsertExhibit(c) /\ clientJob[c].row.id \in Records!Known
    BY <1>1, <2>2 DEF Records!InsertExhibit, InputsSound, ExhibitsSound, MetadataSound,
       Records!Known
  <2>3. CASE Records!InsertExhibit(c) /\ clientJob[c].row.id \notin Records!Known
    <3> DEFINE r == clientJob[c].row
    <3>1. RowSound(r) /\ r.id \in Int /\ r.time \in Int /\ metadata # None
      <4>1. RowSound(r) /\ metadata # None
        BY <1>1, <2>3 DEF Records!InsertExhibit, WriterSound
      <4>2. r.id \in ExhibitIds /\ r.time \in Nat
        BY <4>1 DEF RowSound
      <4>3. \A n \in ExhibitIds : n \in Int
        BY RecordAssumption
      <4> HIDE DEF r
      <4> QED BY <4>1, <4>2, <4>3
    <3>2. exhibits' = exhibits \cup {r} /\ metadata' = metadata \cup {r.id} /\ inputs' = inputs
      BY <2>3 DEF Records!InsertExhibit
    <3>3. \A e \in exhibits : e.id # r.id
      BY <2>3 DEF Records!Known
    <3>4. metadata = Records!Known /\ Records!Known \subseteq ExhibitIds
      BY <1>1, <3>1 DEF MetadataSound, ExhibitsSound, Records!Known
    <3>5. ExhibitsSound'
      BY <1>1, <3>1, <3>2, <3>3, RowsGrow DEF ExhibitsSound, RowSound
    <3>6. metadata' # None /\ metadata' = Records!Known'
      BY <3>1, <3>2, <3>4, RecordAssumption DEF Records!Known, RowSound
    <3> QED BY <1>1, <3>2, <3>5, <3>6 DEF InputsSound, MetadataSound
  <2> QED BY <2>1, <2>2, <2>3
<1>4. metadata # None => metadata' # None
  <2>1. CASE Records!InsertInput(c)
    BY <2>1 DEF Records!InsertInput
  <2>2. CASE Records!InsertExhibit(c)
    <3>1. CASE clientJob[c].row.id \in Records!Known
      BY <2>2, <3>1 DEF Records!InsertExhibit
    <3>2. CASE clientJob[c].row.id \notin Records!Known
      <4>1. exhibits' # {}
        BY <2>2, <3>2 DEF Records!InsertExhibit
      <4> QED BY <1>3, <4>1 DEF MetadataSound
    <3> QED BY <3>1, <3>2
  <2> QED BY <2>1, <2>2
<1>5. ASSUME NEW d \in Clients PROVE WriterSound(d)' /\ ListSound(d)'
  <2>1. CASE d = c
    BY <1>2, <2>1, RecordAssumption DEF WriterSound, ListSound, Guarded
  <2>2. CASE d # c
    <3>1. clientJob'[d] = clientJob[d] /\ WriterSound(d) /\ ListSound(d)
      BY <1>2, <2>2 DEF RecordsInv
    <3>2. WriterSound(d)'
      BY <1>2, <1>4, <2>2, <3>1, RecordAssumption DEF WriterSound, RowSound
    <3>3. ListSound(d)'
      BY <1>1, <1>3, <3>1, ListingGoesOn
    <3> QED BY <3>2, <3>3
  <2> QED BY <2>1, <2>2
<1> QED BY <1>2, <1>3, <1>5 DEF RecordsInv

LEMMA SchemaSteps ==
    ASSUME RecordsInv, NEW c \in Clients, Records!CreateTables(c) \/ Records!Backfill(c)
    PROVE  RecordsInv'
<1>1. WriterSound(c) /\ DOMAIN clientJob = Clients /\ InputsSound /\ ExhibitsSound /\ MetadataSound
  BY DEF RecordsInv
<1>2. /\ UNCHANGED <<recordHead, guard, now, inputs, exhibits>>
      /\ clientJob[c].at \in {"capture", "schema"} /\ clientJob'[c].at \in {"schema", "ready"}
      /\ clientJob'[c].row = clientJob[c].row /\ clientJob'[c].snapshot = clientJob[c].snapshot
      /\ \A d \in Clients : d # c => clientJob'[d] = clientJob[d]
      /\ DOMAIN clientJob' = Clients
  <2>1. CASE Records!CreateTables(c)
    BY <1>1, <2>1 DEF Records!CreateTables
  <2>2. CASE Records!Backfill(c)
    BY <1>1, <2>2 DEF Records!Backfill
  <2> QED BY <2>1, <2>2
<1>3. /\ Records!Known \in SUBSET ExhibitIds /\ Records!Known # None
      /\ Records!Known' = Records!Known /\ None # {}
  BY <1>1, <1>2, RecordAssumption DEF ExhibitsSound, Records!Known
<1>4. metadata' # None /\ MetadataSound' /\ InputsSound' /\ ExhibitsSound'
  <2>1. metadata' # None /\ metadata' = Records!Known
    <3>1. CASE Records!CreateTables(c)
      BY <1>1, <1>3, <3>1 DEF Records!CreateTables, MetadataSound, Records!Known
    <3>2. CASE Records!Backfill(c)
      BY <1>3, <3>2 DEF Records!Backfill
    <3> QED BY <3>1, <3>2
  <2> QED BY <1>1, <1>2, <1>3, <2>1 DEF MetadataSound, InputsSound, ExhibitsSound
<1>5. ASSUME NEW d \in Clients PROVE WriterSound(d)' /\ ListSound(d)'
  <2>1. CASE d = c
    BY <1>1, <1>2, <1>4, <2>1 DEF WriterSound, ListSound, Guarded, RowSound
  <2>2. CASE d # c
    <3>1. clientJob'[d] = clientJob[d] /\ WriterSound(d) /\ ListSound(d)
      BY <1>2, <2>2 DEF RecordsInv
    <3>2. WriterSound(d)'
      BY <1>2, <1>4, <3>1 DEF WriterSound, RowSound
    <3>3. ListSound(d)'
      BY <1>1, <1>2, <1>4, <3>1, ListingStands
    <3> QED BY <3>2, <3>3
  <2> QED BY <2>1, <2>2
<1> QED BY <1>2, <1>4, <1>5 DEF RecordsInv

LEMMA ListSteps ==
    ASSUME RecordsInv, NEW c \in Clients, Records!StartList(c) \/ Records!ReadPage(c)
    PROVE  RecordsInv'
<1>1. /\ WriterSound(c) /\ ListSound(c) /\ DOMAIN clientJob = Clients
      /\ InputsSound /\ ExhibitsSound /\ MetadataSound
  BY DEF RecordsInv
<1>2. Leaves(c) /\ clientJob[c].at \notin Guarded /\ clientJob'[c].at = "list" /\ guard' = guard
  <2>1. CASE Records!StartList(c)
    BY <1>1, <2>1 DEF Records!StartList, Leaves, Records!Idle, Guarded
  <2>2. CASE Records!ReadPage(c)
    <3>1. PICK k : clientJob' = [clientJob EXCEPT ![c] = k] /\ k.at = "list"
               /\ clientJob[c].at = "list"
                   /\ UNCHANGED <<recordHead, guard, now, inputs, copies, damaged, exhibits,
                        metadata>>
      BY <2>2 DEF Records!ReadPage
    <3> QED BY <1>1, <3>1 DEF Leaves, Guarded
  <2> QED BY <2>1, <2>2
<1>3. WriterSound(c)'
  <2>1. guard # c
    BY <1>1, <1>2 DEF WriterSound
  <2> QED BY <1>2, <2>1 DEF WriterSound, Guarded
<1>4. /\ Records!Rows("exhibits")' = Records!Rows("exhibits")
      /\ Records!Rows("inputs")' = Records!Rows("inputs")
      /\ RowsSound(Records!Rows("exhibits")) /\ RowsSound(Records!Rows("inputs"))
  BY <1>1, <1>2, AllListed DEF Leaves, Records!Rows, Records!Listed, InputsSound, ExhibitsSound
<1>5. CASE Records!StartList(c)
  <2>1. PICK of \in {"inputs", "exhibits"} :
          clientJob'[c] = [at |-> "list", of |-> of, since |-> {r.id : r \in Records!Rows(of)},
                           cursor |-> None, shown |-> {}, twice |-> FALSE, more |-> TRUE]
    BY <1>1, <1>5 DEF Records!StartList
  <2>2. PICK rows : rows = Records!Rows(of)
    OBVIOUS
  <2>3. Records!Rows(of)' = rows
    BY <1>4, <2>2
  <2>4. ListingSound(rows, of, Ids(rows), None, {})
    BY DEF ListingSound, Records!After, Ids
  <2>5. PICK j : j = clientJob'[c]
    OBVIOUS
  <2>6. /\ j.of = of /\ j.since = Ids(rows) /\ j.cursor = None /\ j.shown = {}
        /\ j.more = TRUE /\ j.twice = FALSE
    BY <2>1, <2>2, <2>5 DEF Ids
  <2>7. ListSound(c)'
    BY <2>3, <2>4, <2>5, <2>6 DEF ListSound
  <2> QED BY <1>2, <1>3, <2>7, OthersStand
<1>6. CASE Records!ReadPage(c)
  <2>1. PICK j : j = clientJob[c]
    OBVIOUS
  <2>2. PICK rows : rows = Records!Rows(j.of)
    OBVIOUS
  <2>3. j.at = "list" /\ j.more /\ j.of \in {"inputs", "exhibits"} /\ ~j.twice
        /\ ListingSound(rows, j.of, j.since, j.cursor, j.shown)
    BY <1>1, <1>6, <2>1, <2>2 DEF Records!ReadPage, ListSound
  <2>4. Records!Rows(j.of)' = rows /\ RowsSound(rows)
    BY <1>4, <2>2, <2>3
  <2>5. PICK rest : rest = StillToShow(rows, j.of, j.cursor)
    OBVIOUS
  <2>6. PICK page : page = Records!FirstOf(j.of, rest)
    OBVIOUS
  <2>7. /\ rest # page => ListingSound(rows, j.of, j.since, CursorAt(j.of, page),
                                       j.shown \cup Ids(page))
        /\ rest = page => j.since \subseteq j.shown \cup Ids(page)
        /\ \A r \in page : r.id \notin j.shown
    BY <2>3, <2>4, <2>5, <2>6, PageRead
  <2>8. Records!Page(j.of, j.cursor) = page /\ Records!Remaining(j.of, j.cursor) = rest
    BY <2>2, <2>5, <2>6 DEF Records!Page, Records!Remaining, StillToShow
  <2>9. PICK k : k = clientJob'[c]
    OBVIOUS
  <2>10. /\ k.at = "list" /\ k.of = j.of /\ k.since = j.since /\ k.more = (rest # page)
         /\ rest # page => k.cursor = CursorAt(j.of, page)
         /\ k.shown = j.shown \cup Ids(page)
         /\ k.twice = (j.twice \/ \E r \in page : r.id \in j.shown)
    BY <1>1, <1>6, <2>1, <2>8, <2>9 DEF Records!ReadPage, CursorAt, Ids
  <2>11. k.more \in BOOLEAN /\ ~k.twice
    BY <2>3, <2>7, <2>10
  <2>12. IF k.more THEN ListingSound(rows, k.of, k.since, k.cursor, k.shown)
         ELSE k.since \subseteq k.shown
    BY <2>7, <2>10
  <2>13. ListSound(c)'
    BY <2>3, <2>4, <2>9, <2>10, <2>11, <2>12 DEF ListSound
  <2> QED BY <1>2, <1>3, <2>13, OthersStand
<1> QED BY <1>5, <1>6

LEMMA RecordsStep == ASSUME RecordsInv, Records!Next PROVE RecordsInv'
BY WriterSteps, SurroundingSteps, StoreSteps, SchemaSteps, ListSteps DEF Records!Next

LEMMA RecordsStand == ASSUME RecordsInv, UNCHANGED Records!vars PROVE RecordsInv'
<1>1. MetadataSound' /\ InputsSound' /\ ExhibitsSound'
  BY DEF RecordsInv, Records!vars, MetadataSound, InputsSound, ExhibitsSound, Records!Known
<1>2. ASSUME NEW c \in Clients PROVE WriterSound(c)' /\ ListSound(c)'
  <2>1. WriterSound(c)'
    BY DEF RecordsInv, Records!vars, WriterSound, Guarded, RowSound
  <2>2. ListSound(c)'
    BY <1>1, ListingStands DEF RecordsInv, Records!vars
  <2> QED BY <2>1, <2>2
<1> QED BY <1>1, <1>2 DEF RecordsInv, Records!vars

LEMMA RecordsRight == RecordsInv => Records!ListingComplete
BY DEF RecordsInv, ListSound, ListingSound, Records!ListingComplete

LEMMA RecordsBound == ASSUME RecordsInv, Records!Next PROVE Records!BoundToHead
<1>1. CASE inputs' = inputs /\ exhibits' = exhibits
  BY <1>1 DEF Records!BoundToHead
<1>2. ASSUME NEW c \in Clients, Records!InsertInput(c) PROVE Records!BoundToHead
  <2>1. \A r \in inputs' \ inputs : r.snapshot = recordHead
    BY <1>2 DEF Records!InsertInput
  <2>2. exhibits' = exhibits
    BY <1>2 DEF Records!InsertInput
  <2> QED BY <2>1, <2>2 DEF Records!BoundToHead, RecordsInv, ExhibitsSound
<1>3. ASSUME NEW c \in Clients, Records!InsertExhibit(c) PROVE Records!BoundToHead
  BY <1>3 DEF Records!InsertExhibit, Records!BoundToHead, RecordsInv, WriterSound, RowSound
<1>4. CASE \E c \in Clients :
            \/ Records!GuardHead(c) \/ Records!RefuseStale(c) \/ Records!Crash(c)
            \/ Records!ReadFile(c) \/ Records!StoreCopy(c) \/ Records!RefuseCopy(c)
                 \/ Records!VerifyCopy(c)
            \/ Records!Validate(c) \/ Records!Stamp(c) \/ Records!CreateTables(c)
                 \/ Records!Backfill(c)
            \/ Records!StartList(c) \/ Records!ReadPage(c) \/ Records!EndList(c)
  BY <1>1, <1>4 DEF Records!GuardHead, Records!RefuseStale, Records!Crash, Records!ReadFile,
     Records!StoreCopy, Records!RefuseCopy, Records!VerifyCopy,
     Records!Validate, Records!Stamp, Records!CreateTables, Records!Backfill, Records!StartList,
     Records!ReadPage, Records!EndList
<1>5. CASE Records!MoveState \/ Records!Tick \/ Records!Damage \/ Records!Recover
  BY <1>1, <1>5 DEF Records!MoveState, Records!Tick, Records!Damage, Records!Recover
<1> QED BY <1>2, <1>3, <1>4, <1>5 DEF Records!Next

-----------------------------------------------------------------------------
(* Questions and what rests on them                                       *)

Fields == {"kind", "revision", "status", "links", "flagged", "by"}

ObjectSound(o) ==
    /\ DOMAIN o = Fields /\ o.revision \in Nat
    /\ o.kind = "evidence" => o.status # "closed"

(* What a revised object of the Snapshot was, and who hears of it.         *)
RevisionSound(n, writes, old) ==
    /\ writes[n].revision = old[n].revision + 1
    /\ old[n].status \notin {"closed", "verified"}
    /\ old[n].kind = "question"
       => \A m \in DOMAIN old \ DOMAIN writes : n \in old[m].links => m \in writes[n].flagged

CreationSound(n, writes, old) ==
    \A m \in writes[n].links : m \in DOMAIN old \ DOMAIN writes /\ old[m].status # "closed"

WritesSound(k, writes, old) ==
    /\ \A n \in DOMAIN writes : ObjectSound(writes[n]) /\ writes[n].by = k
    /\ \A n \in DOMAIN writes \cap DOMAIN old : RevisionSound(n, writes, old)
    /\ \A n \in DOMAIN writes \ DOMAIN old : CreationSound(n, writes, old)

(* The shapes of the candidates, of what was stored.                       *)
ReviewLike(maker, writes, old) ==
    LET revised == DOMAIN writes \cap DOMAIN old
        created == DOMAIN writes \ (DOMAIN writes \cap DOMAIN old)
    IN /\ \/ maker \in {"REFINE", "CLOSE"} /\ Cardinality(revised) = 1 /\ Cardinality(created) = 0
          \/ maker = "SPLIT" /\ Cardinality(revised) = 1 /\ Cardinality(created) >= 2
          \/ maker = "MERGE" /\ Cardinality(revised) >= 2 /\ Cardinality(created) = 1
       /\ \A n \in DOMAIN writes : writes[n].kind = "question"
       /\ \A n \in revised : writes[n].revision = old[n].revision + 1
       /\ \A n \in created : writes[n].revision = 0

ProposalLike(maker, writes, old) ==
    LET revised == DOMAIN writes \cap DOMAIN old
        created == DOMAIN writes \ (DOMAIN writes \cap DOMAIN old)
    IN /\ revised = {}
       /\ \/ maker = "propose" /\ Cardinality(created) = 1
          \/ maker = "propose_many" /\ Cardinality(created) >= 2

SynthesisLike(maker, writes, old) ==
    /\ maker \in {"argument", "recommendation"}
    /\ \E n \in DOMAIN writes \ (DOMAIN writes \cap DOMAIN old) :
          DOMAIN writes = {n} /\ writes[n].kind = maker

ShapeSound(maker, writes, old) ==
    \A n \in DOMAIN writes :
        /\ writes[n].kind = "question"
           => ReviewLike(maker, writes, old) \/ ProposalLike(maker, writes, old)
        /\ writes[n].kind \in {"argument", "recommendation"} => SynthesisLike(maker, writes, old)

CandidateSound(k) ==
    /\ candidates[k].bound \in DOMAIN snapshots
    /\ WritesSound(k, candidates[k].writes, snapshots[candidates[k].bound])
    /\ ShapeSound(candidates[k].maker, candidates[k].writes, snapshots[candidates[k].bound])

Explained == {"question", "argument", "recommendation"}

(* The candidates on which the first n requests are.                       *)
AskedBy(n) == {requests[i] : i \in 1..n}

(* An object in force is what a candidate wrote on which a decision was    *)
(* requested.                                                              *)
InForce(n, objects) ==
    /\ objects[n].by \in DOMAIN candidates /\ objects[n].by \in AskedBy(Len(requests))
    /\ n \in DOMAIN candidates[objects[n].by].writes
    /\ candidates[objects[n].by].writes[n] = objects[n]

SnapshotSound(s) ==
    /\ DOMAIN snapshots[s] \subseteq Proposals!Used
    /\ \A n \in DOMAIN snapshots[s] :
          /\ ObjectSound(snapshots[s][n])
          /\ snapshots[s][n].kind \in Explained => InForce(n, snapshots[s])

Numbered == \E N \in Nat : Proposals!Used = 1..N

(* The first candidates and requests tell of every object.                 *)
Known(objects, count, asked) ==
    \A n \in DOMAIN objects :
        objects[n].kind \in Explained
        => objects[n].by \in 1..count /\ objects[n].by \in AskedBy(asked)

(* What a reader holds knows every object of the Snapshot it names; it     *)
(* keeps a candidate it read unless there are too many.                    *)
JobSound(j) ==
    /\ j.at \in {"state", "lists", "shown"} => j.state = j.snapshot /\ j.state \in DOMAIN snapshots
    /\ j.at \in {"lists", "shown"} =>
          /\ j.candidates \in Nat /\ j.candidates <= Len(candidates)
          /\ j.requests \in Nat /\ j.requests <= Len(requests)
          /\ Known(snapshots[j.state], j.candidates, j.requests)
    /\ j.at = "shown" =>
          /\ j.reviewed \in Nat /\ j.reviewed >= j.candidates /\ j.reviewed <= Len(candidates)
          /\ j.later \in Nat /\ j.later >= j.requests /\ j.later <= Len(requests)
          /\ j.kept \in Proposals!Cuts(Proposals!Read(j.candidates, j.reviewed))

SeesAll(old, new) ==
    \A q \in Proposals!OfKind(old, "question") :
        new[q] # old[q] =>
            {n \in DOMAIN new : q \in new[n].links /\ new[n] = old[n]} \subseteq new[q].flagged

ProposalsInv ==
    /\ Series(snapshots) /\ Proposals!head >= 1
    /\ Series(candidates) /\ Series(decisions) /\ Len(candidates) = Len(decisions)
    /\ Series(requests)
    /\ \A k \in DOMAIN candidates : decisions[k] # "none" => k \in AskedBy(Len(requests))
    /\ Numbered
    /\ \A k \in DOMAIN candidates : CandidateSound(k)
    /\ \A s \in DOMAIN snapshots : SnapshotSound(s)
    /\ \A s \in 2..Proposals!head : SeesAll(snapshots[s - 1], snapshots[s])
    /\ DOMAIN readerJob = Readers /\ \A r \in Readers : JobSound(readerJob[r])

-----------------------------------------------------------------------------
LEMMA SeriesFacts ==
    ASSUME NEW s, Series(s)
    PROVE  Len(s) \in Nat /\ DOMAIN s = 1..Len(s)
BY DEF Series

LEMMA AlteredAt ==
    ASSUME NEW s, Series(s), NEW i \in DOMAIN s, NEW x
    PROVE  /\ Series([s EXCEPT ![i] = x]) /\ Len([s EXCEPT ![i] = x]) = Len(s)
           /\ DOMAIN [s EXCEPT ![i] = x] = DOMAIN s
           /\ [s EXCEPT ![i] = x][i] = x
           /\ \A k \in DOMAIN s : k # i => [s EXCEPT ![i] = x][k] = s[k]
<1>1. PICK S : s \in Seq(S)
  BY DEF Series
<1>2. s \in Seq(S \cup {x})
  BY <1>1
<1>3. [s EXCEPT ![i] = x] \in Seq(S \cup {x})
  BY <1>2
<1>4. Series([s EXCEPT ![i] = x])
  BY <1>3 DEF Series
<1> QED BY <1>2, <1>3, <1>4

LEMMA SizeOfOne ==
    ASSUME NEW x PROVE Cardinality({x}) = 1
BY FS_Singleton

LEMMA Invariants ==
    ASSUME ProposalsInv
    PROVE  /\ Proposals!head \in Nat /\ Proposals!head >= 1
                /\ DOMAIN snapshots = 1..Proposals!head /\ Proposals!head \in DOMAIN snapshots
           /\ Len(candidates) \in Nat /\ DOMAIN candidates = 1..Len(candidates)
           /\ DOMAIN decisions = DOMAIN candidates
           /\ Len(requests) \in Nat /\ DOMAIN requests = 1..Len(requests)
           /\ DOMAIN Proposals!Objects \subseteq Proposals!Used
           /\ \A n \in DOMAIN Proposals!Objects : ObjectSound(Proposals!Objects[n])
<1>1. /\ Proposals!head \in Nat /\ Proposals!head >= 1 /\ DOMAIN snapshots = 1..Proposals!head
      /\ Len(candidates) \in Nat /\ DOMAIN candidates = 1..Len(candidates)
      /\ DOMAIN decisions = DOMAIN candidates
      /\ Len(requests) \in Nat /\ DOMAIN requests = 1..Len(requests)
  BY SeriesFacts DEF ProposalsInv, Proposals!head
<1>2. Proposals!head \in DOMAIN snapshots
  BY <1>1
<1>3. SnapshotSound(Proposals!head)
  BY <1>2 DEF ProposalsInv
<1> QED
  BY <1>1, <1>2, <1>3 DEF SnapshotSound, Proposals!Objects

(* New identities are apart from all there were.                           *)
LEMMA NewApart ==
    ASSUME ProposalsInv, NEW n \in Nat
    PROVE  /\ \E N \in Nat : Proposals!Used \cup Proposals!New(n) = 1..N
           /\ Proposals!New(n) \cap DOMAIN Proposals!Objects = {}
           /\ IsFiniteSet(Proposals!New(n)) /\ Cardinality(Proposals!New(n)) = n
           /\ n = 1 => \E x : Proposals!New(n) = {x}
<1>1. PICK N \in Nat : Proposals!Used = 1..N
  BY DEF ProposalsInv, Numbered
<1>2. Cardinality(Proposals!Used) = N
  BY <1>1, FS_Interval
<1>3. Proposals!New(n) = (N + 1)..(N + n)
  BY <1>2, SameCount DEF Proposals!New
<1>4. Proposals!Used \cup Proposals!New(n) = 1..(N + n) /\ N + n \in Nat
  BY <1>1, <1>3
<1>5. Proposals!New(n) \cap DOMAIN Proposals!Objects = {}
  BY <1>1, <1>3, Invariants
<1>6. IsFiniteSet(Proposals!New(n)) /\ Cardinality(Proposals!New(n)) = n
  BY <1>3, FS_Interval
<1>7. n = 1 => Proposals!New(n) = {N + 1}
  BY <1>3
<1> QED
  BY <1>4, <1>5, <1>6, <1>7

-----------------------------------------------------------------------------
LEMMA ShapesTold ==
    ASSUME NEW k
    PROVE  LET c == candidates[k] old == snapshots[candidates[k].bound]
           IN /\ Proposals!ReviewShape(k) <=> ReviewLike(c.maker, c.writes, old)
              /\ Proposals!ProposalShape(k) <=> ProposalLike(c.maker, c.writes, old)
              /\ Proposals!SynthesisShape(k) <=> SynthesisLike(c.maker, c.writes, old)
<1>1. Proposals!ReviewShape(k)
      <=> ReviewLike(candidates[k].maker, candidates[k].writes, snapshots[candidates[k].bound])
  BY SameCount DEF Proposals!ReviewShape, ReviewLike, Proposals!Revises, Proposals!Creates
<1>2. Proposals!ProposalShape(k)
      <=> ProposalLike(candidates[k].maker, candidates[k].writes, snapshots[candidates[k].bound])
  BY SameCount DEF Proposals!ProposalShape, ProposalLike, Proposals!Revises, Proposals!Creates
<1>3. Proposals!SynthesisShape(k)
      <=> SynthesisLike(candidates[k].maker, candidates[k].writes, snapshots[candidates[k].bound])
  BY DEF Proposals!SynthesisShape, SynthesisLike, Proposals!Revises, Proposals!Creates
<1> QED
  BY <1>1, <1>2, <1>3

(* The readers and the Snapshots know what they know when candidates are   *)
(* added and when requests are.                                            *)
Grows ==
    /\ Len(candidates)' \in Nat /\ Len(candidates) <= Len(candidates)'
    /\ DOMAIN candidates \subseteq DOMAIN candidates'
    /\ \A k \in DOMAIN candidates : candidates'[k] = candidates[k]
    /\ Len(requests)' \in Nat /\ Len(requests) <= Len(requests)'
    /\ \A i \in DOMAIN requests : requests'[i] = requests[i]
    /\ DOMAIN snapshots \subseteq DOMAIN snapshots'
    /\ \A s \in DOMAIN snapshots : snapshots'[s] = snapshots[s]

LEMMA StillUsed ==
    ASSUME ProposalsInv, Grows PROVE Proposals!Used \subseteq Proposals!Used'
<1>1. 1 \in DOMAIN snapshots
  BY Invariants
<1>2. snapshots'[1] = snapshots[1]
  BY <1>1 DEF Grows
<1>3. \A k \in DOMAIN candidates : k \in DOMAIN candidates' /\ candidates'[k] = candidates[k]
  BY DEF Grows
<1> QED
  BY <1>2, <1>3 DEF Proposals!Used

LEMMA StillAsked ==
    ASSUME ProposalsInv, Grows, NEW n \in Nat, n <= Len(requests)
    PROVE  AskedBy(n) = AskedBy(n)' /\ AskedBy(n) \subseteq AskedBy(Len(requests))'
<1>1. 1..n \subseteq DOMAIN requests /\ 1..n \subseteq 1..Len(requests)'
  BY Invariants DEF Grows
<1>2. \A i \in 1..n : requests'[i] = requests[i]
  BY <1>1 DEF Grows
<1> QED
  BY <1>1, <1>2 DEF AskedBy

LEMMA StillInForce ==
    ASSUME ProposalsInv, Grows, NEW s \in DOMAIN snapshots PROVE SnapshotSound(s)'
<1>1. SnapshotSound(s) /\ snapshots'[s] = snapshots[s]
  BY DEF ProposalsInv, Grows
<1>2. DOMAIN snapshots'[s] \subseteq Proposals!Used'
  BY <1>1, StillUsed DEF SnapshotSound
<1>3. ASSUME NEW n \in DOMAIN snapshots[s], snapshots[s][n].kind \in Explained
      PROVE  InForce(n, snapshots[s])'
  <2> DEFINE k == snapshots[s][n].by
  <2>1. InForce(n, snapshots[s])
    BY <1>1, <1>3 DEF SnapshotSound
  <2>2. k \in DOMAIN candidates /\ k \in AskedBy(Len(requests))
        /\ n \in DOMAIN candidates[k].writes /\ candidates[k].writes[n] = snapshots[s][n]
    BY <2>1 DEF InForce
  <2>3. k \in DOMAIN candidates' /\ candidates'[k] = candidates[k]
    BY <2>2 DEF Grows
  <2>4. k \in AskedBy(Len(requests))'
    BY <2>2, Invariants, StillAsked
  <2> QED
    BY <2>2, <2>3, <2>4, <1>1 DEF InForce
<1> QED
  BY <1>1, <1>2, <1>3 DEF SnapshotSound

LEMMA StillSound ==
    ASSUME ProposalsInv, Grows, NEW k \in DOMAIN candidates PROVE CandidateSound(k)'
<1>1. CandidateSound(k) /\ candidates'[k] = candidates[k]
  BY DEF ProposalsInv, Grows
<1>2. candidates[k].bound \in DOMAIN snapshots
  BY <1>1 DEF CandidateSound
<1>3. snapshots'[candidates[k].bound] = snapshots[candidates[k].bound]
      /\ candidates[k].bound \in DOMAIN snapshots'
  BY <1>2 DEF Grows
<1> QED
  BY <1>1, <1>3 DEF CandidateSound

(* The candidates of the lists read have the shapes they had.              *)
LEMMA StillShaped ==
    ASSUME ProposalsInv, Grows, NEW k \in DOMAIN candidates
    PROVE  /\ candidates'[k] = candidates[k]
           /\ Proposals!ReviewShape(k)' <=> Proposals!ReviewShape(k)
           /\ Proposals!ProposalShape(k)' <=> Proposals!ProposalShape(k)
<1>1. candidates'[k] = candidates[k] /\ candidates[k].bound \in DOMAIN snapshots
  BY DEF ProposalsInv, CandidateSound, Grows
<1>2. snapshots'[candidates[k].bound] = snapshots[candidates[k].bound]
  BY <1>1 DEF Grows
<1>3. Proposals!Revises(k)' = Proposals!Revises(k) /\ Proposals!Creates(k)' = Proposals!Creates(k)
  BY <1>1, <1>2 DEF Proposals!Revises, Proposals!Creates
<1> QED
  BY <1>1, <1>2, <1>3 DEF Proposals!ReviewShape, Proposals!ProposalShape

LEMMA StillRead ==
    ASSUME ProposalsInv, Grows, NEW n \in Nat, NEW m \in Nat,
           n <= Len(candidates), m <= Len(candidates)
    PROVE  Proposals!Read(n, m)' = Proposals!Read(n, m)
<1>1. \A k \in 1..n : k \in DOMAIN candidates
  BY Invariants
<1>2. \A k \in 1..m : k \in DOMAIN candidates
  BY Invariants
<1>3. Proposals!Proposals(n)' = Proposals!Proposals(n)
  BY <1>1, StillShaped DEF Proposals!Proposals
<1>4. Proposals!QuestionReviews(m)' = Proposals!QuestionReviews(m)
  BY <1>2, StillShaped DEF Proposals!QuestionReviews, Proposals!Reviews
<1> QED
  BY <1>3, <1>4 DEF Proposals!Read

LEMMA JobKept ==
    ASSUME ProposalsInv, Grows, NEW j, JobSound(j) PROVE JobSound(j)'
<1>1. j.at \in {"state", "lists", "shown"}
      => j.state = j.snapshot /\ j.state \in DOMAIN snapshots'
         /\ snapshots'[j.state] = snapshots[j.state]
  BY DEF JobSound, Grows
<1>2. Len(candidates) \in Nat /\ Len(candidates)' \in Nat /\ Len(candidates) <= Len(candidates)'
      /\ Len(requests) \in Nat /\ Len(requests)' \in Nat /\ Len(requests) <= Len(requests)'
  BY Invariants DEF Grows
<1>3. ASSUME j.at \in {"lists", "shown"}
      PROVE  /\ j.candidates \in Nat /\ j.candidates <= Len(candidates)'
             /\ j.requests \in Nat /\ j.requests <= Len(requests)'
             /\ Known(snapshots[j.state], j.candidates, j.requests)'
  <2>1. /\ j.candidates \in Nat /\ j.candidates <= Len(candidates)
        /\ j.requests \in Nat /\ j.requests <= Len(requests)
        /\ Known(snapshots[j.state], j.candidates, j.requests)
    BY <1>3 DEF JobSound
  <2>2. AskedBy(j.requests)' = AskedBy(j.requests)
    BY <2>1, StillAsked
  <2>3. Known(snapshots[j.state], j.candidates, j.requests)'
    BY <1>1, <1>3, <2>1, <2>2 DEF Known
  <2> QED
    BY <1>2, <2>1, <2>3
<1>4. ASSUME j.at = "shown"
      PROVE  /\ j.reviewed \in Nat /\ j.reviewed >= j.candidates /\ j.reviewed <= Len(candidates)'
             /\ j.later \in Nat /\ j.later >= j.requests /\ j.later <= Len(requests)'
             /\ (j.kept \in Proposals!Cuts(Proposals!Read(j.candidates, j.reviewed)))'
  <2>1. /\ j.candidates \in Nat /\ j.candidates <= Len(candidates)
        /\ j.reviewed \in Nat /\ j.reviewed >= j.candidates /\ j.reviewed <= Len(candidates)
        /\ j.later \in Nat /\ j.later >= j.requests /\ j.later <= Len(requests)
        /\ j.kept \in Proposals!Cuts(Proposals!Read(j.candidates, j.reviewed))
    BY <1>4 DEF JobSound
  <2>2. Proposals!Read(j.candidates, j.reviewed)' = Proposals!Read(j.candidates, j.reviewed)
    BY <2>1, StillRead
  <2> QED
    BY <1>2, <2>1, <2>2
<1> QED
  BY <1>1, <1>3, <1>4 DEF JobSound

LEMMA StillKnown ==
    ASSUME ProposalsInv, Grows, UNCHANGED readerJob
    PROVE  DOMAIN readerJob' = Readers /\ \A r \in Readers : JobSound(readerJob[r])'
<1>1. DOMAIN readerJob = Readers /\ \A r \in Readers : JobSound(readerJob[r])
  BY DEF ProposalsInv
<1>2. ASSUME NEW r \in Readers PROVE JobSound(readerJob[r])'
  <2>1. PICK j : j = readerJob[r]
    OBVIOUS
  <2>2. JobSound(j)'
    BY <1>1, <2>1, JobKept
  <2> QED
    BY <2>1, <2>2 DEF JobSound
<1> QED
  BY <1>1, <1>2

(* A candidate is stored beside those there are.                           *)
LEMMA StoreKeeps ==
    ASSUME ProposalsInv, NEW maker, NEW writes, Proposals!Store(maker, writes),
           WritesSound(Proposals!NextCandidate, writes, Proposals!Objects),
           ShapeSound(maker, writes, Proposals!Objects),
           \E N \in Nat : Proposals!Used \cup DOMAIN writes = 1..N
    PROVE  ProposalsInv'
<1> DEFINE c == [maker |-> maker, bound |-> Proposals!head, writes |-> writes]
<1>1. /\ candidates' = Append(candidates, c) /\ decisions' = Append(decisions, "none")
      /\ snapshots' = snapshots /\ readerJob' = readerJob /\ requests' = requests
  BY DEF Proposals!Store
<1> HIDE DEF c
<1>2. Series(candidates) /\ Series(decisions) /\ Len(candidates) = Len(decisions)
  BY DEF ProposalsInv
<1>3. /\ Series(candidates') /\ Len(candidates') = Len(candidates) + 1
      /\ \A k \in DOMAIN candidates : k \in DOMAIN candidates' /\ candidates'[k] = candidates[k]
      /\ DOMAIN candidates' = DOMAIN candidates \cup {Proposals!NextCandidate}
      /\ candidates'[Proposals!NextCandidate] = c
  BY <1>1, <1>2, Appended DEF Proposals!NextCandidate
<1>4. /\ Series(decisions') /\ Len(decisions') = Len(decisions) + 1
      /\ \A k \in DOMAIN decisions : decisions'[k] = decisions[k]
  BY <1>1, <1>2, Appended
<1>5. Grows
  BY <1>1, <1>3, <1>4, Invariants DEF Grows
<1>6. Proposals!Used' = Proposals!Used \cup DOMAIN writes
  <2>1. \A k \in DOMAIN candidates : candidates'[k].writes = candidates[k].writes
    BY <1>3
  <2>2. candidates'[Proposals!NextCandidate].writes = writes
    BY <1>3 DEF c
  <2>3. \A n : (\E k \in DOMAIN candidates' : n \in DOMAIN candidates'[k].writes)
              <=> (\E k \in DOMAIN candidates : n \in DOMAIN candidates[k].writes)
                  \/ n \in DOMAIN writes
    BY <1>3, <2>1, <2>2
  <2> QED
    BY <2>3, <1>1 DEF Proposals!Used
<1>7. Numbered'
  BY <1>6 DEF Numbered
<1>8. PICK new : new = Proposals!NextCandidate
  OBVIOUS
<1>9. \A k \in DOMAIN candidates' : CandidateSound(k)'
  <2>1. Proposals!head \in DOMAIN snapshots'
    BY <1>1, Invariants
  <2>2. candidates'[new].bound = Proposals!head /\ candidates'[new].writes = writes
        /\ candidates'[new].maker = maker
    BY <1>3, <1>8 DEF c
  <2>3. CandidateSound(new)'
    BY <2>1, <2>2, <1>1, <1>8 DEF CandidateSound, Proposals!Objects
  <2> QED
    BY <2>3, <1>3, <1>5, <1>8, StillSound
<1>10. \A s \in DOMAIN snapshots' : SnapshotSound(s)'
  BY <1>1, <1>5, StillInForce
<1>11. \A s \in 2..Proposals!head' : SeesAll(snapshots[s - 1], snapshots[s])'
  <2>1. \A s \in 2..Proposals!head : SeesAll(snapshots[s - 1], snapshots[s])
    BY DEF ProposalsInv
  <2> QED
    BY <2>1, <1>1 DEF SeesAll, Proposals!OfKind, Proposals!head
<1>12. Series(snapshots)' /\ Proposals!head' >= 1
  BY <1>1 DEF ProposalsInv, Proposals!head
<1>13. DOMAIN readerJob' = Readers /\ \A r \in Readers : JobSound(readerJob[r])'
  BY <1>1, <1>5, StillKnown
<1>14. Len(candidates') = Len(decisions') /\ Series(requests')
  BY <1>1, <1>2, <1>3, <1>4 DEF ProposalsInv
<1>15. \A k \in DOMAIN candidates' : decisions'[k] # "none" => k \in AskedBy(Len(requests))'
  <2>1. decisions'[new] = "none"
    BY <1>1, <1>2, <1>8, Appended DEF Proposals!NextCandidate
  <2>2. \A k \in DOMAIN candidates : decisions[k] # "none" => k \in AskedBy(Len(requests))'
    BY <1>5, Invariants, StillAsked DEF ProposalsInv
  <2> QED
    BY <1>3, <1>4, <1>8, <2>1, <2>2, Invariants
<1> QED
  BY <1>3, <1>4, <1>7, <1>9, <1>10, <1>11, <1>12, <1>13, <1>14, <1>15 DEF ProposalsInv

-----------------------------------------------------------------------------
(* New objects on what is in force.                                        *)
LEMMA CreationKeeps ==
    ASSUME ProposalsInv, NEW maker, NEW kind, NEW links, NEW n \in {1, 2},
           Proposals!Store(maker,
               [i \in Proposals!New(n) |-> Proposals!Object(kind, links, Proposals!NextCandidate)]),
           links \subseteq DOMAIN Proposals!Objects,
           \A m \in links : Proposals!Objects[m].status # "closed",
           \/ kind = "question" /\ maker = "propose" /\ n = 1
           \/ kind = "question" /\ maker = "propose_many" /\ n = 2
           \/ kind \in {"argument", "recommendation"} /\ maker = kind /\ n = 1
    PROVE  ProposalsInv'
<1> DEFINE writes == [i \in Proposals!New(n) |->
                 Proposals!Object(kind, links, Proposals!NextCandidate)]
<1>1. /\ \E N \in Nat : Proposals!Used \cup Proposals!New(n) = 1..N
      /\ Proposals!New(n) \cap DOMAIN Proposals!Objects = {} /\ IsFiniteSet(Proposals!New(n))
           /\ Cardinality(Proposals!New(n)) = n
  BY NewApart
<1>2. DOMAIN writes = Proposals!New(n)
  OBVIOUS
<1>3. \A i \in Proposals!New(n) : writes[i] = Proposals!Object(kind, links, Proposals!NextCandidate)
  OBVIOUS
<1>4. /\ DOMAIN Proposals!Object(kind, links, Proposals!NextCandidate) = Fields
      /\ Proposals!Object(kind, links, Proposals!NextCandidate).revision = 0
      /\ Proposals!Object(kind, links, Proposals!NextCandidate).kind = kind
      /\ Proposals!Object(kind, links, Proposals!NextCandidate).status = "approved"
      /\ Proposals!Object(kind, links, Proposals!NextCandidate).links = links
      /\ Proposals!Object(kind, links, Proposals!NextCandidate).by = Proposals!NextCandidate
  BY DEF Proposals!Object, Fields
<1>5. Proposals!Store(maker, writes)
  OBVIOUS
<1> HIDE DEF writes
<1>6. DOMAIN writes \cap DOMAIN Proposals!Objects = {}
      /\ DOMAIN writes \ (DOMAIN writes \cap DOMAIN Proposals!Objects) = Proposals!New(n)
  BY <1>1, <1>2
<1>7. WritesSound(Proposals!NextCandidate, writes, Proposals!Objects)
  <2>1. \A i \in DOMAIN writes : ObjectSound(writes[i]) /\ writes[i].by = Proposals!NextCandidate
    BY <1>2, <1>3, <1>4 DEF ObjectSound
  <2>2. \A i \in DOMAIN writes : CreationSound(i, writes, Proposals!Objects)
    BY <1>2, <1>3, <1>4, <1>6 DEF CreationSound
  <2> QED
    BY <2>1, <2>2, <1>6 DEF WritesSound
<1>8. ShapeSound(maker, writes, Proposals!Objects)
  <2>1. CASE kind = "question"
    <3>1. ProposalLike(maker, writes, Proposals!Objects)
      BY <2>1, <1>1, <1>6 DEF ProposalLike
    <3> QED
      BY <3>1, <2>1, <1>2, <1>3, <1>4 DEF ShapeSound
  <2>2. CASE kind \in {"argument", "recommendation"}
    <3>1. n = 1 /\ maker = kind
      BY <2>2
    <3>2. PICK x : Proposals!New(n) = {x}
      BY <3>1, NewApart
    <3>3. SynthesisLike(maker, writes, Proposals!Objects)
      BY <2>2, <3>1, <3>2, <1>2, <1>3, <1>4, <1>6 DEF SynthesisLike
    <3> QED
      BY <3>3, <2>2, <1>2, <1>3, <1>4 DEF ShapeSound
  <2> QED
    BY <2>1, <2>2
<1> QED
  BY <1>1, <1>2, <1>5, <1>7, <1>8, StoreKeeps

LEMMA ApprovedHere ==
    ASSUME NEW kind, NEW n \in Proposals!Approved(kind)
    PROVE  /\ n \in DOMAIN Proposals!Objects /\ Proposals!Objects[n].kind = kind
           /\ Proposals!Objects[n].status = "approved"
BY DEF Proposals!Approved, Proposals!OfKind

LEMMA ProposeKeeps ==
    ASSUME ProposalsInv, Proposals!Propose PROVE ProposalsInv'
<1>1. PICK parents \in Proposals!AtMostOne(Proposals!Approved("question")) :
        Proposals!Store("propose",
            [n \in Proposals!New(1) |-> Proposals!Object("question", parents,
                Proposals!NextCandidate)])
  BY DEF Proposals!Propose
<1>2. parents \subseteq Proposals!Approved("question")
  BY DEF Proposals!AtMostOne
<1> QED
  BY <1>1, <1>2, ApprovedHere, CreationKeeps, ZenonT(40)

LEMMA ProposeManyKeeps ==
    ASSUME ProposalsInv, Proposals!ProposeMany PROVE ProposalsInv'
<1>1. PICK parents \in Proposals!AtMostOne(Proposals!Approved("question")) :
        Proposals!Store("propose_many",
            [n \in Proposals!New(2) |-> Proposals!Object("question", parents,
                Proposals!NextCandidate)])
  BY DEF Proposals!ProposeMany
<1>2. parents \subseteq Proposals!Approved("question")
  BY DEF Proposals!AtMostOne
<1> QED
  BY <1>1, <1>2, ApprovedHere, CreationKeeps, ZenonT(40)

LEMMA ProposeArgumentKeeps ==
    ASSUME ProposalsInv, Proposals!ProposeArgument PROVE ProposalsInv'
<1>1. PICK questions \in Proposals!AtMostOne(Proposals!Approved("question")),
           ground \in Proposals!Grounds :
        Proposals!Store("argument",
                        [n \in Proposals!New(1) |-> Proposals!Object("argument",
                            questions \cup {ground}, Proposals!NextCandidate)])
  BY DEF Proposals!ProposeArgument
<1>2. questions \subseteq Proposals!Approved("question")
  BY DEF Proposals!AtMostOne
<1>3. ground \in DOMAIN Proposals!Objects /\ Proposals!Objects[ground].status # "closed"
  BY ApprovedHere, Invariants DEF Proposals!Grounds, Proposals!OfKind, ObjectSound
<1> DEFINE links == questions \cup {ground}
<1>4. /\ links \subseteq DOMAIN Proposals!Objects
      /\ \A m \in links : Proposals!Objects[m].status # "closed"
  BY <1>2, <1>3, ApprovedHere
<1>5. Proposals!Store("argument",
      [n \in Proposals!New(1) |-> Proposals!Object("argument", links, Proposals!NextCandidate)])
  BY <1>1
<1> QED
  BY <1>4, <1>5, CreationKeeps

LEMMA ProposeRecommendationKeeps ==
    ASSUME ProposalsInv, Proposals!ProposeRecommendation PROVE ProposalsInv'
<1>1. PICK finding \in Proposals!Approved("finding") :
        Proposals!Store("recommendation",
                        [n \in Proposals!New(1) |-> Proposals!Object("recommendation", {finding},
                            Proposals!NextCandidate)])
  BY DEF Proposals!ProposeRecommendation
<1> DEFINE links == {finding}
<1>4. /\ links \subseteq DOMAIN Proposals!Objects
      /\ \A m \in links : Proposals!Objects[m].status # "closed"
  BY ApprovedHere
<1>5. Proposals!Store("recommendation",
      [n \in Proposals!New(1) |-> Proposals!Object("recommendation", links,
          Proposals!NextCandidate)])
  BY <1>1
<1> QED
  BY <1>4, <1>5, CreationKeeps

LEMMA QualifyKeeps ==
    ASSUME ProposalsInv, Proposals!Qualify PROVE ProposalsInv'
<1>1. PICK e \in Proposals!OfKind(Proposals!Objects, "evidence") :
        /\ Proposals!Objects[e].status = "unverified"
        /\ Proposals!Store("qualify", [n \in {e} |->
                          [Proposals!Objects[e] EXCEPT !.revision = @ + 1, !.status = "verified",
                                                       !.by = Proposals!NextCandidate]])
  BY DEF Proposals!Qualify
<1> DEFINE o == [Proposals!Objects[e] EXCEPT !.revision = @ + 1, !.status = "verified",
                                             !.by = Proposals!NextCandidate]
           writes == [n \in {e} |-> o]
<1>2. /\ e \in DOMAIN Proposals!Objects /\ Proposals!Objects[e].kind = "evidence"
      /\ ObjectSound(Proposals!Objects[e])
  BY Invariants DEF Proposals!OfKind
<1>3. DOMAIN Proposals!Objects[e] = Fields /\ Proposals!Objects[e].revision \in Nat
  BY <1>2 DEF ObjectSound
<1>4. DOMAIN o = Fields /\ o.revision = Proposals!Objects[e].revision + 1 /\ o.status = "verified"
      /\ o.by = Proposals!NextCandidate /\ o.kind = "evidence"
  BY <1>2, <1>3 DEF Fields
<1>5. Proposals!Store("qualify", writes)
  BY <1>1
<1>6. DOMAIN writes = {e} /\ writes[e] = o
  OBVIOUS
<1> HIDE DEF o, writes
<1>7. WritesSound(Proposals!NextCandidate, writes, Proposals!Objects)
  <2>1. ObjectSound(o)
    BY <1>3, <1>4 DEF ObjectSound
  <2>2. RevisionSound(e, writes, Proposals!Objects)
    BY <1>1, <1>2, <1>4, <1>6 DEF RevisionSound
  <2> QED
    BY <2>1, <2>2, <1>2, <1>4, <1>6 DEF WritesSound
<1>8. ShapeSound("qualify", writes, Proposals!Objects)
  BY <1>4, <1>6 DEF ShapeSound
<1>9. Proposals!Used \cup DOMAIN writes = Proposals!Used
  BY <1>2, <1>6, Invariants
<1>10. \E N \in Nat : Proposals!Used \cup DOMAIN writes = 1..N
  BY <1>9 DEF ProposalsInv, Numbered
<1> QED
  BY <1>5, <1>7, <1>8, <1>10, StoreKeeps

(* Reviews: what they are of is revised, and named is what rests on it.    *)
LEMMA ReviewKeeps ==
    ASSUME ProposalsInv, NEW maker, NEW status, NEW sources, NEW created,
           Proposals!Store(maker, Proposals!Review(status, sources, created)),
           sources \subseteq Proposals!Approved("question"),
           created \cap DOMAIN Proposals!Objects = {},
           \E N \in Nat : Proposals!Used \cup created = 1..N,
           \/ maker \in {"REFINE", "CLOSE"} /\ Cardinality(sources) = 1 /\ Cardinality(created) = 0
           \/ maker = "SPLIT" /\ Cardinality(sources) = 1 /\ Cardinality(created) >= 2
           \/ maker = "MERGE" /\ Cardinality(sources) >= 2 /\ Cardinality(created) = 1
    PROVE  ProposalsInv'
<1> DEFINE writes == Proposals!Review(status, sources, created)
<1>1. \A q \in sources : /\ q \in DOMAIN Proposals!Objects /\ Proposals!Objects[q].kind = "question"
                         /\ Proposals!Objects[q].status = "approved"
                         /\ DOMAIN Proposals!Objects[q] = Fields
                              /\ Proposals!Objects[q].revision \in Nat
  BY ApprovedHere, Invariants DEF ObjectSound
<1>2. DOMAIN writes = sources \cup created
  BY DEF Proposals!Review
<1>3. ASSUME NEW n \in sources
      PROVE  /\ DOMAIN writes[n] = Fields /\ writes[n].kind = "question"
             /\ writes[n].revision = Proposals!Objects[n].revision + 1
             /\ writes[n].flagged = Proposals!Downstream(sources)
                  /\ writes[n].by = Proposals!NextCandidate
  <2>1. writes[n] = Proposals!Revised(n, status, sources)
    BY <1>3 DEF Proposals!Review
  <2> QED
    BY <2>1, <1>1 DEF Proposals!Revised, Fields
<1>4. ASSUME NEW n \in created
      PROVE  /\ DOMAIN writes[n] = Fields /\ writes[n].kind = "question"
             /\ writes[n].revision = 0 /\ writes[n].links = {}
                  /\ writes[n].by = Proposals!NextCandidate
  <2>1. n \notin sources
    BY <1>1, <1>4
  <2>2. writes[n] = Proposals!Created(sources)
    BY <2>1, <1>4 DEF Proposals!Review
  <2> QED
    BY <2>2 DEF Proposals!Created, Proposals!Object, Fields
<1>5. DOMAIN writes \cap DOMAIN Proposals!Objects = sources
      /\ DOMAIN writes \ (DOMAIN writes \cap DOMAIN Proposals!Objects) = created
      /\ DOMAIN writes \ DOMAIN Proposals!Objects = created
  BY <1>1, <1>2
<1>6. Proposals!Store(maker, writes)
  OBVIOUS
<1> HIDE DEF writes
<1>7. WritesSound(Proposals!NextCandidate, writes, Proposals!Objects)
  <2>1. \A n \in DOMAIN writes : ObjectSound(writes[n]) /\ writes[n].by = Proposals!NextCandidate
    BY <1>1, <1>2, <1>3, <1>4 DEF ObjectSound
  <2>2. ASSUME NEW n \in sources PROVE RevisionSound(n, writes, Proposals!Objects)
    <3>1. ASSUME NEW m \in DOMAIN Proposals!Objects \ DOMAIN writes,
                 n \in Proposals!Objects[m].links
          PROVE  m \in writes[n].flagged
      <4>1. m \in DOMAIN Proposals!Objects \ sources /\ Proposals!Objects[m].links \cap sources # {}
        BY <3>1, <2>2, <1>2
      <4>2. m \in Proposals!Downstream(sources)
        BY <4>1 DEF Proposals!Downstream
      <4> QED
        BY <4>2, <1>3
    <3> QED
      BY <3>1, <1>1, <1>3 DEF RevisionSound
  <2>3. \A n \in created : CreationSound(n, writes, Proposals!Objects)
    BY <1>4 DEF CreationSound
  <2> QED
    BY <2>1, <2>2, <2>3, <1>5 DEF WritesSound
<1>8. ReviewLike(maker, writes, Proposals!Objects)
  <2>1. \A n \in DOMAIN writes : writes[n].kind = "question"
    BY <1>2, <1>3, <1>4
  <2> QED
    BY <2>1, <1>3, <1>4, <1>5 DEF ReviewLike
<1>9. ShapeSound(maker, writes, Proposals!Objects)
  <2>1. \A n \in DOMAIN writes : writes[n].kind = "question"
    BY <1>2, <1>3, <1>4
  <2> QED
    BY <2>1, <1>8 DEF ShapeSound
<1>10. Proposals!Used \cup DOMAIN writes = Proposals!Used \cup created
  BY <1>1, <1>2, Invariants
<1> QED
  BY <1>6, <1>7, <1>9, <1>10, StoreKeeps

LEMMA NoneCreated ==
    ASSUME ProposalsInv
    PROVE  {} \cap DOMAIN Proposals!Objects = {} /\ (\E N \in Nat : Proposals!Used \cup {} = 1..N)
           /\ Cardinality({}) = 0
BY FS_EmptySet DEF ProposalsInv, Numbered

LEMMA RefineKeeps ==
    ASSUME ProposalsInv, Proposals!Refine PROVE ProposalsInv'
<1>1. PICK q \in Proposals!Approved("question") : Proposals!Store("REFINE",
           Proposals!Review("approved", {q}, {}))
  BY DEF Proposals!Refine
<1> QED
  BY <1>1, NoneCreated, SizeOfOne, ReviewKeeps

LEMMA CloseKeeps ==
    ASSUME ProposalsInv, Proposals!Close PROVE ProposalsInv'
<1>1. PICK q \in Proposals!Approved("question") : Proposals!Store("CLOSE",
           Proposals!Review("closed", {q}, {}))
  BY DEF Proposals!Close
<1> QED
  BY <1>1, NoneCreated, SizeOfOne, ReviewKeeps

LEMMA SplitKeeps ==
    ASSUME ProposalsInv, Proposals!Split PROVE ProposalsInv'
<1>1. PICK q \in Proposals!Approved("question") : Proposals!Store("SPLIT",
           Proposals!Review("closed", {q}, Proposals!New(2)))
  BY DEF Proposals!Split
<1>2. /\ \E N \in Nat : Proposals!Used \cup Proposals!New(2) = 1..N
      /\ Proposals!New(2) \cap DOMAIN Proposals!Objects = {} /\ Cardinality(Proposals!New(2)) >= 2
  BY NewApart
<1>3. {q} \subseteq Proposals!Approved("question") /\ Cardinality({q}) = 1
  BY SizeOfOne
<1> QED
  BY <1>1, <1>2, <1>3, ReviewKeeps

LEMMA MergeKeeps ==
    ASSUME ProposalsInv, Proposals!Merge PROVE ProposalsInv'
<1>1. PICK sources \in SUBSET Proposals!Approved("question") :
        /\ Cardinality(sources) >= 2
        /\ Proposals!Store("MERGE", Proposals!Review("closed", sources, Proposals!New(1)))
  BY SameCount DEF Proposals!Merge
<1>2. /\ \E N \in Nat : Proposals!Used \cup Proposals!New(1) = 1..N
      /\ Proposals!New(1) \cap DOMAIN Proposals!Objects = {} /\ Cardinality(Proposals!New(1)) = 1
  BY NewApart
<1> QED
  BY <1>1, <1>2, ReviewKeeps

-----------------------------------------------------------------------------
LEMMA RequestKeeps ==
    ASSUME ProposalsInv, Proposals!RequestDecision PROVE ProposalsInv'
<1>1. PICK k \in DOMAIN candidates :
        /\ decisions' = [decisions EXCEPT ![k] = "pending"]
        /\ requests' = Append(requests, k)
        /\ UNCHANGED <<snapshots, candidates, resumes, readerJob>>
  BY DEF Proposals!RequestDecision
<1>2. Series(decisions) /\ k \in DOMAIN decisions /\ Series(requests)
  BY Invariants DEF ProposalsInv
<1>3. /\ Series(decisions') /\ Len(decisions') = Len(decisions)
      /\ decisions'[k] = "pending"
      /\ \A i \in DOMAIN decisions : i # k => decisions'[i] = decisions[i]
  BY <1>1, <1>2, AlteredAt
<1>11. /\ Series(requests') /\ Len(requests') = Len(requests) + 1
       /\ requests'[Len(requests) + 1] = k
       /\ \A i \in DOMAIN requests : requests'[i] = requests[i]
  BY <1>1, <1>2, Appended
<1>4. Grows
  BY <1>1, <1>11, Invariants DEF Grows
<1>12. \A i \in DOMAIN candidates' : decisions'[i] # "none" => i \in AskedBy(Len(requests))'
  <2>1. k \in AskedBy(Len(requests))'
    BY <1>11, Invariants DEF AskedBy
  <2>2. \A i \in DOMAIN candidates : decisions[i] # "none" => i \in AskedBy(Len(requests))'
    BY <1>4, Invariants, StillAsked DEF ProposalsInv
  <2> QED
    BY <1>1, <1>3, <2>1, <2>2, Invariants
<1>5. \A i \in DOMAIN candidates' : CandidateSound(i)'
  BY <1>1, <1>4, StillSound
<1>6. \A s \in DOMAIN snapshots' : SnapshotSound(s)'
  BY <1>1, <1>4, StillInForce
<1>7. \A s \in 2..Proposals!head' : SeesAll(snapshots[s - 1], snapshots[s])'
  <2>1. \A s \in 2..Proposals!head : SeesAll(snapshots[s - 1], snapshots[s])
    BY DEF ProposalsInv
  <2> QED
    BY <2>1, <1>1 DEF SeesAll, Proposals!OfKind, Proposals!head
<1>8. Series(snapshots)' /\ Proposals!head' >= 1 /\ Numbered'
  BY <1>1 DEF ProposalsInv, Proposals!head, Numbered, Proposals!Used
<1>9. DOMAIN readerJob' = Readers /\ \A r \in Readers : JobSound(readerJob[r])'
  BY <1>1, <1>4, StillKnown
<1>10. Series(candidates') /\ Len(candidates') = Len(decisions')
  BY <1>1, <1>3 DEF ProposalsInv
<1> QED
  BY <1>3, <1>5, <1>6, <1>7, <1>8, <1>9, <1>10, <1>11, <1>12 DEF ProposalsInv

(* What a commit makes of the objects in force.                            *)
LEMMA Overwritten ==
    ASSUME NEW writes, NEW old
    PROVE  /\ DOMAIN Proposals!Over(writes, old) = DOMAIN writes \cup DOMAIN old
           /\ \A n \in DOMAIN writes : Proposals!Over(writes, old)[n] = writes[n]
           /\ \A n \in DOMAIN old \ DOMAIN writes : Proposals!Over(writes, old)[n] = old[n]
BY DEF Proposals!Over

LEMMA CommitSeesAll ==
    ASSUME NEW k, NEW writes, NEW old, WritesSound(k, writes, old),
           \A n \in DOMAIN old : ObjectSound(old[n])
    PROVE  SeesAll(old, Proposals!Over(writes, old))
<1> DEFINE new == Proposals!Over(writes, old)
<1>1. /\ DOMAIN new = DOMAIN writes \cup DOMAIN old
      /\ \A n \in DOMAIN writes : new[n] = writes[n]
      /\ \A n \in DOMAIN old \ DOMAIN writes : new[n] = old[n]
  BY Overwritten
<1> HIDE DEF new
<1>2. SUFFICES ASSUME NEW q \in Proposals!OfKind(old, "question"), new[q] # old[q],
                      NEW n \in DOMAIN new, q \in new[n].links, new[n] = old[n]
               PROVE  n \in new[q].flagged
  BY DEF SeesAll, new
<1>3. q \in DOMAIN old /\ old[q].kind = "question"
  BY DEF Proposals!OfKind
<1>4. q \in DOMAIN writes /\ new[q] = writes[q]
  BY <1>1, <1>2, <1>3
<1>5. RevisionSound(q, writes, old)
  BY <1>3, <1>4 DEF WritesSound
<1>6. CASE n \in DOMAIN old \ DOMAIN writes
  BY <1>2, <1>3, <1>4, <1>5, <1>6 DEF RevisionSound
<1>7. CASE n \in DOMAIN writes \cap DOMAIN old
  <2>1. RevisionSound(n, writes, old)
    BY <1>7 DEF WritesSound
  <2>2. writes[n].revision = old[n].revision + 1 /\ old[n].revision \in Nat
    BY <2>1, <1>7 DEF RevisionSound, ObjectSound
  <2>3. writes[n] = old[n]
    BY <1>1, <1>2, <1>7
  <2>4. writes[n].revision = old[n].revision
    BY <2>3
  <2> QED
    BY <2>2, <2>4
<1>8. CASE n \in DOMAIN writes \ DOMAIN old
  <2>1. CreationSound(n, writes, old)
    BY <1>8 DEF WritesSound
  <2>2. q \in writes[n].links
    BY <1>1, <1>2, <1>8
  <2>3. q \notin DOMAIN writes
    BY <2>1, <2>2 DEF CreationSound
  <2> QED
    BY <2>3, <1>4
<1> QED
  BY <1>1, <1>6, <1>7, <1>8

(* The committed step by itself.                                           *)
Committed(k) ==
    /\ k \in DOMAIN candidates
    /\ candidates[k].bound = Proposals!head /\ decisions[k] = "pending"
    /\ snapshots' = Append(snapshots, Proposals!Over(candidates[k].writes, Proposals!Objects))
    /\ decisions' = [decisions EXCEPT ![k] = "committed"]
    /\ candidates' = candidates /\ requests' = requests /\ readerJob' = readerJob

LEMMA CommitAppends ==
    ASSUME ProposalsInv, NEW k, Committed(k)
    PROVE  /\ Grows /\ Proposals!Used' = Proposals!Used
           /\ Series(snapshots') /\ Proposals!head' = Proposals!head + 1
                /\ DOMAIN snapshots' = DOMAIN snapshots \cup {Proposals!head + 1}
           /\ \A s \in DOMAIN snapshots : snapshots'[s] = snapshots[s]
           /\ snapshots'[Proposals!head + 1]
                = Proposals!Over(candidates[k].writes, Proposals!Objects)
           /\ Series(decisions') /\ Len(decisions') = Len(decisions)
           /\ \A i \in DOMAIN candidates : decisions'[i] # "none" => i \in AskedBy(Len(requests))
           /\ WritesSound(k, candidates[k].writes, Proposals!Objects)
<1>1. /\ Series(snapshots') /\ Proposals!head' = Proposals!head + 1
      /\ DOMAIN snapshots' = DOMAIN snapshots \cup {Proposals!head + 1}
      /\ \A s \in DOMAIN snapshots : s \in DOMAIN snapshots' /\ snapshots'[s] = snapshots[s]
      /\ snapshots'[Proposals!head + 1] = Proposals!Over(candidates[k].writes, Proposals!Objects)
  BY Appended DEF ProposalsInv, Proposals!head, Committed
<1>2. Series(decisions) /\ k \in DOMAIN decisions
      /\ decisions' = [decisions EXCEPT ![k] = "committed"]
  BY Invariants DEF ProposalsInv, Committed
<1>3. /\ Series(decisions') /\ Len(decisions') = Len(decisions)
      /\ decisions'[k] = "committed"
      /\ \A i \in DOMAIN decisions : i # k => decisions'[i] = decisions[i]
  BY <1>2, AlteredAt
<1>4. Grows
  BY <1>1, Invariants DEF Grows, Committed
<1>7. \A i \in DOMAIN candidates : decisions'[i] # "none" => i \in AskedBy(Len(requests))
  BY <1>3, Invariants DEF ProposalsInv, Committed
<1>5. Proposals!Used' = Proposals!Used
  <2>1. snapshots'[1] = snapshots[1]
    BY <1>1, Invariants
  <2> QED
    BY <2>1 DEF Proposals!Used, Committed
<1>6. WritesSound(k, candidates[k].writes, Proposals!Objects)
  BY DEF ProposalsInv, CandidateSound, Committed, Proposals!Objects
<1> QED
  BY <1>1, <1>3, <1>4, <1>5, <1>6, <1>7

LEMMA CommitKeeps ==
    ASSUME ProposalsInv, Proposals!Commit PROVE ProposalsInv'
<1>1. PICK k \in DOMAIN candidates : Committed(k)
  BY DEF Proposals!Commit, Proposals!BoundToHead, Committed
<1> DEFINE writes == candidates[k].writes
<1>2. PICK new : new = Proposals!Over(writes, Proposals!Objects)
  OBVIOUS
<1>3. /\ Grows /\ Proposals!Used' = Proposals!Used
      /\ Series(snapshots') /\ Proposals!head' = Proposals!head + 1
           /\ DOMAIN snapshots' = DOMAIN snapshots \cup {Proposals!head + 1}
      /\ \A s \in DOMAIN snapshots : snapshots'[s] = snapshots[s]
      /\ snapshots'[Proposals!head + 1] = new
      /\ Series(decisions') /\ Len(decisions') = Len(decisions)
      /\ \A i \in DOMAIN candidates : decisions'[i] # "none" => i \in AskedBy(Len(requests))
      /\ WritesSound(k, writes, Proposals!Objects)
  BY <1>1, <1>2, CommitAppends
<1>4. /\ DOMAIN new = DOMAIN writes \cup DOMAIN Proposals!Objects
      /\ \A n \in DOMAIN writes : new[n] = writes[n]
      /\ \A n \in DOMAIN Proposals!Objects \ DOMAIN writes : new[n] = Proposals!Objects[n]
  <2> DEFINE over == Proposals!Over(writes, Proposals!Objects)
  <2>1. /\ DOMAIN over = DOMAIN writes \cup DOMAIN Proposals!Objects
        /\ \A n \in DOMAIN writes : over[n] = writes[n]
        /\ \A n \in DOMAIN Proposals!Objects \ DOMAIN writes : over[n] = Proposals!Objects[n]
    BY Overwritten
  <2>2. new = over
    BY <1>2
  <2> HIDE DEF over
  <2> QED
    BY <2>1, <2>2
<1>5. candidates' = candidates /\ readerJob' = readerJob /\ requests' = requests
  BY <1>1 DEF Committed
<1>6. SnapshotSound(Proposals!head)
  BY Invariants DEF ProposalsInv
<1>7. PICK last : last = Proposals!head + 1
  OBVIOUS
<1>8. SnapshotSound(last)'
  <2>1. DOMAIN writes \subseteq Proposals!Used
    BY <1>1 DEF Proposals!Used
  <2>2. DOMAIN new \subseteq Proposals!Used'
    BY <2>1, <1>3, <1>4, Invariants
  <2>3. \A n \in DOMAIN new : ObjectSound(new[n])
    BY <1>3, <1>4, Invariants DEF WritesSound
  <2>4. ASSUME NEW n \in DOMAIN new, new[n].kind \in Explained PROVE InForce(n, new)'
    <3>1. CASE n \in DOMAIN writes
      <4>1. new[n] = writes[n] /\ writes[n].by = k
        BY <3>1, <1>3, <1>4 DEF WritesSound
      <4>2. k \in AskedBy(Len(requests))
        BY <1>1, Invariants DEF ProposalsInv, Committed
      <4>3. AskedBy(Len(requests))' = AskedBy(Len(requests))
        BY <1>5 DEF AskedBy
      <4> QED
        BY <4>1, <4>2, <4>3, <3>1, <1>1, <1>5 DEF InForce
    <3>2. CASE n \in DOMAIN Proposals!Objects \ DOMAIN writes
      <4>1. new[n] = Proposals!Objects[n] /\ InForce(n, Proposals!Objects)
        BY <3>2, <2>4, <1>4, <1>6 DEF SnapshotSound, Proposals!Objects
      <4>2. AskedBy(Len(requests))' = AskedBy(Len(requests))
        BY <1>5 DEF AskedBy
      <4> QED
        BY <4>1, <4>2, <1>5 DEF InForce
    <3> QED
      BY <3>1, <3>2, <1>4
  <2> QED
    BY <2>2, <2>3, <2>4, <1>3, <1>7 DEF SnapshotSound
<1>9. \A s \in DOMAIN snapshots' : SnapshotSound(s)'
  BY <1>3, <1>7, <1>8, StillInForce
<1>10. \A s \in 2..Proposals!head' : SeesAll(snapshots[s - 1], snapshots[s])'
  <2>1. \A s \in 2..Proposals!head : SeesAll(snapshots[s - 1], snapshots[s])
    BY DEF ProposalsInv
  <2>2. SeesAll(Proposals!Objects, new)
    BY <1>2, <1>3, CommitSeesAll, Invariants
  <2>3. SUFFICES ASSUME NEW s \in 2..Proposals!head' PROVE SeesAll(snapshots'[s - 1], snapshots'[s])
    BY DEF SeesAll, Proposals!OfKind
  <2>4. CASE s \in 2..Proposals!head
    <3>1. s - 1 \in DOMAIN snapshots /\ s \in DOMAIN snapshots
      BY <2>4, Invariants
    <3> QED
      BY <3>1, <2>1, <2>4, <1>3
  <2>5. CASE s = Proposals!head + 1
    <3>1. s - 1 = Proposals!head /\ Proposals!head \in DOMAIN snapshots
      BY <2>5, Invariants
    <3>2. snapshots'[s - 1] = Proposals!Objects /\ snapshots'[s] = new
      BY <3>1, <2>5, <1>3 DEF Proposals!Objects
    <3> QED
      BY <3>2, <2>2
  <2> QED
    BY <2>3, <2>4, <2>5, <1>3, Invariants
<1>11. \A i \in DOMAIN candidates' : CandidateSound(i)'
  BY <1>3, <1>5, StillSound
<1>12. DOMAIN readerJob' = Readers /\ \A r \in Readers : JobSound(readerJob[r])'
  BY <1>3, <1>5, StillKnown
<1>13. /\ Series(candidates') /\ Len(candidates') = Len(decisions') /\ Proposals!head' >= 1
       /\ Numbered' /\ Series(requests')
  <2>1. Proposals!head' >= 1
    BY <1>3, Invariants
  <2>2. Numbered'
    BY <1>3 DEF ProposalsInv, Numbered
  <2> QED
    BY <2>1, <2>2, <1>3, <1>5 DEF ProposalsInv
<1>14. \A i \in DOMAIN candidates' : decisions'[i] # "none" => i \in AskedBy(Len(requests))'
  BY <1>3, <1>5 DEF AskedBy
<1> QED
  BY <1>3, <1>9, <1>10, <1>11, <1>12, <1>13, <1>14 DEF ProposalsInv

-----------------------------------------------------------------------------
(* A reader's step leaves all but what it holds.                           *)
LEMMA ReaderKeeps ==
    ASSUME ProposalsInv, NEW r \in Readers, NEW j, JobSound(j),
           readerJob' = [readerJob EXCEPT ![r] = j],
           UNCHANGED <<snapshots, candidates, decisions, requests>>
    PROVE  ProposalsInv'
<1>1. DOMAIN readerJob = Readers /\ \A x \in Readers : JobSound(readerJob[x])
  BY DEF ProposalsInv
<1>2. /\ readerJob'[r] = j /\ DOMAIN readerJob' = Readers
      /\ \A x \in Readers \ {r} : readerJob'[x] = readerJob[x]
  BY <1>1
<1>3. \A x : JobSound(x) => JobSound(x)'
  <2>1. Grows
    BY Invariants DEF Grows
  <2> QED
    BY <2>1, JobKept
<1>4. ASSUME NEW x \in Readers PROVE JobSound(readerJob[x])'
  <2>1. PICK y : y = readerJob'[x]
    OBVIOUS
  <2>2. JobSound(y)
    BY <1>1, <1>2, <2>1
  <2>3. JobSound(y)'
    BY <2>2, <1>3
  <2> QED
    BY <2>1, <2>3 DEF JobSound
<1>5. /\ \A k \in DOMAIN candidates' : CandidateSound(k)'
      /\ \A s \in DOMAIN snapshots' : SnapshotSound(s)'
      /\ \A k \in DOMAIN candidates' : decisions'[k] # "none" => k \in AskedBy(Len(requests))'
  BY DEF ProposalsInv, CandidateSound, SnapshotSound, InForce, Proposals!Used, AskedBy
<1>6. \A s \in 2..Proposals!head' : SeesAll(snapshots[s - 1], snapshots[s])'
  BY DEF ProposalsInv, SeesAll, Proposals!OfKind, Proposals!head
<1>7. /\ Series(snapshots)' /\ Proposals!head' >= 1 /\ Numbered'
      /\ Series(candidates)' /\ Series(decisions)' /\ Len(candidates') = Len(decisions')
      /\ Series(requests)'
  BY DEF ProposalsInv, Numbered, Proposals!Used, Proposals!head
<1> QED
  BY <1>2, <1>4, <1>5, <1>6, <1>7 DEF ProposalsInv

LEMMA IdleSound ==
    JobSound(Proposals!Idle)
BY DEF JobSound, Proposals!Idle

(* What is in force was requested, and the lists tell of it.               *)
LEMMA AllRequested ==
    ASSUME ProposalsInv, NEW s \in DOMAIN snapshots
    PROVE  Known(snapshots[s], Len(candidates), Len(requests))
<1>1. SnapshotSound(s)
  BY DEF ProposalsInv
<1> QED
  BY <1>1, Invariants DEF SnapshotSound, InForce, Known

LEMMA ReadStatusKeeps ==
    ASSUME ProposalsInv, NEW r \in Readers, Proposals!ReadStatus(r) PROVE ProposalsInv'
<1> DEFINE j == [at |-> "status", snapshot |-> Proposals!head]
<1>1. JobSound(j)
  BY DEF JobSound
<1>2. readerJob' = [readerJob EXCEPT ![r] = j]
      /\ UNCHANGED <<snapshots, candidates, decisions, requests>>
  BY DEF Proposals!ReadStatus
<1> QED
  BY <1>1, <1>2, ReaderKeeps

LEMMA ReadStateKeeps ==
    ASSUME ProposalsInv, NEW r \in Readers, Proposals!ReadState(r) PROVE ProposalsInv'
<1> DEFINE j == [at |-> "state", snapshot |-> readerJob[r].snapshot, state |-> Proposals!head]
<1>1. JobSound(j)
  BY Invariants DEF JobSound, Proposals!ReadState, Proposals!StatusBinds
<1>2. readerJob' = [readerJob EXCEPT ![r] = j]
      /\ UNCHANGED <<snapshots, candidates, decisions, requests>>
  BY DEF Proposals!ReadState
<1> QED
  BY <1>1, <1>2, ReaderKeeps

LEMMA ReadListsKeeps ==
    ASSUME ProposalsInv, NEW r \in Readers, Proposals!ReadLists(r) PROVE ProposalsInv'
<1> DEFINE j == [at |-> "lists", snapshot |-> readerJob[r].snapshot, state |-> readerJob[r].state,
                 candidates |-> Len(candidates), requests |-> Len(requests)]
<1>1. readerJob[r].at = "state" /\ JobSound(readerJob[r])
  BY DEF ProposalsInv, Proposals!ReadLists
<1>2. readerJob[r].state = readerJob[r].snapshot /\ readerJob[r].state \in DOMAIN snapshots
  BY <1>1 DEF JobSound
<1>3. Known(snapshots[readerJob[r].state], Len(candidates), Len(requests))
  BY <1>2, AllRequested
<1>4. JobSound(j)
  BY <1>2, <1>3, Invariants DEF JobSound
<1>5. readerJob' = [readerJob EXCEPT ![r] = j]
      /\ UNCHANGED <<snapshots, candidates, decisions, requests>>
  BY DEF Proposals!ReadLists
<1> QED
  BY <1>4, <1>5, ReaderKeeps

LEMMA ReadReviewsKeeps ==
    ASSUME ProposalsInv, NEW r \in Readers, Proposals!ReadReviews(r) PROVE ProposalsInv'
<1>1. PICK kept \in Proposals!Cuts(Proposals!Read(readerJob[r].candidates, Len(candidates))) :
        readerJob' = [readerJob EXCEPT ![r] =
            [at |-> "shown", snapshot |-> @.snapshot, state |-> @.state, review |-> Proposals!head,
             candidates |-> @.candidates, reviewed |-> Len(candidates), kept |-> kept,
             requests |-> @.requests, later |-> Len(requests)]]
  BY DEF Proposals!ReadReviews
<1> DEFINE j == [at |-> "shown", snapshot |-> readerJob[r].snapshot, state |-> readerJob[r].state,
                 review |-> Proposals!head, candidates |-> readerJob[r].candidates,
                 reviewed |-> Len(candidates), kept |-> kept,
                 requests |-> readerJob[r].requests, later |-> Len(requests)]
<1>2. readerJob[r].at = "lists" /\ JobSound(readerJob[r])
  BY DEF ProposalsInv, Proposals!ReadReviews
<1>3. /\ readerJob[r].state = readerJob[r].snapshot /\ readerJob[r].state \in DOMAIN snapshots
      /\ readerJob[r].candidates \in Nat /\ readerJob[r].candidates <= Len(candidates)
      /\ readerJob[r].requests \in Nat /\ readerJob[r].requests <= Len(requests)
      /\ Known(snapshots[readerJob[r].state], readerJob[r].candidates, readerJob[r].requests)
  BY <1>2 DEF JobSound
<1>4. JobSound(j)
  BY <1>1, <1>3, Invariants DEF JobSound
<1>5. readerJob' = [readerJob EXCEPT ![r] = j]
      /\ UNCHANGED <<snapshots, candidates, decisions, requests>>
  BY <1>1 DEF Proposals!ReadReviews
<1> QED
  BY <1>4, <1>5, ReaderKeeps

LEMMA LeaveKeeps ==
    ASSUME ProposalsInv, NEW r \in Readers, Proposals!RefuseState(r) \/ Proposals!Leave(r)
    PROVE  ProposalsInv'
<1>1. /\ readerJob' = [readerJob EXCEPT ![r] = Proposals!Idle]
      /\ UNCHANGED <<snapshots, candidates, decisions, requests>>
  BY DEF Proposals!RefuseState, Proposals!Leave
<1> QED
  BY <1>1, IdleSound, ReaderKeeps

-----------------------------------------------------------------------------
LEMMA ProposalsInit ==
    Proposals!Init => ProposalsInv
<1> SUFFICES ASSUME Proposals!Init PROVE ProposalsInv
  OBVIOUS
<1> DEFINE first == [n \in {1, 2} |->
              IF n = 1 THEN [Proposals!Object("evidence", {}, 0) EXCEPT !.status = "unverified"]
              ELSE Proposals!Object("finding", {}, 0)]
<1>1. /\ DOMAIN first = {1, 2}
      /\ first[1] = [Proposals!Object("evidence", {}, 0) EXCEPT !.status = "unverified"]
      /\ first[2] = Proposals!Object("finding", {}, 0)
  OBVIOUS
<1>2. \A n \in {1, 2} : ObjectSound(first[n]) /\ first[n].kind \notin Explained
  <2>1. ObjectSound(first[1]) /\ first[1].kind = "evidence"
    BY <1>1 DEF ObjectSound, Proposals!Object, Fields
  <2>2. ObjectSound(first[2]) /\ first[2].kind = "finding"
    BY <1>1 DEF ObjectSound, Proposals!Object, Fields
  <2> QED
    BY <2>1, <2>2 DEF Explained
<1>3. snapshots = <<first>> /\ candidates = <<>> /\ decisions = <<>> /\ requests = <<>>
      /\ readerJob = [r \in Readers |-> Proposals!Idle]
  BY DEF Proposals!Init
<1> HIDE DEF first
<1>4. Series(snapshots) /\ Proposals!head = 1 /\ DOMAIN snapshots = {1} /\ snapshots[1] = first
  <2>1. <<first>> \in Seq({first})
    OBVIOUS
  <2>2. Series(snapshots)
    BY <2>1, <1>3 DEF Series
  <2>3. Len(<<first>>) = 1 /\ DOMAIN <<first>> = {1} /\ <<first>>[1] = first
    OBVIOUS
  <2> QED
    BY <2>2, <2>3, <1>3 DEF Proposals!head
<1>5. Series(candidates) /\ Series(decisions) /\ Len(candidates) = Len(decisions)
      /\ DOMAIN candidates = {} /\ Series(requests)
  <2>1. <<>> \in Seq({})
    OBVIOUS
  <2> QED
    BY <2>1, <1>3 DEF Series
<1>6. Proposals!Used = 1..2
  BY <1>1, <1>4, <1>5 DEF Proposals!Used
<1>7. Numbered
  BY <1>6 DEF Numbered
<1>8. \A s \in DOMAIN snapshots : SnapshotSound(s)
  BY <1>1, <1>2, <1>4, <1>6 DEF SnapshotSound
<1>9. DOMAIN readerJob = Readers /\ \A r \in Readers : JobSound(readerJob[r])
  BY <1>3, IdleSound
<1> QED
  BY <1>4, <1>5, <1>7, <1>8, <1>9 DEF ProposalsInv

(* Every step keeps the invariant.                                         *)
LEMMA ProposalsStep ==
    ProposalsInv /\ Proposals!Next => ProposalsInv'
<1> SUFFICES ASSUME ProposalsInv, Proposals!Next PROVE ProposalsInv'
  OBVIOUS
<1>1. CASE Proposals!Propose
  BY <1>1, ProposeKeeps
<1>2. CASE Proposals!ProposeMany
  BY <1>2, ProposeManyKeeps
<1>3. CASE Proposals!ProposeArgument
  BY <1>3, ProposeArgumentKeeps
<1>4. CASE Proposals!ProposeRecommendation
  BY <1>4, ProposeRecommendationKeeps
<1>5. CASE Proposals!Qualify
  BY <1>5, QualifyKeeps
<1>6. CASE Proposals!Refine
  BY <1>6, RefineKeeps
<1>7. CASE Proposals!Close
  BY <1>7, CloseKeeps
<1>8. CASE Proposals!Split
  BY <1>8, SplitKeeps
<1>9. CASE Proposals!Merge
  BY <1>9, MergeKeeps
<1>10. CASE Proposals!RequestDecision
  BY <1>10, RequestKeeps
<1>11. CASE Proposals!Commit
  BY <1>11, CommitKeeps
<1>12. ASSUME NEW r \in Readers,
              \/ Proposals!ReadStatus(r) \/ Proposals!ReadState(r) \/ Proposals!RefuseState(r)
                   \/ Proposals!ReadLists(r)
              \/ Proposals!ReadReviews(r) \/ Proposals!Leave(r)
       PROVE  ProposalsInv'
  BY <1>12, ReadStatusKeeps, ReadStateKeeps, ReadListsKeeps, ReadReviewsKeeps, LeaveKeeps
<1> QED
  BY <1>1, <1>2, <1>3, <1>4, <1>5, <1>6, <1>7, <1>8, <1>9, <1>10, <1>11, <1>12
     DEF Proposals!Next

LEMMA ProposalsStand ==
    ProposalsInv /\ UNCHANGED <<snapshots, candidates, decisions, requests, readerJob>>
    => ProposalsInv'
<1> SUFFICES ASSUME ProposalsInv,
                    UNCHANGED <<snapshots, candidates, decisions, requests, readerJob>>
             PROVE  ProposalsInv'
  OBVIOUS
<1>1. /\ \A k \in DOMAIN candidates' : CandidateSound(k)'
      /\ \A s \in DOMAIN snapshots' : SnapshotSound(s)'
      /\ \A k \in DOMAIN candidates' : decisions'[k] # "none" => k \in AskedBy(Len(requests))'
  BY DEF ProposalsInv, CandidateSound, SnapshotSound, InForce, Proposals!Used, AskedBy
<1>2. \A s \in 2..Proposals!head' : SeesAll(snapshots[s - 1], snapshots[s])'
  BY DEF ProposalsInv, SeesAll, Proposals!OfKind, Proposals!head
<1>3. /\ Series(snapshots)' /\ Proposals!head' >= 1 /\ Numbered'
      /\ Series(candidates)' /\ Series(decisions)' /\ Len(candidates') = Len(decisions')
      /\ Series(requests)'
  BY DEF ProposalsInv, Numbered, Proposals!Used, Proposals!head
<1>4. DOMAIN readerJob' = Readers /\ \A r \in Readers : JobSound(readerJob[r])'
  <2>1. Grows
    BY Invariants DEF Grows
  <2> QED
    BY <2>1, StillKnown
<1> QED
  BY <1>1, <1>2, <1>3, <1>4 DEF ProposalsInv

(* All of what is no more than the limit are the newest.                   *)
LEMMA NewestAll ==
    ASSUME NEW n \in Nat, NEW S \in SUBSET (1..n), NEW limit \in Nat,
           ~(Proposals!Cardinality(S) > limit)
    PROVE  Proposals!Newest(S, limit) = S
<1>1. IsFiniteSet(S)
  <2>1. IsFiniteSet(1..n)
    BY FS_Interval
  <2> QED
    BY <2>1, FS_Subset
<1>2. Cardinality(S) \in Nat /\ Cardinality(S) <= limit
  BY <1>1, FS_CardinalityType, SameCount
<1>3. ASSUME NEW k \in S PROVE Proposals!Cardinality({m \in S : m > k}) < limit
  <2> DEFINE later == {m \in S : m > k}
  <2>1. later \subseteq S \ {k}
    OBVIOUS
  <2>2. IsFiniteSet(S \ {k}) /\ Cardinality(S \ {k}) = Cardinality(S) - 1
    BY <1>1, FS_RemoveElement
  <2> HIDE DEF later
  <2>3. IsFiniteSet(later) /\ Cardinality(later) <= Cardinality(S \ {k})
    BY <2>1, <2>2, FS_Subset
  <2>4. Cardinality(later) \in Nat /\ Proposals!Cardinality(later) = Cardinality(later)
    BY <2>3, FS_CardinalityType, SameCount
  <2>5. Proposals!Cardinality(later) < limit
    BY <1>2, <2>2, <2>3, <2>4
  <2> QED
    BY <2>5 DEF later
<1> QED
  BY <1>3 DEF Proposals!Newest

(* A request of the first n is among those read, unless there are too many.*)
LEMMA RequestRead ==
    ASSUME NEW n \in Nat, NEW k \in AskedBy(n)
    PROVE  k \in Proposals!Requested(n) \/ n > RequestLimit
<1> SUFFICES ASSUME ~(n > RequestLimit) PROVE k \in Proposals!Requested(n)
  OBVIOUS
<1>1. Proposals!Cardinality(1..n) = n
  BY FS_Interval, SameCount
<1>2. Proposals!Newest(1..n, RequestLimit) = 1..n
  BY <1>1, NewestAll, ResumeAssumption
<1> QED
  BY <1>2 DEF AskedBy, Proposals!Requested

(* A resume that is not marked as cut shows every candidate it read.       *)
LEMMA AllKept ==
    ASSUME NEW j, j.candidates \in Nat, j.reviewed \in Nat, ~Proposals!Truncated(j),
           j.kept \in Proposals!Cuts(Proposals!Read(j.candidates, j.reviewed))
    PROVE  j.kept = Proposals!Proposals(j.candidates) \cup Proposals!QuestionReviews(j.reviewed)
<1>1. Proposals!Newest(Proposals!Proposals(j.candidates), CandidateLimit)
      = Proposals!Proposals(j.candidates)
  <2>1. Proposals!Proposals(j.candidates) \in SUBSET (1..j.candidates)
    BY DEF Proposals!Proposals
  <2>2. ~(Proposals!Cardinality(Proposals!Proposals(j.candidates)) > CandidateLimit)
    BY DEF Proposals!Truncated
  <2> QED
    BY <2>1, <2>2, NewestAll, ResumeAssumption
<1>2. Proposals!Newest(Proposals!QuestionReviews(j.reviewed), CandidateLimit)
      = Proposals!QuestionReviews(j.reviewed)
  <2>1. Proposals!QuestionReviews(j.reviewed) \in SUBSET (1..j.reviewed)
    BY DEF Proposals!QuestionReviews
  <2>2. ~(Proposals!Cardinality(Proposals!QuestionReviews(j.reviewed)) > CandidateLimit)
    BY DEF Proposals!Truncated
  <2> QED
    BY <2>1, <2>2, NewestAll, ResumeAssumption
<1>3. PICK all : all = Proposals!Read(j.candidates, j.reviewed)
  OBVIOUS
<1>4. all = Proposals!Proposals(j.candidates) \cup Proposals!QuestionReviews(j.reviewed)
  BY <1>1, <1>2, <1>3 DEF Proposals!Read
<1>5. IsFiniteSet(all) /\ Cardinality(all) \in Nat
  <2>1. all \subseteq (1..j.candidates) \cup (1..j.reviewed)
    BY <1>4 DEF Proposals!Proposals, Proposals!QuestionReviews
  <2>2. IsFiniteSet((1..j.candidates) \cup (1..j.reviewed))
    <3>1. ASSUME NEW n \in Nat PROVE IsFiniteSet(1..n)
      BY FS_Interval
    <3> QED
      BY <3>1, FS_Union
  <2> QED
    BY <2>1, <2>2, FS_Subset, FS_CardinalityType
<1>6. Proposals!Cardinality(all) <= CandidateLimit
  <2>1. ~(Proposals!Cardinality(all) > CandidateLimit)
    BY <1>3 DEF Proposals!Truncated
  <2>2. Proposals!Cardinality(all) = Cardinality(all)
    BY SameCount
  <2> QED
    BY <2>1, <2>2, <1>5, ResumeAssumption
<1>7. Proposals!Cuts(all) = {all}
  BY <1>6 DEF Proposals!Cuts
<1> QED
  BY <1>3, <1>4, <1>7

(* What the resumes show.                                                  *)
LEMMA ShownExplains ==
    ASSUME ProposalsInv, NEW r \in Readers, readerJob[r].at = "shown"
    PROVE  LET j == readerJob[r]
               shown == Proposals!ShownCandidates(j)
               saved == Proposals!ShownSynthesis(j)
               state == snapshots[j.state]
           IN /\ j.state = j.snapshot
              /\ \A q \in Proposals!OfKind(state, "question") :
                   IF state[q].by \in DOMAIN shown
                   THEN shown[state[q].by].decided \/ shown[state[q].by].asked > RequestLimit
                   ELSE Proposals!Truncated(j)
              /\ \A n \in Proposals!OfKind(state, "argument") \cup Proposals!OfKind(state,
                   "recommendation") :
                   IF state[n].by \in DOMAIN saved
                   THEN saved[state[n].by].subjects[n].then = state[n]
                   ELSE Proposals!SynthesisTruncated(j)
<1>1. PICK j : j = readerJob[r]
  OBVIOUS
<1>2. PICK state : state = snapshots[j.state]
  OBVIOUS
<1>3. JobSound(j) /\ j.at = "shown"
  BY <1>1 DEF ProposalsInv
<1>4. /\ j.state = j.snapshot /\ j.state \in DOMAIN snapshots
      /\ j.candidates \in Nat /\ Known(state, j.candidates, j.requests)
      /\ j.reviewed \in Nat /\ j.reviewed >= j.candidates /\ j.reviewed <= Len(candidates)
      /\ j.requests \in Nat /\ j.later \in Nat /\ j.later >= j.requests
      /\ j.kept \in Proposals!Cuts(Proposals!Read(j.candidates, j.reviewed))
  BY <1>2, <1>3 DEF JobSound
<1>5. SnapshotSound(j.state)
  BY <1>4 DEF ProposalsInv
<1>6. ASSUME NEW n \in DOMAIN state, state[n].kind \in Explained, NEW k, k = state[n].by
      PROVE  /\ k \in 1..j.candidates /\ k \in 1..j.reviewed
             /\ k \in AskedBy(j.requests) /\ k \in AskedBy(j.later)
             /\ n \in DOMAIN candidates[k].writes /\ candidates[k].writes[n] = state[n]
             /\ ShapeSound(candidates[k].maker, candidates[k].writes,
                           snapshots[candidates[k].bound])
  <2>1. InForce(n, state)
    BY <1>2, <1>5, <1>6 DEF SnapshotSound
  <2>2. k \in 1..j.candidates /\ k \in AskedBy(j.requests)
    BY <1>4, <1>6 DEF Known
  <2>3. /\ k \in DOMAIN candidates /\ n \in DOMAIN candidates[k].writes
        /\ candidates[k].writes[n] = state[n]
    BY <2>1, <1>6 DEF InForce
  <2>4. ShapeSound(candidates[k].maker, candidates[k].writes, snapshots[candidates[k].bound])
    BY <2>3 DEF ProposalsInv, CandidateSound
  <2>5. k \in 1..j.reviewed /\ k \in AskedBy(j.later)
    BY <2>2, <1>4 DEF AskedBy
  <2> QED
    BY <2>2, <2>3, <2>4, <2>5
<1>7. ASSUME NEW q \in Proposals!OfKind(state, "question"), NEW k, k = state[q].by
      PROVE  IF k \in DOMAIN Proposals!ShownCandidates(j)
             THEN \/ Proposals!ShownCandidates(j)[k].decided
                  \/ Proposals!ShownCandidates(j)[k].asked > RequestLimit
             ELSE Proposals!Truncated(j)
  <2>1. q \in DOMAIN state /\ state[q].kind = "question"
    BY <1>7 DEF Proposals!OfKind
  <2>2. /\ k \in 1..j.candidates /\ k \in 1..j.reviewed
        /\ k \in AskedBy(j.requests) /\ k \in AskedBy(j.later)
        /\ q \in DOMAIN candidates[k].writes /\ candidates[k].writes[q].kind = "question"
        /\ ShapeSound(candidates[k].maker, candidates[k].writes, snapshots[candidates[k].bound])
    BY <2>1, <1>6, <1>7 DEF Explained
  <2>3. DOMAIN Proposals!ShownCandidates(j) = j.kept
    BY DEF Proposals!ShownCandidates
  <2>4. CASE k \in j.kept
    <3>1. PICK n : n = IF k \in Proposals!QuestionReviews(j.reviewed) THEN j.later ELSE j.requests
      OBVIOUS
    <3>2. /\ Proposals!ShownCandidates(j)[k].decided <=> k \in Proposals!Requested(n)
          /\ Proposals!ShownCandidates(j)[k].asked = n
      BY <2>4, <3>1 DEF Proposals!ShownCandidates
    <3>3. n \in Nat /\ k \in AskedBy(n)
      BY <1>4, <2>2, <3>1
    <3> QED
      BY <2>3, <2>4, <3>2, <3>3, RequestRead
  <2>5. CASE k \notin j.kept
    <3>1. SUFFICES ASSUME ~Proposals!Truncated(j) PROVE FALSE
      BY <2>3, <2>5
    <3>2. j.kept = Proposals!Proposals(j.candidates) \cup Proposals!QuestionReviews(j.reviewed)
      BY <1>4, <3>1, AllKept
    <3>3. \/ ReviewLike(candidates[k].maker, candidates[k].writes, snapshots[candidates[k].bound])
          \/ ProposalLike(candidates[k].maker, candidates[k].writes,
                          snapshots[candidates[k].bound])
      BY <2>2 DEF ShapeSound
    <3>4. Proposals!ReviewShape(k) \/ Proposals!ProposalShape(k)
      BY <3>3, ShapesTold
    <3>5. Proposals!ReviewShape(k) => candidates[k].maker \in Proposals!Reviews
      BY DEF Proposals!ReviewShape, Proposals!Reviews
    <3> QED
      BY <2>2, <2>5, <3>2, <3>4, <3>5 DEF Proposals!Proposals, Proposals!QuestionReviews
  <2> QED
    BY <2>4, <2>5
<1>8. ASSUME NEW n \in Proposals!OfKind(state, "argument") \cup Proposals!OfKind(state,
             "recommendation"), NEW k, k = state[n].by
      PROVE  IF k \in DOMAIN Proposals!ShownSynthesis(j)
             THEN Proposals!ShownSynthesis(j)[k].subjects[n].then = state[n]
             ELSE Proposals!SynthesisTruncated(j)
  <2>1. n \in DOMAIN state /\ state[n].kind \in {"argument", "recommendation"}
    BY <1>8 DEF Proposals!OfKind
  <2>2. /\ k \in 1..j.reviewed
        /\ n \in DOMAIN candidates[k].writes /\ candidates[k].writes[n] = state[n]
        /\ ShapeSound(candidates[k].maker, candidates[k].writes, snapshots[candidates[k].bound])
    BY <2>1, <1>6, <1>8 DEF Explained
  <2>3. SynthesisLike(candidates[k].maker, candidates[k].writes, snapshots[candidates[k].bound])
    BY <2>1, <2>2 DEF ShapeSound
  <2>4. k \in Proposals!Syntheses(j.reviewed)
    BY <2>2, <2>3, ShapesTold DEF Proposals!Syntheses
  <2>5. CASE k \in DOMAIN Proposals!ShownSynthesis(j)
    <3>1. Proposals!ShownSynthesis(j)[k] = Proposals!Projection(k, j.review)
      BY <2>5 DEF Proposals!ShownSynthesis
    <3>2. Proposals!Projection(k, j.review).subjects[n].then = candidates[k].writes[n]
      BY <2>2 DEF Proposals!Projection
    <3> QED
      BY <2>2, <2>5, <3>1, <3>2
  <2>6. CASE k \notin DOMAIN Proposals!ShownSynthesis(j)
    <3>1. SUFFICES ASSUME ~Proposals!SynthesisTruncated(j) PROVE FALSE
      BY <2>6
    <3>2. ~(Proposals!Cardinality(Proposals!Syntheses(j.reviewed)) > SynthesisLimit)
      BY <3>1 DEF Proposals!SynthesisTruncated
    <3>3. Proposals!Syntheses(j.reviewed) \in SUBSET (1..j.reviewed)
      BY DEF Proposals!Syntheses
    <3>4. Proposals!Newest(Proposals!Syntheses(j.reviewed), SynthesisLimit)
          = Proposals!Syntheses(j.reviewed)
      BY <1>4, <3>2, <3>3, NewestAll, ResumeAssumption
    <3> QED
      BY <2>4, <2>6, <3>4 DEF Proposals!ShownSynthesis
  <2> QED
    BY <2>5, <2>6
<1> QED
  BY <1>1, <1>2, <1>4, <1>7, <1>8

(* A new Snapshot follows from the one before.                             *)
LEMMA CommitFollows ==
    ASSUME ProposalsInv, Proposals!Commit PROVE Proposals!RevisionsFollow
<1>1. PICK k \in DOMAIN candidates : Committed(k)
  BY DEF Proposals!Commit, Proposals!BoundToHead, Committed
<1>2. PICK writes : writes = candidates[k].writes
  OBVIOUS
<1>3. PICK old : old = Proposals!Objects
  OBVIOUS
<1> DEFINE new == Proposals!Over(writes, old)
<1>4. /\ Proposals!head' = Proposals!head + 1 /\ snapshots'[Proposals!head'] = new
      /\ snapshots[Proposals!head] = old
      /\ WritesSound(k, writes, old)
  BY <1>1, <1>2, <1>3, CommitAppends DEF Proposals!Objects
<1>5. /\ DOMAIN new = DOMAIN writes \cup DOMAIN old
      /\ \A n \in DOMAIN writes : new[n] = writes[n]
      /\ \A n \in DOMAIN old \ DOMAIN writes : new[n] = old[n]
  BY Overwritten
<1> HIDE DEF new
<1>6. ASSUME NEW n \in DOMAIN old
      PROVE  \/ new[n] = old[n]
             \/ /\ new[n].revision = old[n].revision + 1
                /\ old[n].status \notin {"closed", "verified"}
  <2>1. CASE n \in DOMAIN writes
    <3>1. RevisionSound(n, writes, old)
      BY <2>1, <1>4 DEF WritesSound
    <3> QED
      BY <3>1, <2>1, <1>5 DEF RevisionSound
  <2>2. CASE n \notin DOMAIN writes
    BY <2>2, <1>5
  <2> QED
    BY <2>1, <2>2
<1>7. ASSUME NEW n \in DOMAIN new \ DOMAIN old, NEW m \in new[n].links
      PROVE  m \in DOMAIN new /\ new[m].status # "closed"
  <2>1. n \in DOMAIN writes \ DOMAIN old /\ new[n] = writes[n]
    BY <1>5
  <2>2. CreationSound(n, writes, old)
    BY <2>1, <1>4 DEF WritesSound
  <2>3. m \in DOMAIN old \ DOMAIN writes /\ old[m].status # "closed"
    BY <2>1, <2>2, <1>7 DEF CreationSound
  <2> QED
    BY <2>3, <1>5
<1> QED
  BY <1>4, <1>5, <1>6, <1>7 DEF Proposals!RevisionsFollow

LEMMA ProposalsFollow ==
    ProposalsInv /\ Proposals!Next => Proposals!RevisionsFollow
<1> SUFFICES ASSUME ProposalsInv, Proposals!Next PROVE Proposals!RevisionsFollow
  OBVIOUS
<1>1. CASE Proposals!Commit
  BY <1>1, CommitFollows
<1>2. CASE ~Proposals!Commit
  <2>1. UNCHANGED snapshots
    BY <1>2 DEF Proposals!Next, Proposals!Propose, Proposals!ProposeMany,
       Proposals!ProposeArgument, Proposals!ProposeRecommendation, Proposals!Qualify,
                Proposals!Refine, Proposals!Close, Proposals!Split, Proposals!Merge,
                Proposals!Store, Proposals!RequestDecision, Proposals!ReadStatus,
                Proposals!ReadState,
                Proposals!RefuseState, Proposals!ReadLists, Proposals!ReadReviews, Proposals!Leave
  <2> QED
    BY <2>1 DEF Proposals!RevisionsFollow, Proposals!head
<1> QED
  BY <1>1, <1>2

(* What the invariant says of the properties.                              *)
LEMMA ProposalsRight ==
    ProposalsInv => Proposals!ReviewSeesAll /\ Proposals!ResumeExplains
<1> SUFFICES ASSUME ProposalsInv PROVE Proposals!ReviewSeesAll /\ Proposals!ResumeExplains
  OBVIOUS
<1>1. Proposals!ReviewSeesAll
  BY DEF ProposalsInv, Proposals!ReviewSeesAll, SeesAll
<1>2. Proposals!ResumeExplains
  BY ShownExplains DEF Proposals!ResumeExplains
<1> QED
  BY <1>1, <1>2

-----------------------------------------------------------------------------
(* Attention                                                              *)

(* Nothing of the one is missing in the other, or changed without notice.  *)
Continues(before, after, changed) ==
    \A n \in DOMAIN before : n \in DOMAIN after /\ (n \in changed \/ after[n] = before[n])

(* A map that was made from another continues it.                          *)
MadeFrom(base, items, changed) ==
    /\ base \in DOMAIN maps \cup {None}
    /\ base # None => Continues(maps[base].items, items, changed)

MapsSound ==
    /\ Series(maps)
    /\ \A m \in DOMAIN maps : MadeFrom(maps[m].base, maps[m].items, maps[m].changed)

(* The pointer is the last activation, and each was of a map made from the *)
(* one before it.                                                          *)
ActivationsSound ==
    /\ Series(activations)
    /\ active = None <=> activations = <<>>
    /\ active # None => activations[Len(activations)].map = active /\ active \in DOMAIN maps
    /\ \A i \in DOMAIN activations : activations[i].map \in DOMAIN maps
    /\ \A i \in DOMAIN activations : i > 1 =>
          maps[activations[i].map].base = activations[i - 1].map

GuidanceJob(a) ==
    /\ actorJob[a].at \in {"idle", "storing", "activating"}
    /\ actorJob[a].at = "storing"
         => MadeFrom(actorJob[a].base, actorJob[a].items, actorJob[a].changed)
    /\ actorJob[a].at = "activating" =>
               actorJob[a].map \in DOMAIN maps /\ maps[actorJob[a].map].config = config

GuidanceInv ==
    /\ config \in Configs /\ approved \subseteq Questions /\ DOMAIN actorJob = Actors
    /\ Series(events)
    /\ MapsSound /\ ActivationsSound
    /\ \A a \in Actors : GuidanceJob(a)
    /\ Guidance!Readable

LEMMA MadeStays ==
    ASSUME NEW base, NEW items, NEW changed, MadeFrom(base, items, changed),
           DOMAIN maps \subseteq DOMAIN maps', \A m \in DOMAIN maps : maps'[m] = maps[m],
           None \notin DOMAIN maps
    PROVE  MadeFrom(base, items, changed)'
BY DEF MadeFrom, Continues

LEMMA GuidanceInit == Guidance!Init => GuidanceInv
<1> SUFFICES ASSUME Guidance!Init PROVE GuidanceInv
  OBVIOUS
<1>1. Series(<<>>) /\ DOMAIN <<>> = {}
  BY <<>> \in Seq({}) DEF Series
<1> QED BY <1>1, ConfigAssumption
   DEF Guidance!Init, GuidanceInv, MapsSound, ActivationsSound, GuidanceJob,
      Guidance!Readable, Guidance!Idle

LEMMA GuidanceStep == ASSUME GuidanceInv, Guidance!Next PROVE GuidanceInv'
<1>1. /\ \A a \in Actors : GuidanceJob(a)
      /\ MapsSound /\ ActivationsSound /\ DOMAIN actorJob = Actors
      /\ Series(maps)
      /\ Series(activations)
  BY DEF GuidanceInv, MapsSound, ActivationsSound
<1>2. DOMAIN maps \subseteq Nat /\ None \notin DOMAIN maps
  BY <1>1, ConfigAssumption, Appended
<1>3. ASSUME NEW a \in Actors, Guidance!Propose(a) PROVE GuidanceInv'
  <2>1. PICK change : /\ actorJob' = [actorJob EXCEPT ![a] =
                           [at |-> "storing", config |-> config, base |-> active,
                            items |-> Guidance!Changed(change), changed |-> {change.number}]]
                      /\ UNCHANGED <<config, approved, events, maps, activations, active>>
    BY <1>3 DEF Guidance!Propose
  <2>2. MadeFrom(active, Guidance!Changed(change), {change.number})
    BY <1>1 DEF MadeFrom, Continues, ActivationsSound, Guidance!Changed, Guidance!Effective
  <2>3. GuidanceJob(a)'
    BY <1>1, <2>1, <2>2 DEF GuidanceJob, MadeFrom
  <2>4. \A b \in Actors : GuidanceJob(b)'
    BY <1>1, <2>1, <2>3 DEF GuidanceJob, MadeFrom
  <2>5. MapsSound' /\ ActivationsSound' /\ Guidance!Readable'
    BY <2>1 DEF GuidanceInv, MapsSound, MadeFrom, ActivationsSound, Guidance!Readable,
       Guidance!Connects, Guidance!Closed,
       Guidance!Successors
  <2> QED BY <1>1, <2>1, <2>4, <2>5 DEF GuidanceInv
<1>4. ASSUME NEW a \in Actors, Guidance!StoreMap(a) PROVE GuidanceInv'
  <2> DEFINE new == [config |-> actorJob[a].config, base |-> actorJob[a].base,
          items |-> actorJob[a].items,
                     changed |-> actorJob[a].changed]
  <2>1. maps' = Append(maps, new) /\ actorJob' = [actorJob EXCEPT ![a] = Guidance!Idle]
        /\ UNCHANGED <<config, approved, events, activations, active>>
    BY <1>4 DEF Guidance!StoreMap
  <2>2. MadeFrom(new.base, new.items, new.changed)
    BY <1>1, <1>4 DEF Guidance!StoreMap, GuidanceJob
  <2> HIDE DEF new
  <2>3. /\ Series(maps')
        /\ DOMAIN maps' = DOMAIN maps \cup {Len(maps) + 1} /\ maps'[Len(maps) + 1] = new
        /\ \A m \in DOMAIN maps : maps'[m] = maps[m]
    BY <1>1, <2>1, Appended
  <2>4. ASSUME NEW base, NEW items, NEW changed, MadeFrom(base, items, changed)
        PROVE  MadeFrom(base, items, changed)'
    <3>1. DOMAIN maps \subseteq DOMAIN maps'
      BY <2>3
    <3> QED BY <1>2, <2>3, <2>4, <3>1, MadeStays
  <2>5. MapsSound'
    <3>1. ASSUME NEW m \in DOMAIN maps',
                 NEW base, NEW items, NEW changed,
                 base = maps'[m].base, items = maps'[m].items, changed = maps'[m].changed
          PROVE  MadeFrom(base, items, changed)'
      <4>1. CASE m \in DOMAIN maps
        <5>1. MadeFrom(base, items, changed)
          <6>1. MadeFrom(maps[m].base, maps[m].items, maps[m].changed)
            BY <1>1, <4>1 DEF MapsSound
          <6>2. base = maps[m].base /\ items = maps[m].items /\ changed = maps[m].changed
            BY <2>3, <3>1, <4>1
          <6> QED BY <6>1, <6>2
        <5> QED BY <2>4, <5>1
      <4>2. CASE m = Len(maps) + 1
        <5>1. base = new.base /\ items = new.items /\ changed = new.changed
          BY <2>3, <3>1, <4>2
        <5>2. MadeFrom(base, items, changed)
          BY <2>2, <5>1
        <5> QED BY <2>4, <5>2
      <4> QED BY <2>3, <3>1, <4>1, <4>2
    <3> QED BY <2>3, <3>1 DEF MapsSound, MadeFrom
  <2>6. ActivationsSound' /\ Guidance!Readable'
    <3>1. ActivationsSound'
      BY <1>1, <2>1, <2>3 DEF ActivationsSound
    <3>2. active # None => active \in DOMAIN maps /\ maps'[active] = maps[active]
      BY <1>1, <2>3 DEF ActivationsSound
    <3> QED BY <2>1, <3>1, <3>2 DEF GuidanceInv, Guidance!Readable, Guidance!Connects,
       Guidance!Closed, Guidance!Successors
  <2>7. ASSUME NEW b \in Actors PROVE GuidanceJob(b)'
    <3>1. CASE b = a
      BY <1>1, <2>1, <3>1 DEF GuidanceJob, Guidance!Idle
    <3>2. CASE b # a
      <4>1. actorJob'[b] = actorJob[b] /\ GuidanceJob(b)
        BY <1>1, <2>1, <3>2
      <4>2. ASSUME NEW base, NEW items, NEW changed, actorJob[b].at = "storing",
                   base = actorJob[b].base, items = actorJob[b].items, changed = actorJob[b].changed
            PROVE  MadeFrom(base, items, changed)'
        BY <2>4, <4>1, <4>2 DEF GuidanceJob
      <4> QED BY <2>1, <2>3, <4>1, <4>2 DEF GuidanceJob, MadeFrom
    <3> QED BY <3>1, <3>2
  <2> QED BY <1>1, <2>1, <2>5, <2>6, <2>7 DEF GuidanceInv
<1>5. ASSUME NEW a \in Actors, Guidance!BeginActivate(a) \/ Guidance!RefuseActivation(a)
      PROVE  GuidanceInv'
  <2>1. UNCHANGED <<config, approved, events, maps, activations, active>>
    BY <1>5 DEF Guidance!BeginActivate, Guidance!RefuseActivation
  <2>2. \A b \in Actors : GuidanceJob(b)'
    BY <1>1, <1>5, <2>1 DEF GuidanceJob, MadeFrom, Guidance!Idle, Guidance!BeginActivate,
       Guidance!RefuseActivation
  <2>3. MapsSound' /\ ActivationsSound' /\ Guidance!Readable' /\ DOMAIN actorJob' = Actors
    BY <1>1, <1>5, <2>1
       DEF GuidanceInv, MapsSound, MadeFrom, ActivationsSound, Guidance!Readable,
          Guidance!Connects, Guidance!Closed,
       Guidance!Successors, Guidance!BeginActivate, Guidance!RefuseActivation
  <2> QED BY <2>1, <2>2, <2>3 DEF GuidanceInv
<1>6. ASSUME NEW a \in Actors, Guidance!Activate(a) PROVE GuidanceInv'
  <2> DEFINE m == actorJob[a].map
             n == Len(activations) + 1
             e == [map |-> m, prior |-> active]
  <2>1. /\ m \in DOMAIN maps /\ maps[m].config = config /\ maps[m].base = active
        /\ activations' = Append(activations, e) /\ active' = m
        /\ actorJob' = [actorJob EXCEPT ![a] = Guidance!Idle]
        /\ UNCHANGED <<config, approved, events, maps>>
    BY <1>1, <1>6 DEF Guidance!Activate, GuidanceJob, Guidance!BaseInForce
  <2>2. /\ Series(activations')
        /\ Len(activations) \in Nat /\ DOMAIN activations = 1..Len(activations)
        /\ Len(activations') = n /\ DOMAIN activations' = DOMAIN activations \cup {n}
        /\ activations'[n] = e /\ n \notin DOMAIN activations
        /\ \A i \in DOMAIN activations : activations'[i] = activations[i]
    <3> HIDE DEF e
    <3>1. activations' = Append(activations, e)
      BY <2>1 DEF e
    <3> QED BY <1>1, <3>1, Appended
  <2>3. activations'[n].map = m /\ m # None
    BY <1>2, <2>1, <2>2
  <2>4. ActivationsSound'
    <3>1. activations' # <<>> /\ active' # None
      BY <2>1, <2>2, <2>3
    <3>2. ASSUME NEW i \in DOMAIN activations', i > 1
          PROVE  maps'[activations'[i].map].base = activations'[i - 1].map
      <4>1. CASE i = n
        <5>1. Len(activations) \in DOMAIN activations /\ i - 1 = Len(activations)
          BY <2>2, <3>2, <4>1
        <5>2. activations # <<>>
          BY <5>1
        <5>3. activations[Len(activations)].map = active
          BY <1>1, <5>2 DEF ActivationsSound
        <5> QED BY <2>1, <2>2, <2>3, <4>1, <5>1, <5>3
      <4>2. CASE i # n
        <5>1. i \in DOMAIN activations /\ i - 1 \in DOMAIN activations
          BY <2>2, <3>2, <4>2
        <5> QED BY <1>1, <2>1, <2>2, <3>2, <5>1 DEF ActivationsSound
      <4> QED BY <4>1, <4>2
    <3>3. \A i \in DOMAIN activations' : activations'[i].map \in DOMAIN maps'
      BY <1>1, <2>1, <2>2, <2>3 DEF ActivationsSound
    <3> QED BY <2>1, <2>2, <2>3, <3>1, <3>2, <3>3 DEF ActivationsSound
  <2>5. MapsSound' /\ Guidance!Readable'
    BY <2>1 DEF GuidanceInv, MapsSound, MadeFrom, Guidance!Readable, Guidance!Connects
  <2>6. \A b \in Actors : GuidanceJob(b)'
    BY <1>1, <2>1 DEF GuidanceJob, MadeFrom, Guidance!Idle
  <2> QED BY <1>1, <2>1, <2>4, <2>5, <2>6 DEF GuidanceInv
<1>7. ASSUME NEW q \in Questions, Guidance!DecideQuestion(q) PROVE GuidanceInv'
  <2>1. \A b \in Actors : GuidanceJob(b)'
    BY <1>1, <1>7 DEF Guidance!DecideQuestion, GuidanceJob, MadeFrom
  <2> QED BY <1>7, <2>1
     DEF Guidance!DecideQuestion, GuidanceInv, MapsSound, MadeFrom, ActivationsSound,
        Guidance!Readable,
         Guidance!Connects, Guidance!Closed, Guidance!Successors
<1>8. ASSUME NEW c \in Configs, Guidance!Advance(c) PROVE GuidanceInv'
  <2>1. /\ UNCHANGED <<approved, maps, activations, active, actorJob>> /\ config' = c
        /\ events' = Append(events, <<config, c>>) /\ \A a \in Actors : actorJob[a] = Guidance!Idle
    BY <1>8 DEF Guidance!Advance
  <2>2. \A b \in Actors : GuidanceJob(b)'
    BY <2>1 DEF GuidanceJob, Guidance!Idle
  <2> DEFINE e == <<config, c>>
             n == Len(events) + 1
  <2>3. e[1] = config /\ e[2] = c
    OBVIOUS
  <2>4. /\ Series(events')
        /\ DOMAIN events' = DOMAIN events \cup {n} /\ events'[n] = e
        /\ \A i \in DOMAIN events : events'[i] = events[i]
    <3>1. Series(events)
      BY DEF GuidanceInv
    <3> HIDE DEF e
    <3>2. events' = Append(events, e)
      BY <2>1 DEF e
    <3> QED BY <3>1, <3>2, Appended
  <2>5. PICK old : old = config
    OBVIOUS
  <2>6. c \in Guidance!Successors(old)'
    BY <2>3, <2>4, <2>5 DEF Guidance!Successors
  <2>10. \A d : Guidance!Successors(d) \subseteq Guidance!Successors(d)'
    BY <2>4 DEF Guidance!Successors
  <2>7. ASSUME active # None, NEW S \in SUBSET Configs, maps[active].config \in S,
               Guidance!Closed(S)'
        PROVE  c \in S
    <3>1. Guidance!Closed(S)
      BY <2>7, <2>10 DEF Guidance!Closed
    <3>2. old \in S
      BY <2>5, <2>7, <3>1 DEF GuidanceInv, Guidance!Readable, Guidance!Connects
    <3> QED BY <2>6, <2>7, <3>2 DEF Guidance!Closed
  <2>8. Guidance!Readable'
    BY <2>1, <2>7 DEF Guidance!Readable, Guidance!Connects
  <2>9. MapsSound' /\ ActivationsSound'
    BY <1>1, <2>1 DEF MapsSound, MadeFrom, ActivationsSound
  <2> QED BY <1>8, <2>1, <2>2, <2>4, <2>8, <2>9 DEF GuidanceInv
<1> QED BY <1>3, <1>4, <1>5, <1>6, <1>7, <1>8 DEF Guidance!Next

LEMMA GuidanceStands == ASSUME GuidanceInv, UNCHANGED Guidance!vars PROVE GuidanceInv'
BY DEF Guidance!vars, GuidanceInv, MapsSound, MadeFrom, ActivationsSound, GuidanceJob,
   Guidance!Readable, Guidance!Connects,
   Guidance!Closed, Guidance!Successors

LEMMA GuidanceRight ==
    GuidanceInv =>
        Guidance!TypeOK /\ Guidance!NothingForgotten /\ Guidance!AttentionStays
<1> SUFFICES ASSUME GuidanceInv
             PROVE  Guidance!TypeOK /\ Guidance!NothingForgotten /\ Guidance!AttentionStays
  OBVIOUS
<1>1. MapsSound /\ ActivationsSound
  BY DEF GuidanceInv
<1>2. Guidance!TypeOK
  BY <1>1 DEF GuidanceInv, Guidance!TypeOK, ActivationsSound
<1>3. Guidance!AttentionStays
  <2>1. ASSUME active # None PROVE Len(activations) \in DOMAIN activations
    BY <1>1, <2>1 DEF ActivationsSound
  <2> QED BY <1>1, <2>1 DEF GuidanceInv, Guidance!AttentionStays, Guidance!PointerBacked,
     Guidance!ActivationsOf,
     ActivationsSound
<1>4. Guidance!NothingForgotten
  <2> SUFFICES ASSUME NEW i \in DOMAIN activations, i > 1
               PROVE  Continues(maps[activations[i - 1].map].items, maps[activations[i].map].items,
                                maps[activations[i].map].changed)
    BY DEF Guidance!NothingForgotten, Continues
  <2>1. i - 1 \in DOMAIN activations
    BY <1>1 DEF ActivationsSound
  <2>2. /\ activations[i].map \in DOMAIN maps /\ activations[i - 1].map \in DOMAIN maps
        /\ maps[activations[i].map].base = activations[i - 1].map
    BY <1>1, <2>1 DEF ActivationsSound
  <2>3. DOMAIN maps \subseteq Nat
    BY <1>1, Appended DEF MapsSound
  <2>4. activations[i - 1].map # None
    BY <2>2, <2>3, ConfigAssumption
  <2> QED BY <1>1, <2>2, <2>4 DEF MapsSound, MadeFrom
<1> QED BY <1>2, <1>3, <1>4

-----------------------------------------------------------------------------
(* What is proved of the registries together.                              *)

RegistriesInv == RunnerInv /\ RecordsInv /\ ProposalsInv /\ GuidanceInv

LEMMA RegistriesInit == Init => RegistriesInv
BY RunnerInit, RecordsInit, ProposalsInit, GuidanceInit DEF Init, RegistriesInv

LEMMA RegistriesStep == ASSUME RegistriesInv, [Next]_vars PROVE RegistriesInv'
<1>1. RunnerInv'
  <2>1. Runner!Next \/ UNCHANGED <<head, runs, datasets, results, replies, job>>
    BY DEF Next, vars, runnerVars
  <2> QED BY <2>1, RunnerStep, RunnerStands DEF RegistriesInv
<1>2. RecordsInv'
  <2>1. Records!Next \/ UNCHANGED Records!vars
    BY DEF Next, vars, recordVars, Records!vars
  <2> QED BY <2>1, RecordsStep, RecordsStand DEF RegistriesInv
<1>3. ProposalsInv'
  <2>1. Proposals!Next \/ UNCHANGED <<snapshots, candidates, decisions, requests, readerJob>>
    BY DEF Next, vars, proposalVars
  <2> QED BY <2>1, ProposalsStep, ProposalsStand DEF RegistriesInv
<1>4. GuidanceInv'
  <2>1. Guidance!Next \/ UNCHANGED Guidance!vars
    BY DEF Next, vars, guidanceVars, Guidance!vars
  <2> QED BY <2>1, GuidanceStep, GuidanceStands DEF RegistriesInv
<1> QED BY <1>1, <1>2, <1>3, <1>4 DEF RegistriesInv

LEMMA RegistriesSound == Spec => []RegistriesInv
<1>1. RegistriesInv /\ [Next]_vars => RegistriesInv'
  BY RegistriesStep
<1> QED BY <1>1, RegistriesInit, PTL DEF Spec

(* Whatever the generator answers, repairs and retries, however the State  *)
(* moves meanwhile, and whatever others register for a Run or analyse      *)
(* beside it: a Run that is reported executed while the State stood still, *)
(* readiness rests on completed Runs of one freeze, a success has its own  *)
(* responses and the analysis that was asked for, every response of a Run  *)
(* is joined to the one attempt it came of, and no profile costs more than *)
(* (Retries + 1) * (Repairs + 1) requests (virtual_runner_execute.py).     *)
THEOREM CallersToldTheTruth == Spec => []ToldTheTruth
<1>1. RegistriesInv => ToldTheTruth
  BY RunnerRight DEF RegistriesInv, ToldTheTruth
<1> QED BY <1>1, RegistriesSound, PTL

(* Pages read while records are added show each record that was there when *)
(* the listing began, once, whatever the length of a page, equal times and *)
(* identities that sort anyhow (project_inputs.py, research_exhibits.py).  *)
THEOREM ListingsComplete == Spec => []ListingComplete
<1>1. RegistriesInv => ListingComplete
  BY RecordsRight DEF RegistriesInv, ListingComplete
<1> QED BY <1>1, RegistriesSound, PTL

(* Candidates made against one Snapshot are decided on in any order, and   *)
(* yet each Snapshot follows from the one before it: nothing is lost,      *)
(* closed things stay, and an input or an exhibit names the Snapshot that  *)
(* is current as it is stored.                                             *)
THEOREM SnapshotsFollow == Spec => RevisionsFollow
<1>1. RegistriesInv /\ [Next]_vars
      => [/\ registry = "proposals" => Proposals!RevisionsFollow
          /\ registry = "records" => Records!BoundToHead]_<<proposalVars, recordVars>>
  <2> SUFFICES ASSUME RegistriesInv, [Next]_vars
               PROVE  \/ /\ registry = "proposals" => Proposals!RevisionsFollow
                         /\ registry = "records" => Records!BoundToHead
                      \/ UNCHANGED <<proposalVars, recordVars>>
    OBVIOUS
  <2>1. \/ registry = "proposals" /\ Proposals!Next
        \/ registry = "records" /\ Records!Next
        \/ UNCHANGED <<proposalVars, recordVars>>
    BY DEF Next, vars
  <2> QED BY <2>1, ProposalsFollow, RecordsBound DEF RegistriesInv
<1> QED BY <1>1, RegistriesSound, PTL DEF Spec, RevisionsFollow

(* Whatever was registered since a review was made, it names everything in *)
(* the State that rests on the Question it changes.                        *)
THEOREM ReviewsSeeAll == Spec => []ReviewSeesAll
<1>1. RegistriesInv => ReviewSeesAll
  BY ProposalsRight DEF RegistriesInv, ReviewSeesAll
<1> QED BY <1>1, RegistriesSound, PTL

(* A resume is read in several steps while candidates are made, requested  *)
(* and committed, and each of its lists is cut at a limit.  Whatever the   *)
(* limits are, what it says is in force it explains by the candidate and   *)
(* the request it shows, or it says that there are more than it shows      *)
(* (resume.py, question_review_resume.py, synthesis_candidate_facade.py).  *)
THEOREM ResumesExplain == Spec => []ResumeExplains
<1>1. RegistriesInv => ResumeExplains
  BY ProposalsRight DEF RegistriesInv, ResumeExplains
<1> QED BY <1>1, RegistriesSound, PTL

(* However maps are made, activated and carried over while the Profile     *)
(* advances, each activation follows from the last and loses no issue.     *)
THEOREM IssuesKept == Spec => []NothingForgotten
<1>1. RegistriesInv => NothingForgotten
  BY GuidanceRight DEF RegistriesInv, NothingForgotten
<1> QED BY <1>1, RegistriesSound, PTL
=============================================================================
