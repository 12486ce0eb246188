-------------------------- MODULE ResearchProposals --------------------------
(***************************************************************************)
(* How Research Questions, arguments, recommendations and the verification *)
(* of evidence come about: an action writes a candidate bound to the       *)
(* current Snapshot, a person decides on it, and it becomes part of the    *)
(* State only while that Snapshot is current.  The resume that a person    *)
(* works from is put together from several reads of the State and of the   *)
(* stores around it, while others go on.                                   *)
(***************************************************************************)
EXTENDS Naturals, Sequences, FiniteSets

CONSTANTS
    Readers,
    None,
    QuestionLimit,  \* Questions that a resume shows
    CandidateLimit, \* candidates for Questions that it shows
    RequestLimit,   \* requests for Decisions that it reads
    SynthesisLimit, \* saved arguments and recommendations that it shows
    MaxCandidates,  \* bound on the candidates
    MaxRivals,      \* bound on those made against one Snapshot
    MaxResumes      \* bound on the resumes that are read

VARIABLES
    snapshots,      \* the Snapshots in order: each its objects by number
    candidates,     \* the candidates in order: [maker, bound, writes]
    decisions,      \* what was decided on each: "none", "pending" or "committed"
    requests,       \* the candidates a Decision was requested on, in that order
    resumes,        \* the resumes begun so far
    job             \* what each reader has read

vars == <<snapshots, candidates, decisions, requests, resumes, job>>

Idle == [at |-> "idle"]

head == Len(snapshots)
Objects == snapshots[head]

(* An object: what it is, its revision and status, what it links to, what  *)
(* a review says needs a review after it, and the candidate that wrote it. *)
Object(kind, links, k) ==
    [kind |-> kind, revision |-> 0, status |-> "approved", links |-> links,
     flagged |-> {}, by |-> k]

OfKind(objects, kind) == {n \in DOMAIN objects : objects[n].kind = kind}

Approved(kind) == {n \in OfKind(Objects, kind) : Objects[n].status = "approved"}

-----------------------------------------------------------------------------
(* Candidates.  Every identity in one is new.                              *)

Used == DOMAIN snapshots[1] \cup UNION {DOMAIN candidates[k].writes : k \in DOMAIN candidates}

(* The next n identities.                                                  *)
New(n) == (Cardinality(Used) + 1) .. (Cardinality(Used) + n)

NextCandidate == Len(candidates) + 1

Store(maker, writes) ==
    /\ Len(candidates) < MaxCandidates
    /\ Cardinality({k \in DOMAIN candidates : candidates[k].bound = head}) < MaxRivals
    /\ candidates' = Append(candidates, [maker |-> maker, bound |-> head, writes |-> writes])
    /\ decisions' = Append(decisions, "none")
    /\ UNCHANGED <<snapshots, requests, resumes, job>>

(* The links of a new object are taken one or none of a kind.              *)
AtMostOne(S) == {{}} \cup {{n} : n \in S}

(* A Question may have a parent, which is approved.                        *)
Propose ==
    \E parents \in AtMostOne(Approved("question")) :
        Store("propose", [n \in New(1) |-> Object("question", parents, NextCandidate)])

(* Several Questions, all of them or none.                                 *)
ProposeMany ==
    \E parents \in AtMostOne(Approved("question")) :
        Store("propose_many",
              [n \in New(2) |-> Object("question", parents, NextCandidate)])

(* An argument rests on Questions and on findings or evidence, a           *)
(* recommendation on findings; what it rests on is approved.               *)
Grounds == OfKind(Objects, "evidence") \cup Approved("finding")

ProposeArgument ==
    \E questions \in AtMostOne(Approved("question")), ground \in Grounds :
        Store("argument",
              [n \in New(1) |-> Object("argument", questions \cup {ground}, NextCandidate)])

ProposeRecommendation ==
    \E finding \in Approved("finding") :
        Store("recommendation",
              [n \in New(1) |-> Object("recommendation", {finding}, NextCandidate)])

(* Evidence is verified once; a call for evidence that is already verified *)
(* changes nothing.                                                        *)
Qualify ==
    \E e \in OfKind(Objects, "evidence") :
        /\ Objects[e].status = "unverified"
        /\ Store("qualify", [n \in {e} |->
                [Objects[e] EXCEPT !.revision = @ + 1, !.status = "verified",
                                   !.by = NextCandidate]])

-----------------------------------------------------------------------------
(* Reviews of Questions.  KEEP leaves no candidate; the others revise the  *)
(* Questions they are of, and may create some.                             *)

(* Seeded fault: only Questions are looked at.                             *)
DownstreamQuestions(sources) ==
    {n \in OfKind(Objects, "question") \ sources : Objects[n].links \cap sources # {}}

(* What links to the reviewed Questions, other than they themselves.       *)
Downstream(sources) ==
    {n \in DOMAIN Objects \ (OfKind(Objects, "question") \cap sources) :
        Objects[n].links \cap sources # {}}

Revised(q, status, sources) ==
    [Objects[q] EXCEPT !.revision = @ + 1, !.status = status,
                       !.flagged = Downstream(sources), !.by = NextCandidate]

Created(sources) ==
    [Object("question", {}, NextCandidate) EXCEPT !.flagged = Downstream(sources)]

Review(status, sources, created) ==
    [n \in sources \cup created |->
        IF n \in sources THEN Revised(n, status, sources) ELSE Created(sources)]

Refine ==
    \E q \in Approved("question") : Store("REFINE", Review("approved", {q}, {}))

Close ==
    \E q \in Approved("question") : Store("CLOSE", Review("closed", {q}, {}))

Split ==
    \E q \in Approved("question") : Store("SPLIT", Review("closed", {q}, New(2)))

Merge ==
    \E sources \in SUBSET Approved("question") :
        /\ Cardinality(sources) >= 2
        /\ Store("MERGE", Review("closed", sources, New(1)))

-----------------------------------------------------------------------------
(* Decisions.                                                              *)

(* Seeded fault: a candidate is applied whatever Snapshot it was made against.   *)
Unbound(k) == TRUE

BoundToHead(k) == candidates[k].bound = head

RequestDecision ==
    \E k \in DOMAIN candidates :
        /\ decisions[k] = "none"
        /\ BoundToHead(k)
        /\ decisions' = [decisions EXCEPT ![k] = "pending"]
        /\ requests' = Append(requests, k)
        /\ UNCHANGED <<snapshots, candidates, resumes, job>>

Over(writes, objects) ==
    [n \in DOMAIN writes \cup DOMAIN objects |->
        IF n \in DOMAIN writes THEN writes[n] ELSE objects[n]]

(* The person accepts, and a new Snapshot is committed.                    *)
Commit ==
    \E k \in DOMAIN candidates :
        /\ decisions[k] = "pending"
        /\ BoundToHead(k)
        /\ snapshots' = Append(snapshots, Over(candidates[k].writes, Objects))
        /\ decisions' = [decisions EXCEPT ![k] = "committed"]
        /\ UNCHANGED <<candidates, requests, resumes, job>>

-----------------------------------------------------------------------------
(* The resume.  What a job holds is the Snapshots read, how many           *)
(* candidates and how many requests there were when these were read.       *)

(* The newest of what is listed, by its number.                            *)
Newest(S, limit) == {k \in S : Cardinality({m \in S : m > k}) < limit}

(* The candidates on which the newest of the first n requests are.         *)
Requested(n) == {requests[i] : i \in Newest(1..n, RequestLimit)}

ReadStatus(r) ==
    /\ job[r] = Idle /\ resumes < MaxResumes
    /\ resumes' = resumes + 1
    /\ job' = [job EXCEPT ![r] = [at |-> "status", snapshot |-> head]]
    /\ UNCHANGED <<snapshots, candidates, decisions, requests>>

(* Seeded fault: the State read next need not be the one the status showed.*)
Unchecked(r) == TRUE

StatusBinds(r) == job[r].snapshot = head

ReadState(r) ==
    /\ job[r].at = "status"
    /\ StatusBinds(r)
    /\ job' = [job EXCEPT ![r] = [at |-> "state", snapshot |-> @.snapshot, state |-> head]]
    /\ UNCHANGED <<snapshots, candidates, decisions, requests, resumes>>

RefuseState(r) ==
    /\ job[r].at = "status"
    /\ ~StatusBinds(r)
    /\ job' = [job EXCEPT ![r] = Idle]
    /\ UNCHANGED <<snapshots, candidates, decisions, requests, resumes>>

(* Candidates first, then decision requests; both only grow.               *)
ReadLists(r) ==
    /\ job[r].at = "state"
    /\ job' = [job EXCEPT ![r] =
            [at |-> "lists", snapshot |-> @.snapshot, state |-> @.state,
             candidates |-> Len(candidates), requests |-> Len(requests)]]
    /\ UNCHANGED <<snapshots, candidates, decisions, requests, resumes>>

(* A candidate is shown when its actions are what its maker makes; the     *)
(* resume fails on one that is not.                                        *)
Reviews == {"REFINE", "CLOSE", "SPLIT", "MERGE"}

Revises(k) == DOMAIN candidates[k].writes \cap DOMAIN snapshots[candidates[k].bound]
Creates(k) == DOMAIN candidates[k].writes \ Revises(k)

ReviewShape(k) ==
    LET c == candidates[k]
        revised == Cardinality(Revises(k))
        created == Cardinality(Creates(k))
    IN /\ \/ c.maker \in {"REFINE", "CLOSE"} /\ revised = 1 /\ created = 0
          \/ c.maker = "SPLIT" /\ revised = 1 /\ created >= 2
          \/ c.maker = "MERGE" /\ revised >= 2 /\ created = 1
       /\ \A n \in DOMAIN c.writes : c.writes[n].kind = "question"
       /\ \A n \in Revises(k) :
             c.writes[n].revision = snapshots[c.bound][n].revision + 1
       /\ \A n \in Creates(k) : c.writes[n].revision = 0

ProposalShape(k) ==
    /\ Revises(k) = {}
    /\ \/ candidates[k].maker = "propose" /\ Cardinality(Creates(k)) = 1
       \/ candidates[k].maker = "propose_many" /\ Cardinality(Creates(k)) >= 2

SynthesisShape(k) ==
    LET c == candidates[k]
    IN /\ c.maker \in {"argument", "recommendation"}
       /\ \E n \in Creates(k) : DOMAIN c.writes = {n} /\ c.writes[n].kind = c.maker

(* Of the first candidates, the newest of each sort.                       *)
Proposals(n) == {k \in 1..n : ProposalShape(k)}
QuestionReviews(n) == {k \in 1..n : candidates[k].maker \in Reviews /\ ReviewShape(k)}
Syntheses(n) == {k \in 1..n : SynthesisShape(k)}

Read(n, reviewed) ==
    Newest(Proposals(n), CandidateLimit) \cup Newest(QuestionReviews(reviewed), CandidateLimit)

Cuts(S) ==
    IF Cardinality(S) <= CandidateLimit THEN {S}
    ELSE {T \in SUBSET S : Cardinality(T) = CandidateLimit}

(* The review of Questions reads the State again, rewrites the revision of *)
(* every Question shown, and adds its own candidates; of all of them the   *)
(* limit is kept, by when their actions were proposed, which need not be   *)
(* the order they were carried out in.  The projections of the candidates  *)
(* read the State once more, which is left out here.                       *)
ReadReviews(r) ==
    /\ job[r].at = "lists"
    /\ \E kept \in Cuts(Read(job[r].candidates, Len(candidates))) :
          job' = [job EXCEPT ![r] =
            [at |-> "shown", snapshot |-> @.snapshot, state |-> @.state, review |-> head,
             candidates |-> @.candidates, reviewed |-> Len(candidates), kept |-> kept,
             requests |-> @.requests, later |-> Len(requests)]]
    /\ UNCHANGED <<snapshots, candidates, decisions, requests, resumes>>

Leave(r) ==
    /\ job[r].at = "shown"
    /\ job' = [job EXCEPT ![r] = Idle]
    /\ UNCHANGED <<snapshots, candidates, decisions, requests, resumes>>

(* The Questions shown, the first by their identities: all but the         *)
(* revision are of the first State.                                        *)
ShownQuestions(j) ==
    LET first == snapshots[j.state]
        later == snapshots[j.review]
        questions == OfKind(first, "question")
    IN [q \in {n \in questions : Cardinality({m \in questions : m < n}) < QuestionLimit} |->
            [first[q] EXCEPT !.revision = later[q].revision]]

(* A candidate beside what is in force.                                    *)
Projection(k, s) ==
    [current |-> candidates[k].bound = s,
     subjects |-> [n \in DOMAIN candidates[k].writes |->
                     [now |-> IF n \in DOMAIN snapshots[s] THEN snapshots[s][n] ELSE None,
                      then |-> candidates[k].writes[n]]]]

(* The saved candidates for arguments and recommendations, the newest of   *)
(* them.                                                                   *)
ShownSynthesis(j) ==
    [k \in Newest(Syntheses(j.reviewed), SynthesisLimit) |-> Projection(k, j.review)]

(* The candidates shown with Questions: whether each is said to be bound   *)
(* to the current Snapshot, whether a request for a Decision is shown with *)
(* it, and how many requests there were when the newest were read.         *)
ShownCandidates(j) ==
    LET reviews == QuestionReviews(j.reviewed)
        Asked(k) == IF k \in reviews THEN j.later ELSE j.requests
        Bound(k) == IF k \in reviews THEN j.review ELSE j.state
    IN [k \in j.kept |->
            [current |-> candidates[k].bound = Bound(k), asked |-> Asked(k),
             decided |-> k \in Requested(Asked(k))]]

(* Whether the resume says that there are more than it shows.              *)
Truncated(j) ==
    \/ Cardinality(Proposals(j.candidates)) > CandidateLimit
    \/ Cardinality(QuestionReviews(j.reviewed)) > CandidateLimit
    \/ Cardinality(Read(j.candidates, j.reviewed)) > CandidateLimit

SynthesisTruncated(j) == Cardinality(Syntheses(j.reviewed)) > SynthesisLimit

-----------------------------------------------------------------------------
Init ==
    /\ snapshots = <<[n \in {1, 2} |->
            IF n = 1 THEN [Object("evidence", {}, 0) EXCEPT !.status = "unverified"]
            ELSE Object("finding", {}, 0)]>>
    /\ candidates = <<>> /\ decisions = <<>> /\ requests = <<>>
    /\ resumes = 0
    /\ job = [r \in Readers |-> Idle]

Next ==
    \/ Propose \/ ProposeMany \/ ProposeArgument \/ ProposeRecommendation \/ Qualify
    \/ Refine \/ Close \/ Split \/ Merge
    \/ RequestDecision \/ Commit
    \/ \E r \in Readers :
          \/ ReadStatus(r) \/ ReadState(r) \/ RefuseState(r) \/ ReadLists(r)
          \/ ReadReviews(r) \/ Leave(r)

Spec == Init /\ [][Next]_vars

-----------------------------------------------------------------------------
(* From one Snapshot to the next no object is lost, one that changed went  *)
(* on by one revision from a state that allows it, and a new one rests on  *)
(* what is in force in that very Snapshot.                                 *)
RevisionsFollow ==
    head' # head =>
        LET old == snapshots[head]
            new == snapshots'[head']
        IN /\ DOMAIN old \subseteq DOMAIN new
           /\ \A n \in DOMAIN old :
                 \/ new[n] = old[n]
                 \/ /\ new[n].revision = old[n].revision + 1
                    /\ old[n].status \notin {"closed", "verified"}
           /\ \A n \in DOMAIN new \ DOMAIN old, m \in UNION {new[n].links : n \in DOMAIN new \ DOMAIN old} :
                 m \in DOMAIN new /\ new[m].status # "closed"

(* A review of a Question names everything in its Snapshot that rests on   *)
(* the Question as it was.                                                 *)
ReviewSeesAll ==
    \A s \in 2..head :
        LET old == snapshots[s - 1]
            new == snapshots[s]
        IN \A q \in OfKind(old, "question") :
              new[q] # old[q] =>
                 {n \in DOMAIN new : q \in new[n].links /\ new[n] = old[n]} \subseteq new[q].flagged

(* What a resume shows as in force comes from the Snapshot it names, and   *)
(* is explained by what it shows beside it: by the candidate that made it, *)
(* unless the resume says that it has left some out; and by the request    *)
(* for the Decision, unless there were more of these than a resume reads   *)
(* (of which it need not say so: it counts them before the reviews).       *)
ResumeExplains ==
    \A r \in Readers :
        job[r].at = "shown" =>
            LET j == job[r]
                shown == ShownCandidates(j)
                saved == ShownSynthesis(j)
                state == snapshots[j.state]
            IN /\ j.state = j.snapshot
               /\ \A q \in OfKind(state, "question") :
                    LET k == state[q].by
                    IN IF k \in DOMAIN shown
                       THEN shown[k].decided \/ shown[k].asked > RequestLimit
                       ELSE Truncated(j)
               /\ \A n \in OfKind(state, "argument") \cup OfKind(state, "recommendation") :
                    LET k == state[n].by
                    IN IF k \in DOMAIN saved THEN saved[k].subjects[n].then = state[n]
                       ELSE SynthesisTruncated(j)

(* A resume is about one Snapshot: the revisions it shows are those of the *)
(* Snapshot it names, and a candidate is said to be bound to the current   *)
(* Snapshot exactly when it is bound to that one.                          *)
ResumeOneState ==
    \A r \in Readers :
        job[r].at = "shown" =>
            LET j == job[r]
                shown == ShownCandidates(j)
            IN /\ \A q \in DOMAIN ShownQuestions(j) :
                    ShownQuestions(j)[q] = snapshots[j.snapshot][q]
               /\ \A k \in DOMAIN shown :
                    shown[k].current <=> candidates[k].bound = j.snapshot
=============================================================================
