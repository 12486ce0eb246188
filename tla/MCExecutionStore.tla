-------------------------- MODULE MCExecutionStore --------------------------
(***************************************************************************)
(* Values for the execution store.                                         *)
(***************************************************************************)
EXTENDS ExecutionStore

(* Rival results of an external Run, and one of its managed retry under an *)
(* identity the first Run may have used; the adapter may return any.       *)
Handoff(id, run, fits, verdict) ==
    [id |-> id, run |-> run, fits |-> fits, verdict |-> verdict]

RivalResults ==
    {Handoff("a", "r1", TRUE, "valid"),
     Handoff("b", "r1", TRUE, "partial"),
     Handoff("a", "r2", TRUE, "rejected")}

MCRuns == {"r1", "r2"}
MCManaged == {"r2"}
MCParent == [r1 |-> NoRun, r2 |-> "r1"]

(* A capture that two processes may make; batches and inputs share         *)
(* contents and identities, and one fills the same role; an adapter puts   *)
(* an output with the bytes of the capture's original and the identity of  *)
(* a batch's.                                                              *)
Item(id, role, content) == [id |-> id, role |-> role, content |-> content]

CaptureOf(run, original, text) ==
    [op |-> "capture", run |-> run,
     items |-> {Item(original, "original", original), Item(text, "text", text)}]

Batch(run, items) == [op |-> "batch", run |-> run, items |-> items]
Input(run, id, content) == [op |-> "input", run |-> run, items |-> {Item(id, "input", content)}]
Put(run, id, content) == [op |-> "put", run |-> run, items |-> {Item(id, "output", content)}]
Event(run) == [op |-> "event", run |-> run, items |-> {}]

SharedContents ==
    {CaptureOf("r1", "o1", "t1"),
     Batch("r1", {Item("a1", "raw", "c1"), Item("a2", "text", "c2")}),
     Batch("r2", {Item("a1", "raw", "c2")}),
     Input("r1", "i1", "c2"), Put("r1", "a1", "o1"), Event("r1")}

ASSUME /\ Execution!RunAssumption /\ Execution!HandoffAssumption /\ Execution!CrashAssumption
       /\ Store!JobAssumption /\ Store!BoundAssumption
===============================================================================
