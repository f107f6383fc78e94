------------------------- MODULE InferServiceProofs --------------------------
(***************************************************************************)
(* Theorems about what clients are told, for any number of submissions,    *)
(* cancelers and operations that share an id.                              *)
(***************************************************************************)
EXTENDS InferService, FiniteSetTheorems, TLAPS

\* A submission has an id once it is past generateOperationId.
Naming ==
    \A t \in Tasks : id[t] = NoId <=> submit_pc[t] \in {"new", "unavailable", "resolved"}

\* Clients know the operations they were answered 202 for, and cancel those;
\* where cancelTask has returned true, somebody has asked for it.
Reach ==
    /\ \A i \in known : \E t \in Tasks : id[t] = i /\ submit_pc[t] = "accepted"
    /\ \A i \in Ids : told[i] # {} => i \in known
    /\ \A c \in Cancelers :
          /\ cancel_pc[c] # "idle" => cancel_id[c] \in known
          /\ cancel_pc[c] \in {"revoke", "finalize"} =>
                cancel_task[c] \in Tasks /\ id[cancel_task[c]] = cancel_id[c]
          /\ cancel_pc[c] = "reread" => \E t \in Tasks : id[t] = cancel_id[c] /\ asked[t]

\* The scheduler has a task exactly when submitTask has answered true.
Fates ==
    \A t \in Tasks :
        /\ fate[t] = "outside" <=> submit_pc[t] \notin {"admitted", "accepted"}
        /\ fate[t] = "revoked" => asked[t]

(***************************************************************************)
(* Of an operation that shares its id with no other: it has no outcome     *)
(* while its task has a way to one, and the outcome a client has read is   *)
(* the only one that may still be read.                                    *)
(***************************************************************************)
Settled(t) ==
    LET op == operations[id[t]]
    IN  /\ submit_pc[t] = "refused" => op = Op("FAILURE", "none")
        /\ submit_pc[t] = "added" \/ fate[t] \in {"waiting", "running", "revoked"} =>
              op.state \notin Finished
        /\ OutcomesTold(id[t]) # {} =>
              /\ fate[t] = "over" /\ op.state \notin {"PENDING", "ONGOING"}
              /\ \E o : OutcomesTold(id[t]) = {o} /\ Outcomes(op) \subseteq {o}

OutcomeInv == \A t \in Tasks : Unshared(t) => Settled(t)

IInv == TypeOK /\ Naming /\ Reach /\ Fates /\ CanceledOnRequest /\ OutcomeInv

LEMMA InitIInv == Init => IInv
<1> SUFFICES ASSUME Init PROVE IInv  OBVIOUS
<1> USE DEF Init, Lifecycle!Init
<1>1. operations = [i \in Ids |-> Absent]  OBVIOUS
<1>2. TypeOK
  BY DEF TypeOK, Lifecycle!Fate
<1>4. Naming  BY DEF Naming
<1>5. Reach /\ Fates  BY DEF Reach, Fates
<1>6. CanceledOnRequest  BY DEF CanceledOnRequest, Absent
<1>7. OutcomeInv  BY DEF OutcomeInv, Unshared
<1> QED  BY <1>2, <1>4, <1>5, <1>6, <1>7 DEF IInv

-----------------------------------------------------------------------------
LEMMA WriteEffect ==
    ASSUME TypeOK, NEW t \in Tasks, id[t] # NoId,
           NEW state \in OperationState, NEW message \in Message,
           Lifecycle!Write(t, Lifecycle!Op(state, message))
    PROVE  /\ operations' \in [Ids -> OperationInfo \cup {Absent}]
           /\ operations'[id[t]] = Op(state, message)
           /\ \A i \in Ids : i # id[t] => operations'[i] = operations[i]
<1>1. operations \in [Ids -> OperationInfo \cup {Absent}] /\ id[t] \in Ids  BY DEF TypeOK
<1>2. operations' = [operations EXCEPT ![id[t]] = Op(state, message)]
  BY DEF Lifecycle!Write, Lifecycle!Op, Op
<1>3. Op(state, message) \in OperationInfo  BY DEF Op, OperationInfo
<1> QED  BY <1>1, <1>2, <1>3

LEMMA StatesAndMessages ==
    /\ {"PENDING", "FAILURE", "CANCELED", "CANCEL_REQUESTED", "ONGOING", "SUCCESS"} = OperationState
    /\ {"none", "before", "during"} = Message
BY DEF OperationState, Message

LEMMA OutcomesOf ==
    ASSUME NEW op
    PROVE  /\ op.state \notin Finished => Outcomes(op) = {}
           /\ \E o : Outcomes(op) \subseteq {o}
           /\ "canceled" \in Outcomes(op) => op.state = "CANCELED"
           /\ Outcomes(op) \subseteq {"result", "canceled", "failed"}
BY DEF Outcomes, Finished

(***************************************************************************)
(* Of an operation that is not written, nothing changes as long as its     *)
(* submission stands still and its task does not come back.                *)
(***************************************************************************)
LEMMA Frame ==
    ASSUME NEW t \in Tasks, Settled(t), operations'[id'[t]] = operations[id[t]],
           OutcomesTold(id[t])' = OutcomesTold(id[t]), submit_pc'[t] = submit_pc[t],
           \/ fate'[t] = fate[t] \/ fate'[t] = "over"
           \/ fate[t] = "waiting" /\ fate'[t] \in {"running", "revoked"}
    PROVE  Settled(t)'
BY DEF Settled, Outcomes

\* Where nothing is said, nothing more has been told.
LEMMA ToldFrame ==
    ASSUME told' = told
    PROVE  \A i : OutcomesTold(i)' = OutcomesTold(i)
BY DEF OutcomesTold

(***************************************************************************)
(* A step of one task, seen from the operations of the others.             *)
(***************************************************************************)
LEMMA OutcomeFrame ==
    ASSUME TypeOK, OutcomeInv, NEW v \in Tasks, id' = id, told' = told,
           \A i \in Ids : i # id[v] => operations'[i] = operations[i],
           \A t \in Tasks \ {v} : submit_pc'[t] = submit_pc[t],
           \A t \in Tasks \ {v} : fate'[t] = fate[t] \/ (fate[t] = "waiting" /\ fate'[t] = "over"),
           Unshared(v) /\ Settled(v) => Settled(v)'
    PROVE  OutcomeInv'
<1> SUFFICES ASSUME NEW t \in Tasks, Unshared(t)'  PROVE Settled(t)'
  BY DEF OutcomeInv
<1>1. Unshared(t) /\ Settled(t)  BY DEF Unshared, OutcomeInv
<1>2. CASE t = v  BY <1>1, <1>2
<1>3. CASE t # v
  <2>1. id[v] # id[t] /\ id[t] \in Ids  BY <1>1, <1>3 DEF Unshared, TypeOK
  <2>2. operations'[id[t]] = operations[id[t]] /\ submit_pc'[t] = submit_pc[t]
        /\ (fate'[t] = fate[t] \/ (fate[t] = "waiting" /\ fate'[t] = "over"))
    BY <1>3, <2>1
  <2>3. OutcomesTold(id[t])' = OutcomesTold(id[t])  BY DEF OutcomesTold
  <2> QED  BY <1>1, <2>2, <2>3, Frame
<1> QED  BY <1>2, <1>3

LEMMA CanceledFrame ==
    ASSUME CanceledOnRequest, TypeOK, NEW v \in Tasks, id' = id, told' = told,
           \A i \in Ids : i # id[v] => operations'[i] = operations[i],
           \A t \in Tasks : asked[t] => asked'[t],
           \/ asked'[v]
           \/ operations'[id[v]] = operations[id[v]]
           \/ operations'[id[v]].state \notin {"CANCELED", "CANCEL_REQUESTED"}
    PROVE  CanceledOnRequest'
<1> DEFINE Heard(i) == told[i] \cap {"canceled", "presumed"} # {}
<1> SUFFICES ASSUME NEW i \in Ids,
                    Heard(i) \/ operations'[i].state \in {"CANCELED", "CANCEL_REQUESTED"}
             PROVE  \E t \in Tasks : id[t] = i /\ asked'[t]
  BY DEF CanceledOnRequest
<1>1. CASE Heard(i) \/ operations'[i] = operations[i]
  BY <1>1 DEF CanceledOnRequest
<1>2. CASE operations'[i] # operations[i] /\ ~ Heard(i)  BY <1>2
<1> QED  BY <1>1, <1>2

-----------------------------------------------------------------------------
\* submitInferenceRequest, but for the ids.
LEMMA SubmitInv ==
    ASSUME IInv, NEW v \in Tasks, SubmitStep(v)
    PROVE  IInv'
<1> USE DEF IInv, SubmitGoto, schedulerVars, clientVars
\* What all of them have in common.
<1>1. ASSUME NEW from \in {"new", "named", "added", "failing", "admitted"},
             NEW to \in {"unavailable", "resolved", "added", "failing", "refused",
                         "admitted", "accepted"},
             SubmitGoto(v, from, to),
             from = "new" <=> to \in {"unavailable", "resolved"},
             UNCHANGED <<id, cancelVars, told, asked>>,
             operations' \in [Ids -> OperationInfo \cup {Absent}],
             fate' \in [Tasks -> Lifecycle!Fate],
             known' = known \/ (known' = known \cup {id[v]} /\ to = "accepted"),
             Fates', CanceledOnRequest', OutcomeInv'
      PROVE  IInv'
  <2>1. /\ submit_pc' = [submit_pc EXCEPT ![v] = to] /\ submit_pc[v] = from
        /\ \A t \in Tasks \ {v} : submit_pc'[t] = submit_pc[t]
        /\ submit_pc'[v] = to
    BY <1>1 DEF TypeOK
  <2>2. id[v] # NoId \/ from = "new"
    BY <1>1, <2>1 DEF TypeOK, Naming
  <2>3. TypeOK'  BY <1>1, <2>1, <2>2 DEF TypeOK, cancelVars
  <2>4. Naming'  BY <1>1, <2>1 DEF Naming
  <2>5. Reach'
    <3>1. \A i \in known' : \E t \in Tasks : id[t] = i /\ submit_pc'[t] = "accepted"
      BY <1>1, <2>1 DEF Reach
    <3> QED  BY <1>1, <3>1 DEF Reach, cancelVars
  <2> QED  BY <1>1, <2>3, <2>4, <2>5
<1>2. /\ submit_pc \in [Tasks -> {"new", "unavailable", "resolved", "named", "added", "failing",
                                   "refused", "admitted", "accepted"}]
      /\ operations \in [Ids -> OperationInfo \cup {Absent}]
      /\ fate \in [Tasks -> Lifecycle!Fate]
  BY DEF TypeOK
<1>3. ASSUME NEW state \in {"PENDING", "FAILURE"},
             submit_pc[v] \notin {"new", "resolved", "unavailable"},
             UNCHANGED <<id, told, asked>>,
             Lifecycle!Write(v, Lifecycle!Op(state, "none"))
      PROVE  /\ operations' \in [Ids -> OperationInfo \cup {Absent}]
             /\ operations'[id[v]] = Op(state, "none")
             /\ \A i \in Ids : i # id[v] => operations'[i] = operations[i]
             /\ CanceledOnRequest'
  <2>1. id[v] # NoId  BY <1>3, <1>2 DEF Naming
  <2>2. /\ operations' \in [Ids -> OperationInfo \cup {Absent}]
        /\ operations'[id[v]] = Op(state, "none")
        /\ \A i \in Ids : i # id[v] => operations'[i] = operations[i]
    BY <1>3, <2>1, StatesAndMessages, WriteEffect
  <2>3. CanceledOnRequest'  BY <1>3, <2>2, CanceledFrame DEF Op
  <2> QED  BY <2>2, <2>3
<1>4. ASSUME UNCHANGED <<id, told, asked, operations>> PROVE CanceledOnRequest'
  BY <1>4 DEF CanceledOnRequest
<1>5. CASE ResolveModel(v)
  <2>1. PICK to \in {"unavailable", "resolved"} : SubmitGoto(v, "new", to)
    BY <1>5 DEF ResolveModel
  <2>2. UNCHANGED <<operations, fate, asked, id, cancelVars, known, told>>
    BY <1>5 DEF ResolveModel
  <2>3. Fates'  BY <1>2, <2>1, <2>2 DEF Fates
  <2>4. ~ Unshared(v)  BY <1>2, <2>1 DEF Unshared, Naming
  <2>5. OutcomeInv'  BY <1>2, <2>1, <2>2, <2>4, OutcomeFrame
  <2> QED  BY <1>1, <1>2, <1>4, <2>1, <2>2, <2>3, <2>5
<1>6. CASE AddOperation(v)
  <2>1. /\ UNCHANGED <<fate, asked, id, cancelVars, known, told>> /\ fate[v] = "outside"
        /\ SubmitGoto(v, "named", "added")
        /\ Lifecycle!Write(v, Lifecycle!Op("PENDING", "none"))
    BY <1>6 DEF AddOperation, Lifecycle!Add
  <2>2. Fates'  BY <1>2, <2>1 DEF Fates
  <2>3. Unshared(v) /\ Settled(v) => Settled(v)'
    BY <1>2, <1>3, <2>1, ToldFrame DEF Settled, Op, Finished
  <2>4. OutcomeInv'  BY <1>2, <1>3, <2>1, <2>3, OutcomeFrame
  <2> QED  BY <1>1, <1>2, <1>3, <2>1, <2>2, <2>4
<1>7. CASE SubmitTaskFails(v)
  <2>1. /\ UNCHANGED <<fate, asked, id, cancelVars, known, told>>
        /\ SubmitGoto(v, "added", "failing")
        /\ \/ Lifecycle!Write(v, Lifecycle!Op("FAILURE", "none"))
           \/ UNCHANGED operations
    BY <1>7 DEF SubmitTaskFails, Lifecycle!Refuse
  <2>2. Fates'  BY <1>2, <2>1 DEF Fates
  <2>3. /\ operations' \in [Ids -> OperationInfo \cup {Absent}]
        /\ \A i \in Ids : i # id[v] => operations'[i] = operations[i]
        /\ CanceledOnRequest'
    BY <1>2, <1>3, <1>4, <2>1
  <2>4. fate[v] = "outside"  BY <1>2, <2>1 DEF Fates
  <2>5. Unshared(v) /\ Settled(v) => Settled(v)'
    BY <1>2, <2>1, <2>4, ToldFrame DEF Settled
  <2>6. OutcomeInv'  BY <1>2, <2>1, <2>3, <2>5, OutcomeFrame
  <2> QED  BY <1>1, <1>2, <2>1, <2>2, <2>3, <2>6
<1>8. CASE AnswerUnavailable(v)
  <2>1. /\ UNCHANGED <<fate, asked, id, cancelVars, known, told>>
        /\ SubmitGoto(v, "failing", "refused")
        /\ Lifecycle!Write(v, Lifecycle!Op("FAILURE", "none"))
    BY <1>8 DEF AnswerUnavailable, Op, Lifecycle!Op
  <2>2. Fates'  BY <1>2, <2>1 DEF Fates
  <2>3. fate[v] = "outside"  BY <1>2, <2>1 DEF Fates
  <2>4. Unshared(v) /\ Settled(v) => Settled(v)'
    BY <1>2, <1>3, <2>1, <2>3, ToldFrame DEF Settled
  <2>5. OutcomeInv'  BY <1>2, <1>3, <2>1, <2>4, OutcomeFrame
  <2> QED  BY <1>1, <1>2, <1>3, <2>1, <2>2, <2>5
<1>9. CASE SubmitTask(v)
  <2>1. /\ UNCHANGED <<operations, asked, id, cancelVars, known, told>>
        /\ SubmitGoto(v, "added", "admitted")
        /\ fate[v] = "outside" /\ fate' = [fate EXCEPT ![v] = "waiting"]
    BY <1>9 DEF SubmitTask, Lifecycle!Admit, Lifecycle!Becomes
  <2>2. Fates' /\ fate' \in [Tasks -> Lifecycle!Fate]  BY <1>2, <2>1 DEF Fates, Lifecycle!Fate
  <2>3. Unshared(v) /\ Settled(v) => Settled(v)'
    BY <1>2, <2>1, ToldFrame DEF Settled
  <2>4. OutcomeInv'  BY <1>2, <2>1, <2>3, OutcomeFrame
  <2> QED  BY <1>1, <1>2, <1>4, <2>1, <2>2, <2>4
<1>10. CASE AnswerAccepted(v)
  <2>1. /\ UNCHANGED <<operations, fate, asked, id, cancelVars, told>>
        /\ SubmitGoto(v, "admitted", "accepted")
        /\ known' = known \cup {id[v]}
    BY <1>10 DEF AnswerAccepted
  <2>2. Fates'  BY <1>2, <2>1 DEF Fates
  <2>3. Unshared(v) /\ Settled(v) => Settled(v)'
    BY <1>2, <2>1, ToldFrame DEF Settled, Outcomes
  <2>4. OutcomeInv'  BY <1>2, <2>1, <2>3, OutcomeFrame
  <2> QED  BY <1>1, <1>2, <1>4, <2>1, <2>2, <2>4
<1> QED  BY <1>5, <1>6, <1>7, <1>8, <1>9, <1>10 DEF SubmitStep

\* generateOperationId, for the threads S that read the clock in one tick.
LEMMA GenerateInv ==
    ASSUME IInv, NEW S \in SUBSET Tasks, NEW i \in Ids, GenerateOperationIds(S, i)
    PROVE  IInv'
<1> USE DEF IInv, GenerateOperationIds
<1>1. /\ UNCHANGED <<operations, fate, asked, known, told, cancel_pc, cancel_id, cancel_task>>
      /\ \A t \in S : submit_pc[t] = "resolved" /\ submit_pc'[t] = "named"
                      /\ id[t] = NoId /\ id'[t] = i
      /\ \A t \in Tasks \ S : submit_pc'[t] = submit_pc[t] /\ id'[t] = id[t]
  BY DEF schedulerVars, cancelVars, clientVars, TypeOK, Naming
<1>2. i # NoId /\ \A t \in Tasks : id[t] # i  BY NoIdAssumption
<1>3. TypeOK'
  <2>1. id' \in [Tasks -> Ids \cup {NoId}]  BY DEF TypeOK
  <2>2. submit_pc' \in [Tasks -> {"new", "unavailable", "resolved", "named", "added", "failing",
                                  "refused", "admitted", "accepted"}]
    BY DEF TypeOK
  <2> QED  BY <1>1, <2>1, <2>2 DEF TypeOK
<1>4. Naming'  BY <1>1, <1>2 DEF Naming
\* No client has heard of the new id.
<1>5. \A t \in Tasks : submit_pc[t] = "accepted" => submit_pc'[t] = "accepted" /\ id'[t] = id[t]
  BY <1>1
<1>6. Reach'
  <2>1. \A j \in known : \E t \in Tasks : id'[t] = j /\ submit_pc'[t] = "accepted"
    BY <1>5 DEF Reach
  <2>2. \A c \in Cancelers : cancel_pc[c] \in {"revoke", "finalize"} =>
            id[cancel_task[c]] # NoId /\ cancel_task[c] \in Tasks
    BY NoIdAssumption DEF Reach, TypeOK
  <2>3. \A c \in Cancelers : cancel_pc[c] \in {"revoke", "finalize"} =>
            id'[cancel_task[c]] = id[cancel_task[c]]
    BY <1>1, <2>2
  <2>4. \A c \in Cancelers : cancel_pc[c] = "reread" =>
            \E t \in Tasks : id'[t] = cancel_id[c] /\ asked[t]
    <3> SUFFICES ASSUME NEW c \in Cancelers, cancel_pc[c] = "reread"
                 PROVE  \E t \in Tasks : id'[t] = cancel_id[c] /\ asked[t]
      OBVIOUS
    <3>1. PICK t \in Tasks : id[t] = cancel_id[c] /\ asked[t]  BY DEF Reach
    <3>2. cancel_id[c] # NoId  BY NoIdAssumption DEF Reach, TypeOK
    <3>3. id'[t] = id[t]  BY <1>1, <3>1, <3>2
    <3> QED  BY <3>1, <3>3
  <2> QED  BY <1>1, <2>1, <2>3, <2>4 DEF Reach
<1>7. Fates'  BY <1>1 DEF Fates
<1>8. CanceledOnRequest'
  <2>1. \A t \in Tasks : id[t] # NoId => id'[t] = id[t]  BY <1>1
  <2> QED  BY <1>1, <2>1, NoIdAssumption DEF CanceledOnRequest
<1>9. OutcomeInv'
  <2> SUFFICES ASSUME NEW t \in Tasks, Unshared(t)' PROVE Settled(t)'
    BY DEF OutcomeInv
  <2>1. CASE t \in S
    <3>1. told[i] = {}  BY <1>2 DEF Reach
    <3>2. fate[t] = "outside"  BY <1>1, <2>1 DEF Fates
    <3>3. OutcomesTold(id[t])' = {}  BY <1>1, <2>1, <3>1 DEF OutcomesTold
    <3> QED  BY <1>1, <2>1, <3>2, <3>3 DEF Settled
  <2>2. CASE t \notin S
    <3>1. id[t] # NoId /\ id'[t] = id[t]  BY <1>1, <2>2 DEF Unshared
    <3>2. \A u \in Tasks \ {t} : id[u] # id[t]
      <4> SUFFICES ASSUME NEW u \in Tasks \ {t} PROVE id[u] # id[t]  OBVIOUS
      <4>1. CASE u \in S  BY <1>1, <3>1, <4>1
      <4>2. CASE u \notin S  BY <1>1, <2>2, <3>1, <4>2 DEF Unshared
      <4> QED  BY <4>1, <4>2
    <3>3. Settled(t)  BY <3>1, <3>2 DEF Unshared, OutcomeInv
    <3>4. OutcomesTold(id[t])' = OutcomesTold(id[t])  BY <1>1, <3>1 DEF OutcomesTold
    <3> QED  BY <1>1, <2>2, <3>1, <3>3, <3>4, Frame
  <2> QED  BY <2>1, <2>2
<1> QED  BY <1>3, <1>4, <1>6, <1>7, <1>8, <1>9

-----------------------------------------------------------------------------
\* The dispatcher and the workers.
LEMMA ExecutionInv ==
    ASSUME IInv, NEW v \in Tasks, ExecutionStep(v)
    PROVE  IInv'
<1> USE DEF IInv
<1>1. /\ UNCHANGED <<id, submit_pc, cancel_pc, cancel_id, cancel_task, known, told, asked>>
      /\ fate[v] \in {"waiting", "running"} /\ fate \in [Tasks -> Lifecycle!Fate]
  BY DEF ExecutionStep, submitVars, cancelVars, clientVars, Lifecycle!Execution, Lifecycle!Skip,
         Lifecycle!Start, Lifecycle!Settle, Lifecycle!Abandon, Lifecycle!Becomes, TypeOK
<1>2. id[v] # NoId /\ submit_pc[v] \in {"admitted", "accepted"}
  BY <1>1 DEF Fates, Naming, TypeOK
<1>3. ASSUME operations' \in [Ids -> OperationInfo \cup {Absent}],
             fate' \in [Tasks -> Lifecycle!Fate],
             \A t \in Tasks : fate'[t] = fate[t]
                                \/ (fate[t] # "outside" /\ fate'[t] \notin {"outside", "revoked"}),
             CanceledOnRequest', OutcomeInv'
      PROVE  IInv'
  <2>1. TypeOK'  BY <1>1, <1>3 DEF TypeOK
  <2>2. Naming' /\ Reach'  BY <1>1 DEF Naming, Reach
  <2>3. Fates'  BY <1>1, <1>3 DEF Fates
  <2> QED  BY <1>3, <2>1, <2>2, <2>3
<1>4. ASSUME NEW state \in {"ONGOING", "SUCCESS", "FAILURE", "CANCELED"}, NEW message \in Message,
             Lifecycle!Write(v, Lifecycle!Op(state, message)), state = "CANCELED" => asked[v],
             NEW to \in {"running", "over"}, to = "running" => state = "ONGOING",
             fate' = [fate EXCEPT ![v] = to]
      PROVE  IInv'
  <2>1. /\ operations' \in [Ids -> OperationInfo \cup {Absent}]
        /\ operations'[id[v]] = Op(state, message)
        /\ \A i \in Ids : i # id[v] => operations'[i] = operations[i]
    BY <1>2, <1>4, StatesAndMessages, WriteEffect
  <2>2. CanceledOnRequest'  BY <1>1, <1>4, <2>1, CanceledFrame DEF Op
  <2>3. /\ fate' \in [Tasks -> Lifecycle!Fate] /\ fate'[v] = to
        /\ \A t \in Tasks \ {v} : fate'[t] = fate[t]
    BY <1>1, <1>4 DEF Lifecycle!Fate
  <2>4. Unshared(v) /\ Settled(v) => Settled(v)'
    BY <1>1, <1>2, <1>4, <2>1, <2>3, ToldFrame DEF Settled, Op, Finished
  <2>5. OutcomeInv'  BY <1>1, <2>1, <2>3, <2>4, OutcomeFrame
  <2> QED  BY <1>1, <1>3, <1>4, <2>1, <2>2, <2>3, <2>5
<1>5. CASE Lifecycle!Skip(v)
  BY <1>4, <1>5, StatesAndMessages DEF Lifecycle!Skip, Lifecycle!Becomes
<1>6. CASE Lifecycle!Start(v)
  BY <1>4, <1>6, StatesAndMessages DEF Lifecycle!Start, Lifecycle!Becomes
<1>7. CASE Lifecycle!Settle(v)
  BY <1>4, <1>7, StatesAndMessages DEF Lifecycle!Settle, Lifecycle!Becomes
<1>8. CASE Lifecycle!Abandon(v)
  <2>1. /\ operations' = operations /\ fate' \in [Tasks -> Lifecycle!Fate]
        /\ \A t \in Tasks : fate'[t] = fate[t]
                              \/ (fate[t] \in {"waiting", "running"} /\ fate'[t] = "over")
        /\ \A t \in Tasks \ {v} : fate'[t] = fate[t] \/ (fate[t] = "waiting" /\ fate'[t] = "over")
    BY <1>1, <1>8 DEF Lifecycle!Abandon, Lifecycle!Fate
  <2>2. CanceledOnRequest'  BY <1>1, <2>1 DEF CanceledOnRequest
  <2>3. OutcomesTold(id[v])' = OutcomesTold(id[v])  BY <1>1 DEF OutcomesTold
  <2>4. Unshared(v) /\ Settled(v) => Settled(v)'  BY <1>1, <2>1, <2>3, Frame
  <2>5. OutcomeInv'  BY <1>1, <2>1, <2>4, OutcomeFrame
  <2> QED  BY <1>3, <2>1, <2>2, <2>5 DEF TypeOK
<1> QED  BY <1>5, <1>6, <1>7, <1>8 DEF ExecutionStep, Lifecycle!Execution

-----------------------------------------------------------------------------
(***************************************************************************)
(* An answer about an operation clients know tells what can be read of it, *)
(* and so confirms whatever has been read before, or it presumes what      *)
(* somebody has asked for.                                                 *)
(***************************************************************************)
LEMMA TellInv ==
    ASSUME IInv, NEW i \in known, NEW X \in SUBSET (Outcomes(operations[i]) \cup {"presumed"}),
           "presumed" \in X => \E t \in Tasks : id[t] = i /\ asked[t],
           Tell(i, X), UNCHANGED <<operations, fate, asked, id, submit_pc>>
    PROVE  /\ told' \in [Ids -> SUBSET Words]
           /\ \A j \in Ids : told'[j] # {} => j \in known
           /\ CanceledOnRequest' /\ OutcomeInv'
<1> USE DEF IInv
<1>1. /\ i \in Ids /\ told \in [Ids -> SUBSET Words]
      /\ told' = [told EXCEPT ![i] = @ \cup X]
  BY DEF TypeOK, Tell
<1>2. X \subseteq Words  BY OutcomesOf DEF Words
<1>3. told' \in [Ids -> SUBSET Words]  BY <1>1, <1>2
<1>4. \A j \in Ids : told'[j] # {} => j \in known  BY <1>1 DEF Reach
<1>5. "canceled" \in X => operations[i].state = "CANCELED"  BY OutcomesOf
<1>6. CanceledOnRequest'
  <2> SUFFICES ASSUME NEW j \in Ids,
                      \/ told'[j] \cap {"canceled", "presumed"} # {}
                      \/ operations[j].state \in {"CANCELED", "CANCEL_REQUESTED"}
               PROVE  \E t \in Tasks : id[t] = j /\ asked[t]
    BY DEF CanceledOnRequest
  <2>1. CASE told'[j] = told[j]  BY <2>1 DEF CanceledOnRequest
  <2>2. CASE told'[j] # told[j]
    <3>1. j = i /\ told'[j] = told[j] \cup X  BY <1>1, <2>2
    <3>2. CASE X \cap {"canceled", "presumed"} = {}
      BY <3>1, <3>2 DEF CanceledOnRequest
    <3>3. CASE X \cap {"canceled", "presumed"} # {}
      BY <1>5, <3>1, <3>3 DEF CanceledOnRequest
    <3> QED  BY <3>2, <3>3
  <2> QED  BY <2>1, <2>2
<1> DEFINE Y == X \ {"presumed"}
<1>7. /\ Y \subseteq Outcomes(operations[i])
      /\ \A j \in Ids : OutcomesTold(j)' = told'[j] \ {"presumed"}
  BY DEF OutcomesTold
<1>8. /\ OutcomesTold(i)' = OutcomesTold(i) \cup Y
      /\ \A j \in Ids \ {i} : OutcomesTold(j)' = OutcomesTold(j)
  BY <1>1 DEF OutcomesTold
<1> HIDE DEF Y
<1>9. OutcomeInv'
  <2> SUFFICES ASSUME NEW t \in Tasks, Unshared(t) PROVE Settled(t)'
    BY DEF OutcomeInv, Unshared
  <2>1. Settled(t) /\ id[t] \in Ids /\ id' = id  BY DEF OutcomeInv, Unshared, TypeOK
  <2>2. CASE id[t] # i \/ Y = {}
    <3>1. OutcomesTold(id[t])' = OutcomesTold(id[t])  BY <1>8, <2>1, <2>2
    <3> QED  BY <2>1, <3>1, Frame
  <2>3. CASE id[t] = i /\ Y # {}
    <3>1. submit_pc[t] = "accepted"  BY <2>3 DEF Reach, Unshared
    <3>2. operations[i].state \in Finished  BY <1>7, <2>3, OutcomesOf
    <3>3. fate[t] = "over"
      BY <2>1, <2>3, <3>1, <3>2 DEF Settled, Fates, TypeOK, Lifecycle!Fate
    <3>4. \E o : OutcomesTold(i)' = {o} /\ Outcomes(operations[i]) \subseteq {o}
      <4>1. CASE OutcomesTold(i) = {}
        <5>1. PICK o : Outcomes(operations[i]) \subseteq {o}  BY OutcomesOf
        <5>2. Y = {o}  BY <1>7, <2>3, <5>1
        <5> QED  BY <1>8, <4>1, <5>1, <5>2
      <4>2. CASE OutcomesTold(i) # {}
        <5>1. PICK o : OutcomesTold(i) = {o} /\ Outcomes(operations[i]) \subseteq {o}
          BY <2>1, <2>3, <4>2 DEF Settled
        <5>2. OutcomesTold(i)' = {o}  BY <1>7, <1>8, <5>1
        <5> QED  BY <5>1, <5>2
      <4> QED  BY <4>1, <4>2
    <3>5. operations[id[t]].state \notin {"PENDING", "ONGOING"}
      BY <2>3, <3>2 DEF Finished
    <3>6. OutcomesTold(id[t])' = OutcomesTold(i)'  BY <2>1, <2>3 DEF OutcomesTold
    <3> QED
      BY <2>1, <2>3, <3>1, <3>3, <3>4, <3>5, <3>6 DEF Settled, Outcomes
  <2> QED  BY <2>2, <2>3
<1> QED  BY <1>3, <1>4, <1>6, <1>9

\* What only threads of cancelInference change.
LEMMA CancelFrame ==
    ASSUME IInv, UNCHANGED <<id, submit_pc, known>>,
           operations' \in [Ids -> OperationInfo \cup {Absent}],
           fate' \in [Tasks -> Lifecycle!Fate],
           asked' \in [Tasks -> BOOLEAN],
           \A u \in Tasks : asked[u] => asked'[u],
           told' \in [Ids -> SUBSET Words],
           \A i \in Ids : told'[i] # {} => i \in known,
           NEW c \in Cancelers, NEW to \in {"idle", "cancelTask", "revoke", "finalize", "reread"},
           cancel_pc' = [cancel_pc EXCEPT ![c] = to],
           NEW i \in Ids \cup {NoId}, cancel_id' = [cancel_id EXCEPT ![c] = i],
           NEW t \in Tasks \cup {NoTask}, cancel_task' = [cancel_task EXCEPT ![c] = t],
           to # "idle" => i \in known,
           to \in {"revoke", "finalize"} => t \in Tasks /\ id[t] = i,
           to = "reread" => \E u \in Tasks : id[u] = i /\ asked'[u],
           Fates', CanceledOnRequest', OutcomeInv'
    PROVE  IInv'
<1>1. TypeOK'  BY DEF IInv, TypeOK
<1>2. Naming'  BY DEF IInv, Naming
<1>3. Reach'
  <2>1. ASSUME NEW d \in Cancelers \ {c}
        PROVE  /\ cancel_pc'[d] = cancel_pc[d] /\ cancel_id'[d] = cancel_id[d]
               /\ cancel_task'[d] = cancel_task[d]
    BY DEF IInv, TypeOK
  <2>2. cancel_pc'[c] = to /\ cancel_id'[c] = i /\ cancel_task'[c] = t  BY DEF IInv, TypeOK
  <2> QED  BY <2>1, <2>2 DEF IInv, Reach
<1> QED  BY <1>1, <1>2, <1>3 DEF IInv

LEMMA ClientInv ==
    ASSUME IInv, NEW i \in Ids, GetOperation(i) \/ DeleteOperation(i)
    PROVE  IInv'
<1> USE DEF IInv, submitVars, cancelVars, schedulerVars, clientVars
<1>1. CASE GetOperation(i)
  <2>1. /\ told' \in [Ids -> SUBSET Words]
        /\ \A j \in Ids : told'[j] # {} => j \in known
        /\ CanceledOnRequest' /\ OutcomeInv'
    <3>1. /\ i \in known /\ Tell(i, Outcomes(operations[i]))
          /\ UNCHANGED <<operations, fate, asked, id, submit_pc>>
      BY <1>1 DEF GetOperation
    <3>2. "presumed" \notin Outcomes(operations[i])  BY OutcomesOf
    <3> HIDE DEF IInv
    <3> QED  BY <3>1, <3>2, TellInv
  <2>2. TypeOK'  BY <1>1, <2>1 DEF GetOperation, TypeOK
  <2>3. Naming' /\ Reach' /\ Fates'
    BY <1>1, <2>1 DEF GetOperation, Naming, Reach, Fates
  <2> QED  BY <2>1, <2>2, <2>3
<1>2. CASE DeleteOperation(i)
  <2>1. /\ i \in known /\ operations' = [operations EXCEPT ![i] = Absent]
        /\ UNCHANGED <<fate, asked, submitVars, cancelVars, clientVars>>
    BY <1>2 DEF DeleteOperation, Lifecycle!Delete, Lifecycle!Absent, Absent
  <2>2. PICK v \in Tasks : id[v] = i /\ submit_pc[v] = "accepted"  BY <2>1 DEF Reach
  <2>3. /\ operations' \in [Ids -> OperationInfo \cup {Absent}] /\ operations'[i] = Absent
        /\ \A j \in Ids : j # i => operations'[j] = operations[j]
    BY <2>1 DEF TypeOK
  <2>4. TypeOK'  BY <2>1, <2>3 DEF TypeOK
  <2>5. Naming' /\ Reach' /\ Fates'  BY <2>1 DEF Naming, Reach, Fates
  <2>6. CanceledOnRequest'  BY <2>1, <2>2, <2>3, CanceledFrame DEF Absent
  <2>7. Unshared(v) /\ Settled(v) => Settled(v)'
    BY <2>1, <2>2, <2>3, ToldFrame DEF Settled, Absent, Finished, Outcomes
  <2>8. OutcomeInv'  BY <2>1, <2>2, <2>3, <2>7, OutcomeFrame
  <2> QED  BY <2>4, <2>5, <2>6, <2>8
<1> QED  BY <1>1, <1>2

LEMMA CancelInv ==
    ASSUME IInv, NEW c \in Cancelers, CancelStep(c)
    PROVE  IInv'
<1> USE DEF IInv, CancelGoto, submitVars, cancelVars, schedulerVars, clientVars
<1>1. /\ cancel_pc \in [Cancelers -> {"idle", "cancelTask", "revoke", "finalize", "reread"}]
      /\ cancel_id \in [Cancelers -> Ids \cup {NoId}]
      /\ cancel_task \in [Cancelers -> Tasks \cup {NoTask}]
      /\ operations \in [Ids -> OperationInfo \cup {Absent}]
      /\ fate \in [Tasks -> Lifecycle!Fate] /\ asked \in [Tasks -> BOOLEAN]
      /\ told \in [Ids -> SUBSET Words] /\ known \subseteq Ids
      /\ \A j \in Ids : told[j] # {} => j \in known
  BY DEF TypeOK, Reach
<1>2. ASSUME UNCHANGED <<operations, fate, id, submit_pc, told>>,
             \A t \in Tasks : asked[t] => asked'[t]
      PROVE  Fates' /\ CanceledOnRequest' /\ OutcomeInv'
  <2>1. OutcomeInv'  BY <1>2, ToldFrame DEF OutcomeInv, Unshared, Settled, Outcomes
  <2> QED  BY <1>2, <2>1 DEF Fates, CanceledOnRequest
<1>3. ASSUME NEW i \in Ids, CancelInference(c, i) PROVE IInv'
  <2>1. CASE Over(i) \/ operations[i] = Absent
    <3>1. /\ i \in known /\ Tell(i, Outcomes(operations[i]) \cap {"canceled"})
          /\ UNCHANGED <<operations, fate, asked, id, submit_pc, cancel_pc, cancel_id,
                         cancel_task, known>>
      BY <1>3, <2>1 DEF CancelInference
    <3>2. /\ told' \in [Ids -> SUBSET Words]
          /\ \A j \in Ids : told'[j] # {} => j \in known
          /\ CanceledOnRequest' /\ OutcomeInv'
      <4>1. "presumed" \notin Outcomes(operations[i]) \cap {"canceled"}  OBVIOUS
      <4> HIDE DEF IInv
      <4> QED  BY <3>1, <4>1, TellInv
    <3>3. TypeOK'  BY <3>1, <3>2 DEF TypeOK
    <3>4. Naming' /\ Reach' /\ Fates'  BY <3>1, <3>2 DEF Naming, Reach, Fates
    <3> QED  BY <3>2, <3>3, <3>4
  <2>2. CASE ~ (Over(i) \/ operations[i] = Absent)
    <3>1. /\ i \in known /\ cancel_pc' = [cancel_pc EXCEPT ![c] = "cancelTask"]
          /\ cancel_id' = [cancel_id EXCEPT ![c] = i]
          /\ cancel_task' = [cancel_task EXCEPT ![c] = cancel_task[c]]
          /\ UNCHANGED <<operations, fate, asked, id, submit_pc, told, known>>
      BY <1>1, <1>3, <2>2 DEF CancelInference
    <3> QED  BY <1>1, <1>2, <3>1, CancelFrame
  <2> QED  BY <2>1, <2>2
<1>4. CASE CancelTooLate(c)
  <2>1. /\ cancel_pc[c] = "cancelTask" /\ cancel_id[c] \in known
        /\ UNCHANGED <<operations, fate, asked, id, submit_pc, told, known>>
        /\ Fates' /\ CanceledOnRequest' /\ OutcomeInv'
    BY <1>2, <1>4 DEF CancelTooLate, Reach
  <2>2. CASE CancelReturns(c)
    <3>1. /\ cancel_pc' = [cancel_pc EXCEPT ![c] = "idle"]
          /\ cancel_id' = [cancel_id EXCEPT ![c] = NoId]
          /\ cancel_task' = [cancel_task EXCEPT ![c] = NoTask]
      BY <2>2 DEF CancelReturns, TaskReturned
    <3> QED  BY <1>1, <2>1, <3>1, CancelFrame
  <2>3. CASE /\ operations[cancel_id[c]].state = "CANCELED"
             /\ cancel_pc' = [cancel_pc EXCEPT ![c] = "reread"]
             /\ UNCHANGED <<cancel_id, cancel_task>>
    <3>1. \E u \in Tasks : id[u] = cancel_id[c] /\ asked'[u]
      BY <1>1, <2>1, <2>3 DEF CanceledOnRequest
    <3>2. PICK i \in Ids \cup {NoId}, u \in Tasks \cup {NoTask} :
              /\ cancel_id' = [cancel_id EXCEPT ![c] = i] /\ i = cancel_id[c]
              /\ cancel_task' = [cancel_task EXCEPT ![c] = u]
      BY <1>1, <2>3
    <3>3. /\ cancel_pc' = [cancel_pc EXCEPT ![c] = "reread"]
          /\ \A v \in Tasks : asked[v] => asked'[v]
          /\ asked' \in [Tasks -> BOOLEAN]
      BY <1>1, <2>1, <2>3
    <3> HIDE DEF IInv
    <3> QED  BY <1>1, <2>1, <3>1, <3>2, <3>3, CancelFrame
  <2> QED  BY <1>4, <2>2, <2>3 DEF CancelTooLate
<1>5. CASE CancelFlag(c)
  <2>1. PICK t \in Tasks : /\ id[t] = cancel_id[c] /\ Lifecycle!Ask(t)
                           /\ cancel_task' = [cancel_task EXCEPT ![c] = t]
    BY <1>5 DEF CancelFlag
  <2>2. /\ asked' \in [Tasks -> BOOLEAN] /\ \A u \in Tasks : asked[u] => asked'[u]
        /\ UNCHANGED <<operations, fate>>
    BY <1>1, <2>1 DEF Lifecycle!Ask
  <2>3. /\ cancel_id[c] \in known /\ cancel_pc' = [cancel_pc EXCEPT ![c] = "revoke"]
        /\ cancel_id' = [cancel_id EXCEPT ![c] = cancel_id[c]]
        /\ UNCHANGED <<id, submit_pc, told, known>>
    BY <1>1, <1>5 DEF CancelFlag, Reach
  <2> QED  BY <1>1, <1>2, <2>1, <2>2, <2>3, CancelFrame
<1>6. CASE CancelRevoke(c)
  <2>1. PICK t \in Tasks : /\ id[t] = cancel_id[c] /\ Lifecycle!Revoke(t)
                           /\ cancel_task' = [cancel_task EXCEPT ![c] = t]
    BY <1>6 DEF CancelRevoke
  <2>2. /\ asked' = [asked EXCEPT ![t] = TRUE] /\ operations' = operations
        /\ fate[t] = "waiting" /\ fate' = [fate EXCEPT ![t] = "revoked"]
    BY <2>1 DEF Lifecycle!Revoke, Lifecycle!Becomes
  <2>3. /\ cancel_id[c] \in known /\ cancel_pc' = [cancel_pc EXCEPT ![c] = "finalize"]
        /\ cancel_id' = [cancel_id EXCEPT ![c] = cancel_id[c]]
        /\ UNCHANGED <<id, submit_pc, told, known>>
    BY <1>1, <1>6 DEF CancelRevoke, Reach
  <2>4. /\ asked' \in [Tasks -> BOOLEAN] /\ fate' \in [Tasks -> Lifecycle!Fate]
        /\ asked'[t] /\ (\A u \in Tasks : asked[u] => asked'[u])
        /\ fate'[t] = "revoked"
        /\ \A u \in Tasks \ {t} : fate'[u] = fate[u] /\ asked'[u] = asked[u]
    BY <1>1, <2>2 DEF Lifecycle!Fate
  <2>5. Fates'  BY <2>2, <2>3, <2>4 DEF Fates
  <2>6. CanceledOnRequest'  BY <2>2, <2>3, <2>4 DEF CanceledOnRequest
  <2>7. Unshared(t) /\ Settled(t) => Settled(t)'
    <3>1. OutcomesTold(id[t])' = OutcomesTold(id[t])  BY <2>3 DEF OutcomesTold
    <3> QED  BY <2>2, <2>3, <2>4, <3>1, Frame
  <2>8. OutcomeInv'  BY <2>2, <2>3, <2>4, <2>7, OutcomeFrame
  <2> QED  BY <1>1, <2>1, <2>2, <2>3, <2>4, <2>5, <2>6, <2>8, CancelFrame
<1>7. ASSUME NEW t \in Tasks, id[t] = cancel_id[c], cancel_id[c] \in known,
             NEW state \in {"CANCELED", "CANCEL_REQUESTED"}, NEW message \in Message,
             Lifecycle!Write(t, Lifecycle!Op(state, message)), asked[t], asked' = asked,
             \/ state = "CANCEL_REQUESTED" /\ fate' = fate
             \/ state = "CANCELED" /\ fate[t] = "revoked" /\ fate' = [fate EXCEPT ![t] = "over"],
             cancel_pc' = [cancel_pc EXCEPT ![c] = "reread"],
             cancel_task' = [cancel_task EXCEPT ![c] = NoTask],
             UNCHANGED <<id, submit_pc, cancel_id, told, known>>
      PROVE  IInv'
  <2>1. id[t] # NoId /\ \E v \in Tasks : id[v] = id[t] /\ submit_pc[v] = "accepted"
    BY <1>1, <1>7, NoIdAssumption DEF Reach
  <2>2. /\ operations' \in [Ids -> OperationInfo \cup {Absent}]
        /\ operations'[id[t]] = Op(state, message)
        /\ \A i \in Ids : i # id[t] => operations'[i] = operations[i]
    BY <1>7, <2>1, StatesAndMessages, WriteEffect
  <2>3. fate' \in [Tasks -> Lifecycle!Fate] /\ \A u \in Tasks \ {t} : fate'[u] = fate[u]
    BY <1>1, <1>7 DEF Lifecycle!Fate
  <2>4. Fates'  BY <1>1, <1>7 DEF Fates
  <2>5. CanceledOnRequest'  BY <1>7, <2>2, CanceledFrame
  <2>6. Unshared(t) /\ Settled(t) => Settled(t)'
    <3> SUFFICES ASSUME Unshared(t), Settled(t) PROVE Settled(t)'  OBVIOUS
    <3>1. submit_pc[t] = "accepted"  BY <2>1 DEF Unshared
    <3>2. CASE state = "CANCEL_REQUESTED"
      <4>1. /\ operations'[id[t]].state \notin Finished \cup {"PENDING", "ONGOING"}
            /\ Outcomes(operations'[id[t]]) = {}
        BY <2>2, <3>2, OutcomesOf DEF Op, Finished
      <4>2. fate' = fate  BY <1>7, <3>2
      <4> QED  BY <1>7, <3>1, <4>1, <4>2, ToldFrame DEF Settled
    <3>3. CASE state = "CANCELED"
      <4>1. fate[t] = "revoked" /\ fate'[t] = "over"  BY <1>1, <1>7, <3>3
      <4>2. OutcomesTold(id[t]) = {}  BY <4>1 DEF Settled
      <4> QED  BY <1>7, <3>1, <4>1, <4>2, ToldFrame DEF Settled
    <3> QED  BY <3>2, <3>3
  <2>7. OutcomeInv'  BY <1>7, <2>2, <2>3, <2>6, OutcomeFrame
  <2>8. /\ cancel_id[c] \in Ids \cup {NoId} /\ cancel_id[c] \in known /\ id[t] = cancel_id[c]
        /\ cancel_id' = [cancel_id EXCEPT ![c] = cancel_id[c]]
        /\ cancel_task' = [cancel_task EXCEPT ![c] = NoTask] /\ asked'[t]
    BY <1>1, <1>7
  <2>9. /\ told' \in [Ids -> SUBSET Words]
        /\ \A j \in Ids : told'[j] # {} => j \in known
        /\ asked' \in [Tasks -> BOOLEAN]
        /\ \A v \in Tasks : asked[v] => asked'[v]
        /\ UNCHANGED <<id, submit_pc, known>>
        /\ cancel_pc' = [cancel_pc EXCEPT ![c] = "reread"]
    BY <1>1, <1>7
  <2> HIDE DEF IInv
  <2> QED  BY <2>2, <2>3, <2>4, <2>5, <2>7, <2>8, <2>9, CancelFrame
<1>8. CASE CancelFinalize(c)
  <2>1. cancel_task[c] \in Tasks /\ id[cancel_task[c]] = cancel_id[c] /\ cancel_id[c] \in known
    BY <1>8 DEF CancelFinalize, Reach
  <2>2. fate[cancel_task[c]] = "revoked" /\ asked[cancel_task[c]]
    BY <1>8, <2>1 DEF CancelFinalize, Lifecycle!ReportRevoked, Lifecycle!Becomes, Fates
  <2> QED
    BY <1>7, <1>8, <2>1, <2>2, StatesAndMessages
    DEF CancelFinalize, TaskReturned, Lifecycle!ReportRevoked, Lifecycle!Becomes
<1>9. CASE CancelRequest(c)
  <2>1. cancel_task[c] \in Tasks /\ id[cancel_task[c]] = cancel_id[c] /\ cancel_id[c] \in known
    BY <1>9 DEF CancelRequest, Reach
  <2> QED
    BY <1>7, <1>9, <2>1, StatesAndMessages
    DEF CancelRequest, TaskReturned, Lifecycle!RequestCancel
<1>10. CASE CancelAnswer(c)
  <2>1. /\ cancel_id[c] \in known
        /\ \E t \in Tasks : id[t] = cancel_id[c] /\ asked[t]
        /\ cancel_pc' = [cancel_pc EXCEPT ![c] = "idle"]
        /\ UNCHANGED <<operations, fate, asked, id, submit_pc, known>>
        /\ cancel_id' = [cancel_id EXCEPT ![c] = NoId]
        /\ cancel_task' = [cancel_task EXCEPT ![c] = NoTask]
    BY <1>1, <1>10 DEF CancelAnswer, CancelReturns, TaskReturned, Reach
  <2>2. PICK X \in SUBSET (Outcomes(operations[cancel_id[c]]) \cup {"presumed"}) :
            Tell(cancel_id[c], X)
    BY <1>10 DEF CancelAnswer
  <2>3. /\ told' \in [Ids -> SUBSET Words]
        /\ \A j \in Ids : told'[j] # {} => j \in known
        /\ CanceledOnRequest' /\ OutcomeInv'
    <3> HIDE DEF IInv
    <3> QED  BY <2>1, <2>2, TellInv
  <2>4. Fates'  BY <2>1 DEF Fates
  <2> QED  BY <1>1, <2>1, <2>3, <2>4, CancelFrame
<1> QED  BY <1>3, <1>4, <1>5, <1>6, <1>8, <1>9, <1>10 DEF CancelStep

LEMMA NextIInv == IInv /\ [Next]_vars => IInv'
<1> SUFFICES ASSUME IInv, [Next]_vars PROVE IInv'  OBVIOUS
<1>1. CASE UNCHANGED vars
  <2>1. UNCHANGED <<operations, fate, asked, id, submit_pc, cancel_pc, cancel_id,
                    cancel_task, known, told>>
    BY <1>1 DEF vars, schedulerVars, submitVars, cancelVars, clientVars
  <2>2. TypeOK' /\ Naming' /\ Reach' /\ Fates'
    BY <2>1 DEF IInv, TypeOK, Naming, Reach, Fates
  <2>3. CanceledOnRequest'  BY <2>1 DEF IInv, CanceledOnRequest
  <2>4. OutcomeInv'  BY <2>1, ToldFrame DEF IInv, OutcomeInv, Unshared, Settled, Outcomes
  <2> QED  BY <2>2, <2>3, <2>4 DEF IInv
<1>2. ASSUME NEW t \in Tasks, SubmitStep(t) \/ ExecutionStep(t) PROVE IInv'
  BY <1>2, SubmitInv, ExecutionInv
<1>3. ASSUME NEW S \in SUBSET Tasks, NEW i \in Ids, GenerateOperationIds(S, i) PROVE IInv'
  BY <1>3, GenerateInv
<1>4. ASSUME NEW i \in Ids, GetOperation(i) \/ DeleteOperation(i) PROVE IInv'
  BY <1>4, ClientInv
<1>5. ASSUME NEW c \in Cancelers, CancelStep(c) PROVE IInv'
  BY <1>5, CancelInv
<1> QED  BY <1>1, <1>2, <1>3, <1>4, <1>5 DEF Next

-----------------------------------------------------------------------------
(***************************************************************************)
(* The service's variables keep their types: a submission answered 202 has *)
(* an id to answer, and a cancel never works on a task that is not one.    *)
(***************************************************************************)
THEOREM ServiceTypeCorrect == Spec => []TypeOK
<1>1. IInv => TypeOK  BY DEF IInv
<1> QED  BY <1>1, InitIInv, NextIInv, PTL DEF Spec

(***************************************************************************)
(* The outcomes clients read in one operation are one outcome: only a task *)
(* that is over has one, and what is written over it is none.  What line   *)
(* 228 of InferService.cpp presumes is not read in it, and is not covered. *)
(***************************************************************************)
THEOREM AnswersAlwaysAgree == Spec => []AnswersAgree
<1>1. IInv => AnswersAgree
  <2> SUFFICES ASSUME IInv, NEW t \in Tasks, Unshared(t)
               PROVE  Cardinality(OutcomesTold(id[t])) <= 1
    BY DEF AnswersAgree
  <2>1. CASE OutcomesTold(id[t]) = {}
    <3>1. Cardinality(OutcomesTold(id[t])) = 0  BY <2>1, FS_EmptySet
    <3> QED  BY <3>1
  <2>2. CASE OutcomesTold(id[t]) # {}
    <3>1. PICK o : OutcomesTold(id[t]) = {o}  BY <2>2 DEF IInv, OutcomeInv, Settled
    <3>2. Cardinality(OutcomesTold(id[t])) = 1  BY <3>1, FS_Singleton
    <3> QED  BY <3>2
  <2> QED  BY <2>1, <2>2
<1> QED  BY <1>1, InitIInv, NextIInv, PTL DEF Spec

(***************************************************************************)
(* What was answered 503 is never run, and its operation says FAILURE.     *)
(***************************************************************************)
THEOREM RefusedStaysDead == Spec => []RefusedIsDead
<1>1. IInv => RefusedIsDead
  BY DEF IInv, RefusedIsDead, Fates, OutcomeInv, Settled
<1> QED  BY <1>1, InitIInv, NextIInv, PTL DEF Spec

(***************************************************************************)
(* Only what a client asked to cancel is reported, or presumed, canceled.  *)
(***************************************************************************)
THEOREM CanceledOnlyOnRequest == Spec => []CanceledOnRequest
<1>1. IInv => CanceledOnRequest  BY DEF IInv
<1> QED  BY <1>1, InitIInv, NextIInv, PTL DEF Spec

\* An id is kept, and so is an answer.
LEMMA Lasting ==
    ASSUME IInv, [Next]_vars
    PROVE  /\ \A u \in Tasks :
                  id'[u] = id[u] \/ (id[u] = NoId /\ \A t \in Tasks : id'[u] # id[t])
           /\ \A i \in Ids : OutcomesTold(i) # {} => OutcomesTold(i)' # {}
<1> USE DEF submitVars, clientVars
<1>1. ASSUME NEW i, NEW X, Tell(i, X)
      PROVE  \A j \in Ids : OutcomesTold(j) # {} => OutcomesTold(j)' # {}
  <2>1. \A j \in Ids : told[j] \subseteq told'[j]  BY <1>1 DEF Tell, IInv, TypeOK
  <2> QED  BY <2>1 DEF OutcomesTold
<1>2. ASSUME NEW S \in SUBSET Tasks, NEW i \in Ids, GenerateOperationIds(S, i)
      PROVE  /\ told' = told
             /\ \A u \in Tasks :
                  id'[u] = id[u] \/ (id[u] = NoId /\ \A t \in Tasks : id'[u] # id[t])
  BY <1>2 DEF GenerateOperationIds, IInv, Naming
<1>3. ASSUME NEW t \in Tasks, SubmitStep(t) \/ ExecutionStep(t) PROVE UNCHANGED <<id, told>>
  BY <1>3 DEF SubmitStep, ExecutionStep, ResolveModel, AddOperation, SubmitTask,
              SubmitTaskFails, AnswerUnavailable, AnswerAccepted
<1>4. ASSUME NEW i \in Ids, GetOperation(i) \/ DeleteOperation(i)
      PROVE  id' = id /\ (told' = told \/ \E X : Tell(i, X))
  BY <1>4 DEF GetOperation, DeleteOperation
<1>5. ASSUME NEW c \in Cancelers, CancelStep(c)
      PROVE  id' = id /\ (told' = told \/ \E i, X : Tell(i, X))
  BY <1>5 DEF CancelStep, CancelInference, CancelTooLate, CancelFlag, CancelRevoke,
              CancelFinalize, CancelRequest, CancelAnswer, CancelReturns
<1>6. CASE UNCHANGED vars  BY <1>6, ToldFrame DEF vars
<1> QED  BY <1>1, <1>2, <1>3, <1>4, <1>5, <1>6, ToldFrame DEF Next

(***************************************************************************)
(* After an outcome that was read nobody is told "in progress": the task   *)
(* is over, and nothing that still works on its operation writes PENDING   *)
(* or ONGOING.  A cancellation that was only presumed proves no such thing.*)
(***************************************************************************)
THEOREM ThereIsNoWayBack == Spec => NoWayBack
<1>1. ASSUME IInv, [Next]_vars, NEW t \in Tasks, Unshared(t), OutcomesTold(id[t]) # {}
      PROVE  operations'[id[t]].state \notin {"PENDING", "ONGOING"}
  <2>1. id[t] \in Ids /\ id'[t] = id[t]  BY <1>1, Lasting DEF Unshared, IInv, TypeOK
  <2>3. Unshared(t)'  BY <1>1, <2>1, Lasting DEF Unshared
  <2>4. OutcomesTold(id[t])' # {}
    <3>1. OutcomesTold(id[t])' = told'[id[t]] \ {"presumed"}  BY <2>1 DEF OutcomesTold
    <3>2. \A i \in Ids : told'[i] \ {"presumed"} = OutcomesTold(i)'  BY DEF OutcomesTold
    <3> QED  BY <1>1, <2>1, <3>1, <3>2, Lasting
  <2>5. OutcomeInv'  BY <1>1, NextIInv DEF IInv
  <2> QED  BY <2>1, <2>3, <2>4, <2>5 DEF OutcomeInv, Settled
<1>2. IInv /\ [Next]_vars =>
         [\A t \in Tasks :
             Unshared(t) /\ OutcomesTold(id[t]) # {} =>
                operations'[id[t]].state \notin {"PENDING", "ONGOING"}]_vars
  BY <1>1
<1> QED  BY <1>2, InitIInv, NextIInv, PTL DEF Spec, NoWayBack
=============================================================================
