---------------------------- MODULE KeeperProofs ----------------------------
(***************************************************************************)
(* The keeper never books more than it has taken out of the contracts, for *)
(* any number of faults, updates of the rate, fees and amounts.            *)
(*                                                                         *)
(* The inequality is not inductive: it has to count what a task has taken  *)
(* out and will book (Owed), what waits in the pool to be booked, and what *)
(* the harvest has read of the pool's fees and takes for granted.          *)
(*                                                                         *)
(* The second part is about types, of which the least obvious is that the  *)
(* treasury is never overdrawn.                                            *)
(***************************************************************************)
EXTENDS Keeper, TLAPS

\* The calls of a task carry on with what it has read.
TaskShape(t) ==
    /\ yield[t].n = 0 => ~yield[t].taken /\ ~Waiting(t)
    /\ yield[t].taken => Waiting(t) /\ calls[t].op = [is |-> "add_rewards", n |-> yield[t].n]
    /\ ~yield[t].taken /\ Waiting(t) => calls[t].op = Taking(t, yield[t].n)

Kinds == {"rate", "add_rewards", "withdraw_fees", "collect_protocol_fees", "bump_instance"}

Shape ==
    /\ calls = [c \in Callers |-> calls[c]]
    /\ \A c \in Callers :
          \/ calls[c] = NoCall
          \/ /\ calls[c] = [step |-> calls[c].step, op |-> calls[c].op]
             /\ calls[c].step \in Step
    /\ \A c \in Callers \ Tasks : Waiting(c) => calls[c].op.is \in {"rate", "bump_instance"}
    /\ \A c \in Callers : StepOf(c, "sent") => pool = {[by |-> c, op |-> calls[c].op]}
    /\ \A tx \in pool : tx.op.is = "add_rewards" \/ tx.op.is = "withdraw_fees" => tx.op.n \in Nat
    /\ \A tx \in pool : tx.op.is \in Kinds
    /\ \A tx1, tx2 \in pool : tx1 = tx2
    /\ yield \in [Tasks -> [n : Nat, taken : BOOLEAN]]
    /\ \A t \in Tasks : TaskShape(t)
    /\ treasury \in Int /\ lpFees \in Nat /\ received \in Int /\ booked \in Int

\* What a task has taken out and not yet sent off to be booked.
Owed(t) ==
    IF \/ ~yield[t].taken /\ StepOf(t, "done")
       \/ yield[t].taken /\ calls[t].step \in {"asked", "built", "stale"}
    THEN yield[t].n ELSE 0

\* What waits in the pool to be booked.
OwedBy(tx) == IF tx.op.is = "add_rewards" THEN tx.op.n ELSE 0

\* What the harvest has read and not yet taken out.
Expected ==
    IF ~yield["harvest"].taken /\ ~StepOf("harvest", "done") THEN yield["harvest"].n ELSE 0

Covers(n) ==
    /\ booked + Owed("harvest") + Owed("recycle") + n <= received
    /\ booked + Owed("harvest") + Owed("recycle") + n + Expected <= received + lpFees

Covered == Covers(0) /\ \A tx \in pool : Covers(OwedBy(tx))

IInv == Shape /\ Covered
-----------------------------------------------------------------------------
\* The names of the tasks are those of callers that are not updates of the rate.
LEMMA TasksAreCallers ==
    /\ Tasks \subseteq Callers /\ "harvest" \in Tasks /\ "recycle" \in Tasks
    /\ \A t \in Tasks : t \notin Syncs /\ t # "upkeep"
    /\ \A s \in Syncs : s \in Callers \ Tasks
    /\ "upkeep" \in Callers \ Tasks
<1>. QED BY KeeperAssumption DEF Tasks

LEMMA InitHolds == Init => IInv
<1>. SUFFICES ASSUME Init PROVE IInv
  OBVIOUS
<1>. USE TasksAreCallers DEF Init, RateInit, OperatorInit, NoCall, NoYield
<1>1. Shape
  <2>1. \A t \in Tasks : TaskShape(t)
    BY DEF TaskShape, Waiting
  <2>. QED BY <2>1, KeeperAssumption DEF Shape, Waiting, StepOf
<1>2. Covered
  BY DEF Covered, Covers, Owed, Expected, StepOf
<1>. QED BY <1>1, <1>2 DEF IInv

\* A step that leaves the calls, the tasks and the money alone, but for fees that swaps
\* leave in the pool, preserves the invariant.
LEMMA QuietSteps ==
    ASSUME IInv, UNCHANGED <<calls, pool, yield, treasury, received, booked>>,
           lpFees' \in Nat, lpFees' >= lpFees
    PROVE  IInv'
<1>1. Shape'
  BY DEF IInv, Shape, TaskShape, Waiting, StepOf, Taking
<1>2. Owed("harvest") \in Int /\ Owed("recycle") \in Int /\ Expected \in Int
  BY TasksAreCallers DEF IInv, Shape, Owed, Expected
<1>3. \A tx \in pool : OwedBy(tx) \in Int
  BY DEF IInv, Shape, OwedBy
<1>4. ASSUME NEW n \in Int, Covers(n) PROVE Covers(n)'
  BY <1>2, <1>4 DEF Covers, Owed, Expected, StepOf, IInv, Shape
<1>5. Covered'
  <2>1. Covers(0)'
    BY <1>4 DEF IInv, Covered
  <2>2. ASSUME NEW tx \in pool' PROVE Covers(OwedBy(tx))'
    <3>1. tx \in pool /\ OwedBy(tx) \in Int /\ Covers(OwedBy(tx))
      BY <1>3 DEF IInv, Covered
    <3>. QED BY <3>1, <1>4
  <2>. QED BY <2>1, <2>2 DEF Covered
<1>. QED BY <1>1, <1>5 DEF IInv

LEMMA Numbers ==
    ASSUME Shape
    PROVE  /\ Owed("harvest") \in Nat /\ Owed("recycle") \in Nat /\ Expected \in Nat
           /\ \A tx \in pool : OwedBy(tx) \in Nat
           /\ booked \in Int /\ received \in Int /\ lpFees \in Nat
BY TasksAreCallers DEF Shape, Owed, Expected, OwedBy

LEMMA NumbersNext ==
    ASSUME Shape'
    PROVE  /\ Owed("harvest")' \in Nat /\ Owed("recycle")' \in Nat /\ Expected' \in Nat
           /\ booked' \in Int /\ received' \in Int /\ lpFees' \in Nat
BY TasksAreCallers DEF Shape, Owed, Expected

\* Between a call's ends: another step of it, or the pool, changes.  What is owed and
\* expected may shrink when the pool does not grow.
LEMMA LessIsCovered ==
    ASSUME IInv, Shape', pool' \subseteq pool,
           UNCHANGED <<lpFees, received, booked>>,
           Owed("harvest")' <= Owed("harvest"), Owed("recycle")' <= Owed("recycle"),
           Expected' <= Expected
    PROVE  IInv'
<1>1. ASSUME NEW n \in Nat, Covers(n) PROVE Covers(n)'
  BY Numbers, NumbersNext, <1>1 DEF Covers, IInv
<1>2. \A tx \in pool : OwedBy(tx) \in Nat /\ Covers(OwedBy(tx))
  BY Numbers DEF IInv, Covered
<1>3. \A tx \in pool' : Covers(OwedBy(tx))'
  BY <1>1, <1>2 DEF OwedBy
<1>. QED BY <1>1, <1>3 DEF IInv, Covered

\* A caller that is not a task of the keeper starts a call.
LEMMA OtherBegins ==
    ASSUME IInv, NEW c \in Callers \ Tasks, NEW op, op.is \in {"rate", "bump_instance"},
           Begin(c, op),
           UNCHANGED <<pool, yield, treasury, lpFees, received, booked>>
    PROVE  IInv'
<1>1. calls' = [calls EXCEPT ![c] = [step |-> "asked", op |-> op]]
  BY DEF Begin
<1>2. Shape'
  BY <1>1, TasksAreCallers DEF IInv, Shape, TaskShape, Waiting, StepOf, Taking, Step, NoCall
<1>3. \A t \in Tasks : calls'[t] = calls[t]
  BY <1>1, TasksAreCallers DEF IInv, Shape
<1>4. /\ Owed("harvest")' = Owed("harvest") /\ Owed("recycle")' = Owed("recycle")
      /\ Expected' = Expected
  BY <1>3, TasksAreCallers DEF Owed, Expected, StepOf
<1>. QED BY <1>2, <1>4, LessIsCovered, Numbers DEF IInv

LEMMA StartTaskKeeps ==
    ASSUME IInv, NEW t \in Tasks, StartTask(t) PROVE IInv'
<1>. USE DEF StartTask, operatorVars, books, readerVars, managerVars
<1>1. Available(t) \in Nat /\ Available(t) > 0
  BY DEF Available, AccruedFees, Recyclable, IInv, Shape
<1>2. yield' = [yield EXCEPT ![t] = [n |-> Available(t), taken |-> FALSE]]
  OBVIOUS
<1>3. Shape'
  BY <1>1, <1>2, TasksAreCallers DEF IInv, Shape, TaskShape, Waiting, StepOf, Taking, NoYield, Tasks
<1>4. ~Waiting(t) /\ calls[t].step = "none"
  BY DEF Waiting, NoCall
<1>5. Owed("harvest")' = Owed("harvest") /\ Owed("recycle")' = Owed("recycle")
  BY <1>2, <1>4, TasksAreCallers DEF Owed, StepOf, IInv, Shape, NoYield, Tasks
<1>6. Expected' = Expected \/ Expected' = lpFees
  BY <1>2, <1>4, TasksAreCallers DEF Expected, StepOf, IInv, Shape, NoYield, Tasks, Available, AccruedFees
<1>7. ASSUME NEW n \in Nat, Covers(n) PROVE Covers(n)'
  BY <1>3, <1>5, <1>6, <1>7, Numbers, NumbersNext DEF Covers, IInv
<1>8. \A tx \in pool : OwedBy(tx) \in Nat /\ Covers(OwedBy(tx))
  BY Numbers DEF IInv, Covered
<1>. QED BY <1>3, <1>7, <1>8 DEF IInv, Covered, OwedBy

LEMMA TakeYieldKeeps ==
    ASSUME IInv, NEW t \in Tasks, TakeYield(t) PROVE IInv'
<1>. USE DEF TakeYield, keeperVars, books
<1>1. calls' = [calls EXCEPT ![t] = [step |-> "asked", op |-> Taking(t, yield[t].n)]]
  BY DEF Begin
<1>2. ~yield[t].taken
  BY DEF IInv, Shape, TaskShape
<1>3. Shape'
  <2>1. \A u \in Tasks : TaskShape(u)'
    <3>1. TaskShape(t)'
      BY <1>1, <1>2, TasksAreCallers DEF IInv, Shape, TaskShape, Waiting, NoCall
    <3>2. ASSUME NEW u \in Tasks, u # t PROVE TaskShape(u)'
      <4>1. calls'[u] = calls[u] /\ yield'[u] = yield[u] /\ TaskShape(u)
        BY <1>1, <3>2, TasksAreCallers DEF IInv, Shape
      <4>. QED BY <4>1 DEF TaskShape, Waiting
    <3>. QED BY <3>1, <3>2
  <2>2. \A c \in Callers : StepOf(c, "sent")' => pool' = {[by |-> c, op |-> calls'[c].op]}
    BY <1>1, TasksAreCallers DEF IInv, Shape, StepOf
  <2>. QED BY <1>1, <2>1, <2>2, TasksAreCallers DEF IInv, Shape, Waiting, Step, NoCall
<1>4. calls[t].step = "none" /\ calls'[t].step = "asked"
  BY <1>1, TasksAreCallers DEF Waiting, NoCall, IInv, Shape
<1>5. \A u \in Tasks : u # t => calls'[u] = calls[u]
  BY <1>1, TasksAreCallers DEF IInv, Shape
<1>6. /\ Owed("harvest")' = Owed("harvest") /\ Owed("recycle")' = Owed("recycle")
      /\ Expected' = Expected
  BY <1>2, <1>4, <1>5, TasksAreCallers DEF Owed, Expected, StepOf
<1>. QED BY <1>3, <1>6, LessIsCovered, Numbers DEF IInv

LEMMA BookYieldKeeps ==
    ASSUME IInv, NEW t \in Tasks, BookYield(t) PROVE IInv'
<1>. DEFINE op == [is |-> "add_rewards", n |-> yield[t].n]
<1>1. /\ calls' = [calls EXCEPT ![t] = [step |-> "asked", op |-> op]]
      /\ yield' = [yield EXCEPT ![t].taken = TRUE]
      /\ yield[t].n > 0 /\ ~yield[t].taken /\ calls[t].step = "done"
      /\ UNCHANGED <<pool, treasury, lpFees, received, booked>>
  BY DEF BookYield, Begin, StepOf
<1>2. /\ calls'[t] = [step |-> "asked", op |-> op]
      /\ yield'[t].n = yield[t].n /\ yield'[t].taken
      /\ \A u \in Tasks : u # t => calls'[u] = calls[u] /\ yield'[u] = yield[u]
      /\ yield' \in [Tasks -> [n : Nat, taken : BOOLEAN]]
  BY <1>1, TasksAreCallers DEF IInv, Shape
<1>3. Shape'
  <2>1. \A u \in Tasks : TaskShape(u)'
    <3>1. TaskShape(t)'
      <4>1. calls'[t].op = op /\ calls'[t] # NoCall
        BY <1>2 DEF NoCall
      <4>. QED BY <1>1, <1>2, <4>1 DEF TaskShape, Waiting
    <3>2. ASSUME NEW u \in Tasks, u # t PROVE TaskShape(u)'
      BY <1>2, <3>2 DEF IInv, Shape, TaskShape, Waiting
    <3>. QED BY <3>1, <3>2
  <2>2. \A c \in Callers : StepOf(c, "sent")' => pool' = {[by |-> c, op |-> calls'[c].op]}
    BY <1>1, TasksAreCallers DEF IInv, Shape, StepOf
  <2>. QED BY <1>1, <1>2, <2>1, <2>2, TasksAreCallers DEF IInv, Shape, Waiting, Step, NoCall
<1>4. /\ Owed("harvest")' = Owed("harvest") /\ Owed("recycle")' = Owed("recycle")
      /\ Expected' = Expected
  BY <1>1, <1>2, TasksAreCallers DEF Owed, Expected, StepOf
<1>. QED BY <1>1, <1>3, <1>4, LessIsCovered, Numbers DEF IInv

\* A task is over, by an error or by its end: nothing more is owed by it.
LEMMA TaskEnds ==
    ASSUME IInv, NEW t \in Tasks, calls' = [calls EXCEPT ![t] = NoCall],
           yield' = [yield EXCEPT ![t] = NoYield],
           UNCHANGED <<pool, treasury, lpFees, received, booked>>
    PROVE  IInv'
<1>1. /\ calls'[t] = NoCall /\ yield'[t] = NoYield
      /\ \A u \in Tasks : u # t => calls'[u] = calls[u] /\ yield'[u] = yield[u]
      /\ yield' \in [Tasks -> [n : Nat, taken : BOOLEAN]]
  BY TasksAreCallers DEF IInv, Shape, NoYield
<1>2. Shape'
  <2>1. \A u \in Tasks : TaskShape(u)'
    BY <1>1, TasksAreCallers DEF IInv, Shape, TaskShape, Waiting, NoYield
  <2>2. \A c \in Callers : StepOf(c, "sent")' => pool' = {[by |-> c, op |-> calls'[c].op]}
    BY TasksAreCallers DEF IInv, Shape, StepOf, NoCall
  <2>. QED BY <1>1, <2>1, <2>2, TasksAreCallers DEF IInv, Shape, Waiting
<1>3. /\ Owed("harvest")' <= Owed("harvest") /\ Owed("recycle")' <= Owed("recycle")
      /\ Expected' <= Expected
  BY <1>1, TasksAreCallers DEF IInv, Shape, Owed, Expected, StepOf, NoYield, NoCall, Tasks
<1>. QED BY <1>2, <1>3, LessIsCovered DEF IInv

LEMMA TaskStepKeeps ==
    ASSUME IInv, NEW t \in Tasks, TaskStep(t) PROVE IInv'
<1>1. ASSUME TaskFails(t) \/ EndTask(t) PROVE IInv'
  BY <1>1, TaskEnds DEF TaskFails, EndTask, Throw, Return
<1>. QED BY <1>1, StartTaskKeeps, TakeYieldKeeps, BookYieldKeeps DEF TaskStep
-----------------------------------------------------------------------------
(* The calls, whoever makes them. *)

\* A call that is not a task's ends.
LEMMA EndOtherKeeps ==
    ASSUME IInv, NEW c \in Callers \ Tasks, EndOther(c) PROVE IInv'
<1>1. /\ calls' = [calls EXCEPT ![c] = NoCall]
      /\ UNCHANGED <<pool, yield, treasury, lpFees, received, booked>>
  BY DEF EndOther, Return, Throw, keeperVars
<1>2. \A t \in Tasks : calls'[t] = calls[t]
  BY <1>1, TasksAreCallers DEF IInv, Shape
<1>3. Shape'
  <2>1. \A t \in Tasks : TaskShape(t)'
    BY <1>1, <1>2, TasksAreCallers DEF IInv, Shape, TaskShape, Waiting
  <2>2. \A d \in Callers : StepOf(d, "sent")' => pool' = {[by |-> d, op |-> calls'[d].op]}
    BY <1>1 DEF IInv, Shape, StepOf, NoCall
  <2>. QED BY <1>1, <2>1, <2>2 DEF IInv, Shape, Waiting
<1>4. /\ Owed("harvest")' = Owed("harvest") /\ Owed("recycle")' = Owed("recycle")
      /\ Expected' = Expected
  BY <1>1, <1>2, TasksAreCallers DEF Owed, Expected, StepOf
<1>. QED BY <1>1, <1>3, <1>4, LessIsCovered, Numbers DEF IInv

\* The account has answered a call: what is owed and expected does not tell the two apart.
LEMMA BuildCallKeeps ==
    ASSUME IInv, NEW c \in Callers, BuildCall(c) PROVE IInv'
<1>1. /\ calls[c].step = "asked" /\ calls[c] = [step |-> "asked", op |-> calls[c].op]
      /\ UNCHANGED <<pool, yield, treasury, lpFees, received, booked>>
  BY DEF BuildCall, Build, StepOf, keeperVars, IInv, Shape, NoCall
<1>2. /\ calls' = [calls EXCEPT ![c] = [step |-> "built", op |-> calls[c].op]]
      /\ Waiting(c)
  <2>1. [calls[c] EXCEPT !.step = "built"] = [step |-> "built", op |-> calls[c].op]
    BY <1>1
  <2>2. calls' = [calls EXCEPT ![c] = [calls[c] EXCEPT !.step = "built"]]
    BY DEF BuildCall, Build
  <2>3. calls[c] # NoCall
    BY <1>1 DEF NoCall
  <2>. QED BY <2>1, <2>2, <2>3 DEF Waiting
<1>3. /\ calls'[c] = [step |-> "built", op |-> calls[c].op]
      /\ \A d \in Callers : d # c => calls'[d] = calls[d]
  BY <1>2 DEF IInv, Shape
<1>4. Waiting(c)' /\ \A d \in Callers : Waiting(d)' <=> Waiting(d)
  BY <1>2, <1>3 DEF Waiting, NoCall
<1>5. Shape'
  <2>1. \A t \in Tasks : TaskShape(t)'
    <3>1. ASSUME NEW t \in Tasks, t # c PROVE TaskShape(t)'
      BY <1>1, <1>3, <3>1, TasksAreCallers DEF IInv, Shape, TaskShape, Waiting
    <3>2. ASSUME c \in Tasks PROVE TaskShape(c)'
      <4>1. calls'[c].op = calls[c].op /\ TaskShape(c)
        BY <1>3, <3>2 DEF IInv, Shape
      <4>. QED BY <1>1, <1>2, <1>4, <4>1 DEF TaskShape
    <3>. QED BY <3>1, <3>2
  <2>2. \A d \in Callers : StepOf(d, "sent")' => pool' = {[by |-> d, op |-> calls'[d].op]}
    BY <1>1, <1>3 DEF IInv, Shape, StepOf
  <2>3. \A d \in Callers : \/ calls'[d] = NoCall
                           \/ /\ calls'[d] = [step |-> calls'[d].step, op |-> calls'[d].op]
                              /\ calls'[d].step \in Step
    BY <1>3 DEF IInv, Shape, Step
  <2>4. \A d \in Callers \ Tasks : Waiting(d)' => calls'[d].op.is \in {"rate", "bump_instance"}
    BY <1>3, <1>2, <1>4 DEF IInv, Shape
  <2>. QED BY <1>1, <1>2, <2>1, <2>2, <2>3, <2>4 DEF IInv, Shape
<1>6. /\ Owed("harvest")' = Owed("harvest") /\ Owed("recycle")' = Owed("recycle")
      /\ Expected' = Expected
  <2>1. \A t \in Tasks : /\ calls'[t].step = "done" <=> calls[t].step = "done"
                         /\ calls'[t].step \in {"asked", "built", "stale"} <=>
                               calls[t].step \in {"asked", "built", "stale"}
    BY <1>1, <1>3, TasksAreCallers
  <2>. QED BY <1>1, <2>1, TasksAreCallers DEF Owed, Expected, StepOf
<1>. QED BY <1>1, <1>5, <1>6, LessIsCovered, Numbers DEF IInv

\* What a call's step becomes when its transaction is sent or refused.
LEMMA SendCallKeeps ==
    ASSUME IInv, NEW c \in Callers, SendCall(c) PROVE IInv'
<1>. DEFINE tx == [by |-> c, op |-> calls[c].op]
<1>1. /\ calls[c].step \in {"built", "stale"} /\ Waiting(c)
      /\ UNCHANGED <<yield, treasury, lpFees, received, booked>>
      /\ calls[c] = [step |-> calls[c].step, op |-> calls[c].op]
  BY DEF SendCall, Send, keeperVars, IInv, Shape, Waiting
<1>2. \/ /\ pool = {} /\ pool' = {tx}
         /\ calls' = [calls EXCEPT ![c] = [step |-> "sent", op |-> calls[c].op]]
      \/ /\ pool' = pool
         /\ calls' = [calls EXCEPT ![c] = [step |-> "failed", op |-> calls[c].op]]
  BY <1>1 DEF SendCall, Send
<1>3. PICK step \in {"sent", "failed"} :
         /\ calls' = [calls EXCEPT ![c] = [step |-> step, op |-> calls[c].op]]
         /\ step = "sent" => pool = {} /\ pool' = {tx}
         /\ step = "failed" => pool' = pool
  BY <1>2
<1>4. /\ calls'[c] = [step |-> step, op |-> calls[c].op]
      /\ \A d \in Callers : d # c => calls'[d] = calls[d]
  BY <1>3 DEF IInv, Shape
<1>5. c \in Tasks =>
        /\ yield[c].taken => calls[c].op = [is |-> "add_rewards", n |-> yield[c].n]
        /\ ~yield[c].taken => calls[c].op = Taking(c, yield[c].n)
        /\ yield[c].n \in Nat
  BY <1>1 DEF IInv, Shape, TaskShape
<1>6. tx.op.is = "add_rewards" \/ tx.op.is = "withdraw_fees" => c \in Tasks /\ tx.op.n = yield[c].n
  <2>1. c \notin Tasks => tx.op.is \in {"rate", "bump_instance"}
    BY <1>1 DEF IInv, Shape
  <2>. QED BY <1>5, <2>1 DEF Taking
<1>7. Shape'
  <2>1. \A t \in Tasks : TaskShape(t)'
    <3>1. ASSUME NEW t \in Tasks, t # c PROVE TaskShape(t)'
      BY <1>1, <1>4, <3>1, TasksAreCallers DEF IInv, Shape, TaskShape, Waiting
    <3>2. ASSUME c \in Tasks PROVE TaskShape(c)'
      <4>1. Waiting(c)' /\ calls'[c].op = calls[c].op
        BY <1>4 DEF Waiting, NoCall
      <4>2. yield[c].n = 0 => ~yield[c].taken /\ ~Waiting(c)
        BY <3>2 DEF IInv, Shape, TaskShape
      <4>. QED BY <1>1, <1>5, <3>2, <4>1, <4>2 DEF TaskShape
    <3>. QED BY <3>1, <3>2
  <2>2. \A d \in Callers : StepOf(d, "sent")' => pool' = {[by |-> d, op |-> calls'[d].op]}
    BY <1>3, <1>4 DEF IInv, Shape, StepOf
  <2>3. \A x \in pool' : x.op.is = "add_rewards" \/ x.op.is = "withdraw_fees" => x.op.n \in Nat
    BY <1>3, <1>5, <1>6 DEF IInv, Shape
  <2>4. \A c1 \in Callers : \/ calls'[c1] = NoCall
                            \/ /\ calls'[c1] = [step |-> calls'[c1].step, op |-> calls'[c1].op]
                               /\ calls'[c1].step \in Step
    BY <1>4 DEF IInv, Shape, Step
  <2>5. \A c1 \in Callers \ Tasks : Waiting(c1)' => calls'[c1].op.is \in {"rate", "bump_instance"}
    BY <1>1, <1>4 DEF IInv, Shape, Waiting
  <2>7. \A x \in pool' : x.op.is \in Kinds
    <3>1. tx.op.is \in Kinds
      BY <1>1, <1>5 DEF IInv, Shape, Taking, Kinds
    <3>. QED BY <1>3, <3>1 DEF IInv, Shape
  <2>6. calls' = [c1 \in Callers |-> calls'[c1]] /\ \A tx1, tx2 \in pool' : tx1 = tx2
    BY <1>3 DEF IInv, Shape
  <2>. QED BY <1>1, <2>1, <2>2, <2>3, <2>4, <2>5, <2>6, <2>7 DEF IInv, Shape
<1>8. Expected' = Expected
  BY <1>1, <1>4, TasksAreCallers DEF Expected, StepOf
<1>9. CASE step = "failed"
  <2>1. Owed("harvest")' <= Owed("harvest") /\ Owed("recycle")' <= Owed("recycle")
    BY <1>1, <1>4, <1>9, TasksAreCallers, Numbers DEF Owed, StepOf, IInv, Shape
  <2>. QED BY <1>1, <1>3, <1>7, <1>8, <1>9, <2>1, LessIsCovered, Numbers DEF IInv
<1>10. CASE step = "sent"
  <2>1. OwedBy(tx) + Owed("harvest")' + Owed("recycle")' = Owed("harvest") + Owed("recycle")
    <3>1. CASE c \notin Tasks
      BY <1>1, <1>4, <1>6, <3>1, TasksAreCallers, Numbers DEF Owed, OwedBy, StepOf, IInv
    <3>2. CASE c \in Tasks /\ yield[c].taken
      BY <1>1, <1>4, <1>5, <1>10, <3>2, TasksAreCallers DEF Owed, OwedBy, StepOf, Tasks, IInv, Shape
    <3>3. CASE c \in Tasks /\ ~yield[c].taken
      BY <1>1, <1>4, <1>5, <1>10, <3>3, TasksAreCallers DEF Owed, OwedBy, StepOf, Tasks, Taking, IInv, Shape
    <3>. QED BY <3>1, <3>2, <3>3
  <2>2. OwedBy(tx) \in Nat
    BY <1>5, <1>6 DEF OwedBy
  <2>3. PICK m \in Nat : m = OwedBy(tx)
    BY <2>2
  <2>4. Covers(m)' /\ Covers(0)'
    BY <1>1, <1>7, <1>8, <2>1, <2>3, Numbers, NumbersNext DEF Covers, IInv, Covered
  <2>5. ASSUME NEW x \in pool' PROVE OwedBy(x) = m
    BY <1>3, <1>10, <2>3, <2>5
  <2>6. \A x \in pool' : Covers(OwedBy(x))'
    BY <2>4, <2>5
  <2>. QED BY <1>7, <2>4, <2>6 DEF IInv, Covered
<1>. QED BY <1>9, <1>10

\* The pool empties and calls only change their steps, of which those that were neither
\* sent nor built stay what they are.
LEMMA PoolEmpties ==
    ASSUME IInv, pool' = {}, UNCHANGED yield,
           calls' = [c \in Callers |-> calls'[c]],
           \A c \in Callers :
              \/ calls'[c] = calls[c] /\ ~StepOf(c, "sent")
              \/ /\ calls'[c] = [step |-> calls'[c].step, op |-> calls[c].op]
                 /\ \/ StepOf(c, "sent") /\ calls'[c].step \in {"done", "failed"}
                    \/ StepOf(c, "built") /\ calls'[c].step = "stale",
           treasury' \in Int, lpFees' \in Nat, received' \in Int, booked' \in Int
    PROVE  Shape'
<1>1. ASSUME NEW c \in Callers
      PROVE  /\ Waiting(c)' <=> Waiting(c)
             /\ Waiting(c) => calls'[c].op = calls[c].op
             /\ ~StepOf(c, "sent")'
             /\ \/ calls'[c] = NoCall
                \/ /\ calls'[c] = [step |-> calls'[c].step, op |-> calls'[c].op]
                   /\ calls'[c].step \in Step
  <2>1. CASE calls'[c] = calls[c] /\ ~StepOf(c, "sent")
    BY <2>1 DEF IInv, Shape, Waiting, StepOf
  <2>2. CASE /\ calls'[c] = [step |-> calls'[c].step, op |-> calls[c].op]
             /\ calls'[c].step \in {"done", "failed", "stale"}
             /\ calls[c].step \in {"sent", "built"}
    <3>1. calls[c] # NoCall /\ calls'[c] # NoCall
      BY <2>2 DEF NoCall
    <3>. QED BY <2>2, <3>1 DEF Waiting, StepOf, Step
  <2>. QED BY <2>1, <2>2 DEF StepOf
<1>2. \A t \in Tasks : TaskShape(t)'
  BY <1>1, TasksAreCallers DEF IInv, Shape, TaskShape
<1>. QED BY <1>1, <1>2 DEF IInv, Shape

LEMMA DropCallKeeps ==
    ASSUME IInv, DropCall PROVE IInv'
<1>1. PICK tx \in pool : RunOut(tx)
  BY DEF DropCall
<1>2. /\ pool' = {}
      /\ UNCHANGED <<yield, treasury, lpFees, received, booked>>
      /\ calls' = [c \in Callers |->
                     IF c = tx.by /\ StepOf(c, "sent") THEN [calls[c] EXCEPT !.step = "failed"]
                                                      ELSE calls[c]]
  BY <1>1 DEF DropCall, RunOut, keeperVars
<1>3. ASSUME NEW c \in Callers
      PROVE  \/ calls'[c] = calls[c] /\ ~StepOf(c, "sent")
             \/ /\ StepOf(c, "sent")
                /\ calls'[c] = [step |-> "failed", op |-> calls[c].op]
  <2>1. StepOf(c, "sent") => tx.by = c /\ calls[c] = [step |-> "sent", op |-> calls[c].op]
    BY <1>1 DEF IInv, Shape, StepOf, NoCall
  <2>. QED BY <1>2, <2>1
<1>4. Shape'
  BY <1>2, <1>3, PoolEmpties DEF IInv, Shape
<1>5. /\ Owed("harvest")' = Owed("harvest") /\ Owed("recycle")' = Owed("recycle")
      /\ Expected' = Expected
  BY <1>2, <1>3, TasksAreCallers DEF Owed, Expected, StepOf
<1>. QED BY <1>2, <1>4, <1>5, LessIsCovered, Numbers DEF IInv

\* What a transaction does with the money.
LEMMA EffectOnMoney ==
    ASSUME Shape, NEW op, op.is \in Kinds, Effect(op),
           op.is = "add_rewards" \/ op.is = "withdraw_fees" => op.n \in Nat
    PROVE  /\ treasury' \in Int /\ lpFees' \in Nat /\ received' \in Int /\ booked' \in Int
           /\ IF op.is = "add_rewards"
              THEN booked' = booked + op.n /\ UNCHANGED <<received, lpFees>>
              ELSE UNCHANGED booked
           /\ op.is = "withdraw_fees" => received' = received + op.n /\ UNCHANGED lpFees
           /\ op.is = "collect_protocol_fees" => received' = received + lpFees /\ lpFees' = 0
           /\ op.is \in {"rate", "bump_instance"} => UNCHANGED <<received, lpFees>>
<1>1. CASE op.is = "add_rewards"
  <2>1. ((op.n * FeeBps) \div BpsDenominator) \in Int
    BY <1>1, KeeperAssumption
  <2>. QED BY <1>1, <2>1 DEF Effect, Rewarded, Shape
<1>2. CASE op.is = "withdraw_fees"
  BY <1>2 DEF Effect, FeesWithdrawn, Shape
<1>3. CASE op.is = "collect_protocol_fees"
  BY <1>3 DEF Effect, FeesCollected, Shape
<1>4. CASE op.is \in {"rate", "bump_instance"}
  BY <1>4 DEF Effect, Shape
<1>. QED BY <1>1, <1>2, <1>3, <1>4 DEF Kinds

LEMMA IncludeCallKeeps ==
    ASSUME IInv, NEW tx \in pool, IncludeCall(tx) PROVE IInv'
<1>1. /\ pool' = {} /\ UNCHANGED yield /\ Effect(tx.op)
      /\ calls' = [c \in Callers |->
                     CASE c = tx.by /\ StepOf(c, "sent") -> [calls[c] EXCEPT !.step = "done"]
                       [] StepOf(c, "built") -> [calls[c] EXCEPT !.step = "stale"]
                       [] OTHER -> calls[c]]
  BY DEF IncludeCall, Include
<1>2. ASSUME NEW c \in Callers
      PROVE  /\ StepOf(c, "sent") => /\ c = tx.by /\ calls[c].op = tx.op
                                     /\ calls'[c] = [step |-> "done", op |-> calls[c].op]
             /\ StepOf(c, "built") => calls'[c] = [step |-> "stale", op |-> calls[c].op]
             /\ ~StepOf(c, "sent") /\ ~StepOf(c, "built") => calls'[c] = calls[c]
  <2>1. StepOf(c, "sent") => tx = [by |-> c, op |-> calls[c].op]
    BY DEF IInv, Shape
  <2>2. StepOf(c, "sent") \/ StepOf(c, "built") =>
           calls[c] = [step |-> calls[c].step, op |-> calls[c].op]
    BY DEF IInv, Shape, StepOf, NoCall
  <2>3. ~(StepOf(c, "sent") /\ StepOf(c, "built"))
    BY DEF StepOf
  <2>. QED BY <1>1, <2>1, <2>2, <2>3
<1>3. /\ treasury' \in Int /\ lpFees' \in Nat /\ received' \in Int /\ booked' \in Int
      /\ tx.op.is = "add_rewards" =>
            booked' = booked + tx.op.n /\ UNCHANGED <<received, lpFees>>
      /\ tx.op.is # "add_rewards" => UNCHANGED booked
      /\ tx.op.is = "withdraw_fees" => received' = received + tx.op.n /\ UNCHANGED lpFees
      /\ tx.op.is = "collect_protocol_fees" => received' = received + lpFees /\ lpFees' = 0
      /\ tx.op.is \in {"rate", "bump_instance"} => UNCHANGED <<received, lpFees>>
  <2>1. Shape /\ tx.op.is \in Kinds
        /\ (tx.op.is = "add_rewards" \/ tx.op.is = "withdraw_fees" => tx.op.n \in Nat)
    BY DEF IInv, Shape
  <2>. QED BY <1>1, <2>1, EffectOnMoney
<1>4. Shape'
  <2>1. ASSUME NEW c \in Callers
        PROVE  \/ calls'[c] = calls[c] /\ ~StepOf(c, "sent")
               \/ /\ calls'[c] = [step |-> calls'[c].step, op |-> calls[c].op]
                  /\ \/ StepOf(c, "sent") /\ calls'[c].step \in {"done", "failed"}
                     \/ StepOf(c, "built") /\ calls'[c].step = "stale"
    <3>1. CASE StepOf(c, "sent")
      <4>1. calls'[c] = [step |-> "done", op |-> calls[c].op]
        BY <1>2, <3>1
      <4>2. calls'[c].step = "done"
        BY <4>1
      <4>. QED BY <3>1, <4>1, <4>2
    <3>2. CASE StepOf(c, "built")
      <4>1. calls'[c] = [step |-> "stale", op |-> calls[c].op]
        BY <1>2, <3>2
      <4>2. calls'[c].step = "stale"
        BY <4>1
      <4>. QED BY <3>2, <4>1, <4>2
    <3>3. CASE ~StepOf(c, "sent") /\ ~StepOf(c, "built")
      BY <1>2, <3>3
    <3>. QED BY <3>1, <3>2, <3>3
  <2>2. calls' = [c \in Callers |-> calls'[c]]
    BY <1>1
  <2>. QED BY <1>1, <1>3, <2>1, <2>2, PoolEmpties
<1>5. \A t \in Tasks : ~StepOf(t, "sent") \/ yield[t].taken =>
                         Owed(t)' = Owed(t)
  BY <1>1, <1>2, TasksAreCallers DEF Owed, StepOf
<1>6. ~StepOf("harvest", "sent") \/ yield["harvest"].taken => Expected' = Expected
  BY <1>1, <1>2, TasksAreCallers DEF Expected, StepOf
<1>7. Covers(0) /\ Covers(OwedBy(tx)) /\ OwedBy(tx) \in Nat
  BY Numbers DEF IInv, Covered
<1>8. CASE \A t \in Tasks : ~StepOf(t, "sent") \/ yield[t].taken
  <2>1. /\ Owed("harvest")' = Owed("harvest") /\ Owed("recycle")' = Owed("recycle")
        /\ Expected' = Expected
    BY <1>5, <1>6, <1>8, TasksAreCallers
  <2>2. tx.op.is \in Kinds /\ (tx.op.is = "withdraw_fees" => tx.op.n \in Nat)
    BY DEF IInv, Shape
  <2>3. Covers(0)'
    BY <1>3, <1>7, <2>1, <2>2, Numbers DEF Covers, OwedBy, Kinds, IInv
  <2>. QED BY <1>1, <1>4, <2>3 DEF IInv, Covered
<1>9. CASE StepOf("harvest", "sent") /\ ~yield["harvest"].taken
  <2>1. tx.op = [is |-> "collect_protocol_fees"] /\ ~StepOf("recycle", "sent")
    <3>1. Waiting("harvest")
      BY <1>9 DEF StepOf, Waiting, NoCall
    <3>2. "harvest" \in Callers /\ StepOf("harvest", "sent") => "harvest" = tx.by
      BY <1>2, TasksAreCallers
    <3>3. ~StepOf("recycle", "sent")
      BY <1>2, <1>9, <3>2, TasksAreCallers
    <3>. QED BY <1>2, <1>9, <3>1, <3>3, TasksAreCallers DEF IInv, Shape, TaskShape, Taking
  <2>2. /\ Owed("harvest")' = yield["harvest"].n /\ Owed("harvest") = 0
        /\ Expected = yield["harvest"].n /\ Expected' = 0
        /\ Owed("recycle")' = Owed("recycle")
    BY <1>1, <1>2, <1>5, <1>9, <2>1, TasksAreCallers DEF Owed, Expected, StepOf
  <2>3. Covers(0)'
    BY <1>3, <1>7, <2>1, <2>2, Numbers DEF Covers, IInv
  <2>. QED BY <1>1, <1>4, <2>3 DEF IInv, Covered
<1>10. CASE StepOf("recycle", "sent") /\ ~yield["recycle"].taken
  <2>1. /\ tx.op = [is |-> "withdraw_fees", n |-> yield["recycle"].n]
        /\ ~StepOf("harvest", "sent")
    <3>1. Waiting("recycle")
      BY <1>10 DEF StepOf, Waiting, NoCall
    <3>2. "recycle" \in Callers /\ StepOf("recycle", "sent") => "recycle" = tx.by
      BY <1>2, TasksAreCallers
    <3>3. ~StepOf("harvest", "sent")
      BY <1>2, <1>10, <3>2, TasksAreCallers
    <3>. QED BY <1>2, <1>10, <3>1, <3>3, TasksAreCallers DEF IInv, Shape, TaskShape, Taking
  <2>2. /\ Owed("recycle")' = yield["recycle"].n /\ Owed("recycle") = 0
        /\ Expected' = Expected /\ Owed("harvest")' = Owed("harvest")
    BY <1>1, <1>2, <1>5, <1>6, <1>10, <2>1, TasksAreCallers DEF Owed, StepOf
  <2>3. Covers(0)'
    BY <1>3, <1>7, <2>1, <2>2, Numbers DEF Covers, IInv, Shape
  <2>. QED BY <1>1, <1>4, <2>3 DEF IInv, Covered
<1>. QED BY <1>8, <1>9, <1>10 DEF Tasks

LEMMA RestartKeeps == ASSUME IInv, Restart PROVE IInv'
<1>1. /\ calls' = [c \in Callers |-> NoCall]
      /\ yield' = [t \in Tasks |-> NoYield]
      /\ UNCHANGED <<pool, treasury, lpFees, received, booked>>
  BY DEF Restart, ForgetCalls
<1>2. Shape'
  <2>1. \A t \in Tasks : TaskShape(t)'
    BY <1>1, TasksAreCallers DEF TaskShape, Waiting, NoYield
  <2>. QED BY <1>1, <2>1 DEF IInv, Shape, Waiting, StepOf, NoCall, NoYield
<1>3. Owed("harvest")' = 0 /\ Owed("recycle")' = 0 /\ Expected' = 0
  BY <1>1, TasksAreCallers DEF Owed, Expected, NoYield, NoCall, StepOf
<1>. QED BY <1>1, <1>2, <1>3, LessIsCovered, Numbers DEF IInv
-----------------------------------------------------------------------------
LEMMA NextKeeps == ASSUME IInv, [Next]_vars PROVE IInv'
<1>. USE DEF operatorVars, books, readerVars, managerVars, keeperVars
<1>1. ASSUME NEW x \in Deposits, Deposit(x) /\ UNCHANGED keeperVars PROVE IInv'
  <2>1. UNCHANGED <<calls, pool, yield, treasury, lpFees, received, booked>>
    BY <1>1 DEF Deposit
  <2>. QED BY <2>1, QuietSteps DEF IInv, Shape
<1>2. ASSUME Swap PROVE IInv'
  BY <1>2, QuietSteps DEF Swap, IInv, Shape
<1>3. ASSUME ReaderStep, UNCHANGED keeperVars PROVE IInv'
  <2>1. ASSUME NEW s \in Syncs, NEW rate, Begin(s, [is |-> "rate", rate |-> rate]), UNCHANGED pool
        PROVE  IInv'
    <3>1. s \in Callers \ Tasks
      BY TasksAreCallers
    <3>2. [is |-> "rate", rate |-> rate].is \in {"rate", "bump_instance"}
      OBVIOUS
    <3>3. UNCHANGED <<pool, yield, treasury, lpFees, received, booked>>
      BY <1>3, <2>1
    <3>. QED BY <2>1, <3>1, <3>2, <3>3, OtherBegins
  <2>2. ASSUME UNCHANGED <<calls, pool>> PROVE IInv'
    BY <1>3, <2>2, QuietSteps DEF IInv, Shape
  <2>3. ASSUME NEW s \in Syncs, TakeSnapshot(s) PROVE IInv'
    BY <2>1, <2>2, <2>3 DEF TakeSnapshot, SyncRate
  <2>4. ASSUME ~(\E s \in Syncs : TakeSnapshot(s)) PROVE UNCHANGED <<calls, pool>>
    BY <1>3, <2>4 DEF ReaderStep, ReadBooks, ReadFails, TakeMetrics, Fault
  <2>. QED BY <2>2, <2>3, <2>4
<1>4. ASSUME NEW r \in Refreshers, ManagerStep(r), UNCHANGED keeperVars PROVE IInv'
  <2>1. UNCHANGED <<calls, pool>>
    BY <1>4 DEF ManagerStep, StartRefresh, EndWait, ReadRate, EndRefresh, RefreshFails, Fault
  <2>. QED BY <1>4, <2>1, QuietSteps DEF IInv, Shape
<1>5. ASSUME Touch PROVE IInv'
  BY <1>5, OtherBegins, TasksAreCallers DEF Touch
<1>6. ASSUME NEW c \in Callers, CallStep(c) PROVE IInv'
  BY <1>6, BuildCallKeeps, SendCallKeeps, EndOtherKeeps DEF CallStep
<1>7. ASSUME UNCHANGED vars PROVE IInv'
  BY <1>7, QuietSteps DEF vars, IInv, Shape
<1>. QED BY <1>1, <1>2, <1>3, <1>4, <1>5, <1>6, <1>7, TaskStepKeeps, IncludeCallKeeps,
            DropCallKeeps, RestartKeeps DEF Next
-----------------------------------------------------------------------------
\* However the calls of the keeper's tasks fail, end late or are forgotten by a restart,
\* it never books more rewards than it has taken out of the contracts, for any number of
\* faults, fees, updates of the rate and deposits.
THEOREM NeverBookedTwice == Spec => []NothingBookedTwice
<1>1. IInv => NothingBookedTwice
  BY Numbers DEF IInv, Covered, Covers, NothingBookedTwice
<1>. QED BY <1>1, InitHolds, NextKeeps, PTL DEF Spec

-----------------------------------------------------------------------------
(* Types.  That the treasury and the rates stay natural numbers needs that *)
(* nobody divides by zero, and that a withdrawal in the pool still finds   *)
(* its amount.                                                             *)

Payable(tx) == tx.op.is = "withdraw_fees" => tx.op.n <= treasury

TInv ==
    /\ TypeOK
    /\ staked # 0 /\ supply # 0
    /\ \A tx \in pool : Payable(tx)

\* The part of TypeOK that the reward engine, the cron and the rate manager keep.
RatesTyped ==
    /\ reading \in [Readers -> Pair]
    /\ lastSnapshot \in Pair /\ metrics \in Pair
    /\ services \in Mixes /\ cached \in Nat /\ refreshing \in BOOLEAN
    /\ refreshes \in [Refreshers -> [at : {"none", "waiting", "asking", "got"}, rate : Nat]]

BooksTyped == staked \in Nat \ {0} /\ supply \in Nat \ {0} /\ lendingRate \in Nat \ {0}

MoneyTyped ==
    /\ treasury \in Nat /\ lpFees \in Nat /\ received \in Nat /\ booked \in Nat
    /\ swapped \in 0..MaxFees /\ touches \in 0..MaxTouches

TasksTyped == yield \in [Tasks -> [n : Nat, taken : BOOLEAN]]

CallsTyped ==
    /\ calls \in [Callers -> Call(Ops)]
    /\ pool \subseteq Tx(Ops)
    /\ faults \in 0..MaxFaults

LEMMA TypesByPart ==
    TInv <=> /\ RatesTyped /\ BooksTyped /\ MoneyTyped /\ TasksTyped /\ CallsTyped
             /\ \A tx \in pool : Payable(tx)
BY DEF TInv, TypeOK, RateTypeOK, OperatorTypeOK, RatesTyped, BooksTyped, MoneyTyped,
       TasksTyped, CallsTyped

LEMMA TypesByPartNext ==
    TInv' <=> /\ RatesTyped' /\ BooksTyped' /\ MoneyTyped' /\ TasksTyped' /\ CallsTyped'
              /\ \A tx \in pool' : Payable(tx)'
BY DEF TInv, TypeOK, RateTypeOK, OperatorTypeOK, RatesTyped, BooksTyped, MoneyTyped,
       TasksTyped, CallsTyped

LEMMA InitTyped == Init => TInv
<1>. SUFFICES ASSUME Init PROVE TInv
  OBVIOUS
<1>. USE DEF Init, RateInit, OperatorInit
<1>1. RatesTyped
  BY DEF RatesTyped, Readers, Pair, NothingRead, Unread, NoRate, NoRefresh
<1>2. BooksTyped /\ MoneyTyped
  BY RateAssumption, KeeperAssumption DEF BooksTyped, MoneyTyped
<1>3. TasksTyped
  BY DEF TasksTyped, NoYield
<1>4. CallsTyped
  BY OperatorAssumption DEF CallsTyped, Call
<1>. QED BY <1>1, <1>2, <1>3, <1>4, TypesByPart

\* What add_rewards keeps for the treasury is a part of the rewards.
LEMMA FeeIsPart ==
    ASSUME NEW n \in Nat
    PROVE  LET fee == (n * FeeBps) \div BpsDenominator IN fee \in Nat /\ fee <= n
<1>. DEFINE fee == (n * FeeBps) \div BpsDenominator
<1>1. FeeBps \in Nat /\ BpsDenominator \in Nat \ {0} /\ FeeBps <= BpsDenominator
  BY KeeperAssumption
<1>2. PICK p \in Nat : p = n * FeeBps
  BY <1>1
<1>3. p <= n * BpsDenominator
  BY <1>1, <1>2
<1>4. (p \div BpsDenominator) \in Nat /\ (p \div BpsDenominator) * BpsDenominator <= p
  BY <1>1
<1>5. fee = p \div BpsDenominator
  BY <1>2
<1>6. \A a, b \in Nat : a > b => a * BpsDenominator > b * BpsDenominator
  BY <1>1
<1>7. fee <= n
  <2>. SUFFICES ASSUME fee > n PROVE FALSE
    BY <1>4, <1>5
  <2>1. PICK f \in Nat : f = fee /\ f * BpsDenominator <= p
    BY <1>4, <1>5
  <2>2. PICK x \in Nat : x = f * BpsDenominator
    BY <1>1, <2>1
  <2>3. PICK y \in Nat : y = n * BpsDenominator
    BY <1>1
  <2>. QED BY <1>3, <1>6, <2>1, <2>2, <2>3
<1>. QED BY <1>4, <1>5, <1>7

-----------------------------------------------------------------------------
\* RateOf and ContractRate are numbers when the books are.
LEMMA QuotientType ==
    ASSUME NEW a \in Nat, NEW b \in Nat, b # 0 PROVE (a \div b) \in Nat
OBVIOUS

LEMMA RateOfType ==
    ASSUME NEW pair \in Pair, pair.supply # 0 PROVE RateOf(pair) \in Nat
<1>1. pair.staked \in Nat /\ pair.supply \in Nat /\ RatePrecision \in Nat
  BY RateAssumption DEF Pair
<1>2. pair.staked * RatePrecision \in Nat
  BY <1>1
<1>3. 2 * pair.staked * RatePrecision + pair.supply \in Nat
  BY <1>1, <1>2
<1>4. 2 * pair.supply \in Nat /\ 2 * pair.supply # 0
  BY <1>1
<1>. QED BY <1>3, <1>4, QuotientType DEF RateOf

LEMMA ContractRateType == ASSUME BooksTyped PROVE ContractRate \in Nat
<1>1. staked * RatePrecision \in Nat /\ supply \in Nat /\ supply # 0
  BY RateAssumption DEF BooksTyped
<1>. QED BY <1>1, QuotientType DEF ContractRate

LEMMA DepositTyped ==
    ASSUME BooksTyped, NEW x \in Deposits, Deposit(x) PROVE BooksTyped'
<1>1. x \in Nat /\ staked \in Nat /\ staked # 0 /\ supply \in Nat /\ supply # 0
  BY RateAssumption DEF BooksTyped
<1>2. x * supply \in Nat
  BY <1>1
<1>3. ((x * supply) \div staked) \in Nat
  BY <1>1, <1>2, QuotientType
<1>. QED BY <1>1, <1>3 DEF Deposit, BooksTyped

\* Reading the books, snapshots and rows of metrics.
LEMMA ReadingTyped ==
    ASSUME RatesTyped, BooksTyped, ReaderStep
    PROVE  RatesTyped' /\ UNCHANGED <<books, lendingRate>>
<1>. USE DEF RatesTyped, managerVars
<1>1. \A r \in Readers : HasRead(r) => reading[r] \in Pair /\ reading[r].supply # 0
  BY DEF HasRead, Unread
<1>2. ASSUME NEW r \in Readers, ReadBooks(r) PROVE RatesTyped'
  <2>1. staked \in Nat /\ supply \in Nat
    BY DEF BooksTyped
  <2>2. reading' \in [Readers -> Pair]
    BY <1>2, <2>1 DEF ReadBooks, Pair
  <2>. QED BY <1>2, <2>2 DEF ReadBooks
<1>3. ASSUME NEW r \in Readers, ReadFails(r) PROVE RatesTyped'
  BY <1>3 DEF ReadFails, NothingRead, Pair, Unread
<1>4. ASSUME NEW s \in Syncs, TakeSnapshot(s) PROVE RatesTyped'
  <2>1. "rewards" \in Readers /\ HasRead("rewards")
    BY <1>4 DEF TakeSnapshot, Readers
  <2>2. reading["rewards"] \in Pair
    BY <1>1, <2>1
  <2>. QED BY <1>4, <2>2 DEF TakeSnapshot, NothingRead, Pair, Unread
<1>6. ASSUME TakeMetrics PROVE RatesTyped'
  BY <1>6 DEF TakeMetrics, NothingRead, Pair, Unread, Readers
<1>7. UNCHANGED <<books, lendingRate>>
  BY DEF ReaderStep, ReadBooks, ReadFails, TakeSnapshot, TakeMetrics
<1>. QED BY <1>2, <1>3, <1>4, <1>6, <1>7 DEF ReaderStep

\* The rate manager.
LEMMA ManagingTyped ==
    ASSUME RatesTyped, BooksTyped, NEW r \in Refreshers, ManagerStep(r)
    PROVE  RatesTyped' /\ UNCHANGED <<books, lendingRate, calls, pool>>
<1>. USE DEF RatesTyped, readerVars, operatorVars, Refresh
<1>1. ASSUME StartRefresh(r) PROVE RatesTyped'
  BY <1>1 DEF StartRefresh
<1>2. ASSUME EndWait(r) PROVE RatesTyped'
  BY <1>2 DEF EndWait
<1>3. ASSUME ReadRate(r) PROVE RatesTyped'
  BY <1>3, ContractRateType DEF ReadRate
<1>4. ASSUME EndRefresh(r) PROVE RatesTyped'
  BY <1>4 DEF EndRefresh, NoRefresh, NoRate
<1>5. ASSUME RefreshFails(r) PROVE RatesTyped'
  BY <1>5 DEF RefreshFails
<1>6. UNCHANGED <<books, lendingRate, calls, pool>>
  BY DEF ManagerStep, StartRefresh, EndWait, ReadRate, EndRefresh, RefreshFails, Fault
<1>. QED BY <1>1, <1>2, <1>3, <1>4, <1>5, <1>6 DEF ManagerStep

-----------------------------------------------------------------------------
(* The calls, and what their transactions do. *)

LEMMA CallType ==
    ASSUME CallsTyped, NEW c \in Callers, calls[c].step \in Step
    PROVE  calls[c] = [step |-> calls[c].step, op |-> calls[c].op] /\ calls[c].op \in Ops
<1>1. calls[c] \in Call(Ops) /\ NoCall.step = "none"
  BY DEF CallsTyped, NoCall
<1>2. calls[c] # NoCall
  BY <1>1 DEF Step
<1>3. calls[c] \in [step : Step, op : Ops]
  BY <1>1, <1>2 DEF Call
<1>. QED BY <1>3

LEMMA BeginTyped ==
    ASSUME CallsTyped, NEW c \in Callers, NEW op \in Ops, Begin(c, op), UNCHANGED <<pool, faults>>
    PROVE  CallsTyped'
<1>1. [step |-> "asked", op |-> op] \in Call(Ops)
  BY DEF Call, Step
<1>. QED BY <1>1 DEF Begin, CallsTyped

LEMMA FaultsCounted ==
    ASSUME faults \in 0..MaxFaults,
           UNCHANGED faults \/ (faults < MaxFaults /\ faults' = faults + 1)
    PROVE  faults' \in 0..MaxFaults
BY OperatorAssumption

LEMMA EndTyped ==
    ASSUME CallsTyped, NEW c \in Callers, Return(c) \/ Throw(c)
    PROVE  CallsTyped' /\ UNCHANGED pool
<1>1. calls' = [calls EXCEPT ![c] = NoCall] /\ UNCHANGED pool
  BY DEF Return, Throw
<1>2. faults' \in 0..MaxFaults
  BY FaultsCounted DEF Return, Throw, CallsTyped
<1>3. NoCall \in Call(Ops)
  BY DEF Call
<1>. QED BY <1>1, <1>2, <1>3 DEF CallsTyped

LEMMA BuildTyped ==
    ASSUME CallsTyped, NEW c \in Callers, BuildCall(c)
    PROVE  CallsTyped' /\ UNCHANGED <<pool, treasury>>
<1>1. /\ calls[c].step = "asked" /\ UNCHANGED <<pool, faults, treasury>>
      /\ calls' = [calls EXCEPT ![c].step = "built"]
  BY DEF BuildCall, Build, StepOf, keeperVars
<1>2. calls[c] = [step |-> "asked", op |-> calls[c].op] /\ calls[c].op \in Ops
  BY <1>1, CallType DEF Step
<1>3. calls' = [calls EXCEPT ![c] = [step |-> "built", op |-> calls[c].op]]
  <2>1. [calls[c] EXCEPT !.step = "built"] = [step |-> "built", op |-> calls[c].op]
    BY <1>2
  <2>. QED BY <1>1, <2>1
<1>4. [step |-> "built", op |-> calls[c].op] \in Call(Ops)
  BY <1>2 DEF Call, Step
<1>. QED BY <1>1, <1>3, <1>4 DEF CallsTyped

LEMMA SendTyped ==
    ASSUME CallsTyped, \A tx \in pool : Payable(tx), NEW c \in Callers, SendCall(c)
    PROVE  CallsTyped' /\ \A tx \in pool' : Payable(tx)'
<1>1. /\ calls[c].step \in {"built", "stale"} /\ UNCHANGED <<faults, treasury>>
      /\ \/ /\ pool' = {[by |-> c, op |-> calls[c].op]} /\ Succeeds(calls[c].op)
            /\ calls' = [calls EXCEPT ![c].step = "sent"]
         \/ pool' = pool /\ calls' = [calls EXCEPT ![c].step = "failed"]
  BY DEF SendCall, Send, keeperVars
<1>2. calls[c] = [step |-> calls[c].step, op |-> calls[c].op] /\ calls[c].op \in Ops
  BY <1>1, CallType DEF Step
<1>3. \A step \in Step : [calls[c] EXCEPT !.step = step] \in Call(Ops)
  <2>1. ASSUME NEW step \in Step PROVE [calls[c] EXCEPT !.step = step] = [step |-> step, op |-> calls[c].op]
    BY <1>2
  <2>. QED BY <1>2, <2>1 DEF Call
<1>4. calls' \in [Callers -> Call(Ops)]
  <2>1. \E step \in Step : calls' = [calls EXCEPT ![c] = [calls[c] EXCEPT !.step = step]]
    BY <1>1 DEF Step
  <2>. QED BY <1>3, <2>1 DEF CallsTyped
<1>5. CASE pool' = pool
  BY <1>1, <1>4, <1>5 DEF CallsTyped, Payable
<1>6. CASE pool' = {[by |-> c, op |-> calls[c].op]} /\ Succeeds(calls[c].op)
  <2>1. calls[c].op.is = "withdraw_fees" => calls[c].op.n <= treasury
    BY <1>6 DEF Succeeds
  <2>2. pool' \subseteq Tx(Ops)
    BY <1>2, <1>6 DEF Tx
  <2>. QED BY <1>1, <1>4, <1>6, <2>1, <2>2 DEF CallsTyped, Payable
<1>. QED BY <1>1, <1>5, <1>6

\* The pool empties, by an inclusion or when the time has run out.
LEMMA PoolEmptiesTyped ==
    ASSUME CallsTyped, NEW tx \in pool, NEW succeeds \in BOOLEAN, Include(tx, succeeds) \/ RunOut(tx)
    PROVE  CallsTyped' /\ pool' = {}
<1>1. pool' = {} /\ calls' = [c \in Callers |-> calls'[c]]
  BY DEF Include, RunOut
<1>2. faults' \in 0..MaxFaults
  BY FaultsCounted DEF Include, RunOut, CallsTyped
<1>3. ASSUME NEW c \in Callers PROVE calls'[c] \in Call(Ops)
  <2>1. ASSUME calls[c].step \in Step, NEW step \in Step
        PROVE  [calls[c] EXCEPT !.step = step] \in Call(Ops)
    <3>1. calls[c] = [step |-> calls[c].step, op |-> calls[c].op] /\ calls[c].op \in Ops
      BY <2>1, CallType
    <3>2. [calls[c] EXCEPT !.step = step] = [step |-> step, op |-> calls[c].op]
      BY <3>1
    <3>. QED BY <3>1, <3>2 DEF Call
  <2>2. calls[c] \in Call(Ops)
    BY DEF CallsTyped
  <2>3. \/ calls'[c] = calls[c]
        \/ calls[c].step \in Step /\ \E step \in Step : calls'[c] = [calls[c] EXCEPT !.step = step]
    <3>1. CASE Include(tx, succeeds)
      BY <3>1 DEF Include, StepOf, Step
    <3>2. CASE RunOut(tx)
      BY <3>2 DEF RunOut, StepOf, Step
    <3>. QED BY <3>1, <3>2
  <2>. QED BY <2>1, <2>2, <2>3
<1>. QED BY <1>1, <1>2, <1>3 DEF CallsTyped

LEMMA EffectTyped ==
    ASSUME BooksTyped, MoneyTyped, NEW op \in Ops, Effect(op),
           op.is = "withdraw_fees" => op.n <= treasury, UNCHANGED <<swapped, touches>>
    PROVE  BooksTyped' /\ MoneyTyped'
<1>. USE DEF BooksTyped, MoneyTyped, Effect, books
<1>1. CASE op \in [is : {"rate"}, rate : Nat \ {NoRate}]
  BY <1>1 DEF NoRate
<1>2. CASE op \in [is : {"add_rewards", "withdraw_fees"}, n : Nat]
  <2>1. op.n \in Nat /\ op.is \in {"add_rewards", "withdraw_fees"}
    BY <1>2
  <2>2. CASE op.is = "add_rewards"
    <3>1. PICK fee \in Nat : fee = (op.n * FeeBps) \div BpsDenominator /\ fee <= op.n
      BY <2>1, FeeIsPart
    <3>2. /\ treasury' = treasury + fee /\ staked' = staked + (op.n - fee)
          /\ booked' = booked + op.n
          /\ UNCHANGED <<supply, lendingRate, lpFees, received>>
      BY <2>2, <3>1 DEF Rewarded
    <3>. QED BY <2>1, <3>1, <3>2
  <2>3. CASE op.is = "withdraw_fees"
    BY <2>1, <2>3 DEF FeesWithdrawn
  <2>. QED BY <2>1, <2>2, <2>3
<1>3. CASE op \in [is : {"collect_protocol_fees", "bump_instance"}]
  <2>1. CASE op.is = "collect_protocol_fees"
    BY <2>1 DEF FeesCollected
  <2>2. CASE op.is = "bump_instance"
    BY <2>2
  <2>. QED BY <1>3, <2>1, <2>2
<1>. QED BY <1>1, <1>2, <1>3 DEF Ops

LEMMA IncludeCallTyped ==
    ASSUME TInv, NEW tx \in pool, IncludeCall(tx) PROVE TInv'
<1>. USE TypesByPart
<1>1. tx.op \in Ops
  BY DEF CallsTyped, Tx
<1>2. Effect(tx.op) /\ UNCHANGED <<readerVars, managerVars, swapped, touches, yield>>
  BY DEF IncludeCall
<1>3. CallsTyped' /\ pool' = {}
  BY PoolEmptiesTyped DEF IncludeCall
<1>4. BooksTyped' /\ MoneyTyped'
  BY <1>1, <1>2, EffectTyped DEF Payable
<1>5. RatesTyped' /\ TasksTyped'
  BY <1>2 DEF RatesTyped, TasksTyped, readerVars, managerVars
<1>. QED BY <1>3, <1>4, <1>5, TypesByPartNext

LEMMA TaskStepTyped ==
    ASSUME TInv, NEW t \in Tasks, TaskStep(t) PROVE TInv'
<1>. USE TypesByPart DEF readerVars, managerVars, keeperVars, books, operatorVars
<1>1. /\ UNCHANGED <<pool, books, lendingRate, readerVars, managerVars, treasury>>
      /\ UNCHANGED <<lpFees, swapped, received, booked, touches>>
  BY DEF TaskStep, StartTask, TakeYield, BookYield, TaskFails, EndTask, Throw, Return
<1>2. RatesTyped' /\ BooksTyped' /\ MoneyTyped' /\ \A tx \in pool' : Payable(tx)'
  BY <1>1 DEF RatesTyped, BooksTyped, MoneyTyped, Payable
<1>3. t \in Callers
  BY TasksAreCallers
<1>4. ASSUME StartTask(t) PROVE TasksTyped' /\ CallsTyped'
  <2>1. Available(t) \in Nat
    BY DEF Available, AccruedFees, Recyclable, MoneyTyped
  <2>. QED BY <1>4, <2>1 DEF StartTask, TasksTyped, CallsTyped
<1>5. ASSUME TakeYield(t) PROVE TasksTyped' /\ CallsTyped'
  <2>1. Taking(t, yield[t].n) \in Ops
    BY DEF Taking, Ops, TasksTyped
  <2>2. Begin(t, Taking(t, yield[t].n)) /\ UNCHANGED <<pool, faults, yield>>
    BY <1>5 DEF TakeYield
  <2>. QED BY <1>3, <2>1, <2>2, BeginTyped DEF TasksTyped
<1>6. ASSUME BookYield(t) PROVE TasksTyped' /\ CallsTyped'
  <2>1. [is |-> "add_rewards", n |-> yield[t].n] \in Ops
    BY DEF Ops, TasksTyped
  <2>2. Begin(t, [is |-> "add_rewards", n |-> yield[t].n]) /\ UNCHANGED <<pool, faults>>
    BY <1>6 DEF BookYield
  <2>3. TasksTyped'
    BY <1>6 DEF BookYield, TasksTyped
  <2>. QED BY <1>3, <2>1, <2>2, <2>3, BeginTyped
<1>7. ASSUME TaskFails(t) \/ EndTask(t) PROVE TasksTyped' /\ CallsTyped'
  <2>1. Return(t) \/ Throw(t)
    BY <1>7 DEF TaskFails, EndTask
  <2>2. TasksTyped'
    <3>1. yield' = [yield EXCEPT ![t] = NoYield] /\ NoYield \in [n : Nat, taken : BOOLEAN]
      BY <1>7 DEF TaskFails, EndTask, NoYield
    <3>. QED BY <3>1 DEF TasksTyped
  <2>. QED BY <1>3, <2>1, <2>2, EndTyped
<1>8. TasksTyped' /\ CallsTyped'
  BY <1>4, <1>5, <1>6, <1>7 DEF TaskStep
<1>. QED BY <1>2, <1>8, TypesByPartNext

LEMMA CallStepTyped ==
    ASSUME TInv, NEW c \in Callers, CallStep(c) PROVE TInv'
<1>. USE TypesByPart DEF readerVars, managerVars, keeperVars, books
<1>1. UNCHANGED <<books, lendingRate, readerVars, managerVars, keeperVars>>
  BY DEF CallStep, BuildCall, SendCall, EndOther
<1>2. RatesTyped' /\ BooksTyped' /\ MoneyTyped' /\ TasksTyped'
  BY <1>1 DEF RatesTyped, BooksTyped, MoneyTyped, TasksTyped
<1>3. CallsTyped' /\ \A tx \in pool' : Payable(tx)'
  <2>1. ASSUME SendCall(c) PROVE CallsTyped' /\ \A tx \in pool' : Payable(tx)'
    BY <2>1, SendTyped
  <2>2. ASSUME EndOther(c) PROVE CallsTyped' /\ \A tx \in pool' : Payable(tx)'
    <3>1. CallsTyped' /\ UNCHANGED <<pool, treasury>>
      BY <1>1, <2>2, EndTyped DEF EndOther
    <3>. QED BY <3>1 DEF Payable
  <2>3. ASSUME BuildCall(c) PROVE CallsTyped' /\ \A tx \in pool' : Payable(tx)'
    BY <2>3, BuildTyped DEF Payable
  <2>. QED BY <2>1, <2>2, <2>3 DEF CallStep
<1>. QED BY <1>2, <1>3, TypesByPartNext

LEMMA ReaderStepTyped ==
    ASSUME TInv, ReaderStep, UNCHANGED keeperVars PROVE TInv'
<1>. USE TypesByPart
<1>1. RatesTyped' /\ UNCHANGED <<books, lendingRate>>
  BY ReadingTyped
<1>2. BooksTyped' /\ MoneyTyped' /\ TasksTyped'
  BY <1>1 DEF books, keeperVars, BooksTyped, MoneyTyped, TasksTyped
<1>3. CallsTyped' /\ UNCHANGED pool
  <2>1. ASSUME NEW s \in Syncs, TakeSnapshot(s) PROVE CallsTyped' /\ UNCHANGED pool
    <3>. DEFINE rate == RateOf(reading["rewards"])
    <3>1. /\ HasRead("rewards") /\ SyncRate(s, rate) /\ UNCHANGED <<pool, faults>>
          /\ "rewards" \in Readers
      BY <2>1 DEF TakeSnapshot, Readers
    <3>2. reading["rewards"] \in Pair /\ reading["rewards"].supply # 0
      BY <3>1 DEF RatesTyped, HasRead, Unread
    <3>3. rate \in Nat /\ s \in Callers
      BY <3>2, RateOfType, TasksAreCallers
    <3>. HIDE DEF rate
    <3>4. CASE rate = NoRate
      BY <3>1, <3>4 DEF SyncRate, CallsTyped
    <3>5. CASE rate # NoRate
      <4>1. [is |-> "rate", rate |-> rate] \in Ops
        BY <3>3, <3>5 DEF Ops
      <4>. QED BY <3>1, <3>3, <3>5, <4>1, BeginTyped DEF SyncRate
    <3>. QED BY <3>4, <3>5
  <2>2. ASSUME ~(\E s \in Syncs : TakeSnapshot(s)) PROVE CallsTyped' /\ UNCHANGED pool
    <3>1. /\ UNCHANGED <<calls, pool>>
          /\ UNCHANGED faults \/ (faults < MaxFaults /\ faults' = faults + 1)
      BY <2>2 DEF ReaderStep, ReadBooks, ReadFails, TakeMetrics, Fault, operatorVars
    <3>. QED BY <3>1, FaultsCounted DEF CallsTyped
  <2>. QED BY <2>1, <2>2
<1>4. \A tx \in pool' : Payable(tx)'
  BY <1>3 DEF Payable, keeperVars
<1>. QED BY <1>1, <1>2, <1>3, <1>4, TypesByPartNext

LEMMA ManagerStepTyped ==
    ASSUME TInv, NEW r \in Refreshers, ManagerStep(r), UNCHANGED keeperVars PROVE TInv'
<1>. USE TypesByPart
<1>1. RatesTyped' /\ UNCHANGED <<books, lendingRate, calls, pool>>
  BY ManagingTyped
<1>2. BooksTyped' /\ MoneyTyped' /\ TasksTyped' /\ \A tx \in pool' : Payable(tx)'
  BY <1>1 DEF books, keeperVars, BooksTyped, MoneyTyped, TasksTyped, Payable
<1>3. UNCHANGED faults \/ (faults < MaxFaults /\ faults' = faults + 1)
  BY DEF ManagerStep, StartRefresh, EndWait, ReadRate, EndRefresh, RefreshFails, Fault, operatorVars
<1>4. CallsTyped'
  BY <1>1, <1>3, FaultsCounted DEF CallsTyped
<1>. QED BY <1>1, <1>2, <1>4, TypesByPartNext

LEMMA RestartTyped == ASSUME TInv, Restart PROVE TInv'
<1>. USE TypesByPart DEF Restart, ForgetCalls, ForgetReaders
<1>1. RatesTyped'
  BY DEF RatesTyped, NothingRead, Unread, Pair, NoRate, NoRefresh
<1>2. BooksTyped' /\ MoneyTyped' /\ TasksTyped' /\ \A tx \in pool' : Payable(tx)'
  BY DEF books, BooksTyped, MoneyTyped, TasksTyped, Payable, NoYield
<1>3. CallsTyped'
  BY FaultsCounted DEF CallsTyped, Call
<1>. QED BY <1>1, <1>2, <1>3, TypesByPartNext

LEMMA NextTyped == ASSUME TInv, [Next]_vars PROVE TInv'
<1>. USE TypesByPart, TypesByPartNext DEF operatorVars, books, readerVars, managerVars, keeperVars
<1>. USE DEF RatesTyped, BooksTyped, MoneyTyped, TasksTyped, CallsTyped, Payable
<1>1. ASSUME NEW x \in Deposits, Deposit(x) /\ UNCHANGED keeperVars PROVE TInv'
  <2>1. BooksTyped'
    BY <1>1, DepositTyped
  <2>. QED BY <1>1, <2>1 DEF Deposit
<1>2. ASSUME Swap PROVE TInv'
  BY <1>2, KeeperAssumption DEF Swap
<1>3. ASSUME Touch PROVE TInv'
  <2>1. [is |-> "bump_instance"] \in Ops /\ "upkeep" \in Callers
    BY TasksAreCallers DEF Ops
  <2>2. CallsTyped'
    BY <1>3, <2>1, BeginTyped DEF Touch
  <2>. QED BY <1>3, <2>2, KeeperAssumption DEF Touch
<1>4. ASSUME DropCall PROVE TInv'
  <2>1. PICK tx \in pool : RunOut(tx)
    BY <1>4 DEF DropCall
  <2>2. CallsTyped' /\ pool' = {}
    BY <2>1, PoolEmptiesTyped
  <2>. QED BY <1>4, <2>2 DEF DropCall
<1>5. ASSUME UNCHANGED vars PROVE TInv'
  BY <1>5 DEF vars
<1>. QED BY <1>1, <1>2, <1>3, <1>4, <1>5, ReaderStepTyped, ManagerStepTyped, TaskStepTyped,
            CallStepTyped, IncludeCallTyped, RestartTyped DEF Next

\* For any number of faults, fees, touches, updates of the rate and deposits: the
\* treasury and the totals never go below zero although withdrawals of the treasury are
\* judged before they are included, no rate that is kept is one of a division by zero,
\* and every call and transaction does one of the things that the backend signs.
THEOREM TypeCorrect == Spec => []TypeOK
<1>1. TInv => TypeOK
  BY DEF TInv
<1>. QED BY <1>1, InitTyped, NextTyped, PTL DEF Spec
=============================================================================
