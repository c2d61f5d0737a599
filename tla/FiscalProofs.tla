---------------------------- MODULE FiscalProofs ----------------------------
(***************************************************************************)
(* Proofs about Fiscal, for every number of invoices, calls, senders and   *)
(* records, and whatever the AEAT thinks of a record.                      *)
(***************************************************************************)
EXTENDS Fiscal, SumProofs, TLAPS

(* What a call has yet to do: with its record generated, with the salon's  *)
(* turn taken, and before.                                                 *)
Generated == {<<"commit">>, <<"commit", "kick">>, <<"row", "commit", "kick">>}
InTurn == Generated \cup
          {<<"record", "commit">>, <<"number", "record", "commit">>,
           <<"record", "row", "commit", "kick">>}
Before == {<<>>, <<"kick">>, <<"chain", "record", "commit">>,
           <<"chain", "number", "record", "commit">>,
           <<"chain", "record", "row", "commit", "kick">>,
           <<"row", "chain", "record", "commit">>,
           <<"row", "chain", "number", "record", "commit">>}

LEMMA NotYet == InTurn \cap Before = {}
  BY DEF InTurn, Before, Generated

(* Its turn is taken by the chain's statement, its record generated by its *)
(* own, and both end with the commit.                                      *)
LEMMA TodoSteps ==
    ASSUME NEW t \in InTurn \cup Before, t # <<>>
    PROVE  /\ Head(t) = "chain" => /\ t \in Before
                                   /\ Tail(t) \in InTurn \ Generated
           /\ Head(t) = "row" => /\ Tail(t) \in InTurn \cup Before
                                 /\ t \in InTurn <=> Tail(t) \in InTurn
                                 /\ t \in Generated <=> Tail(t) \in Generated
           /\ Head(t) = "number" => {t, Tail(t)} \subseteq InTurn \ Generated
           /\ Head(t) = "record" => t \in InTurn /\ Tail(t) \in Generated
           /\ Head(t) = "commit" => /\ t \in Generated
                                    /\ Tail(t) \in {<<>>, <<"kick">>}
<1> USE DEF Generated, InTurn, Before
<1>1. CASE t = <<"kick">>
  BY <1>1
<1>2. CASE t = <<"chain", "record", "commit">>
  BY <1>2
<1>3. CASE t = <<"chain", "number", "record", "commit">>
  BY <1>3
<1>4. CASE t = <<"chain", "record", "row", "commit", "kick">>
  BY <1>4
<1>5. CASE t = <<"row", "chain", "record", "commit">>
  BY <1>5
<1>6. CASE t = <<"row", "chain", "number", "record", "commit">>
  BY <1>6
<1>7. CASE t = <<"record", "commit">>
  BY <1>7
<1>8. CASE t = <<"number", "record", "commit">>
  BY <1>8
<1>9. CASE t = <<"record", "row", "commit", "kick">>
  BY <1>9
<1>10. CASE t = <<"commit">>
  BY <1>10
<1>11. CASE t = <<"commit", "kick">>
  BY <1>11
<1>12. CASE t = <<"row", "commit", "kick">>
  BY <1>12
<1> QED BY <1>1, <1>2, <1>3, <1>4, <1>5, <1>6, <1>7, <1>8, <1>9, <1>10, <1>11, <1>12

-----------------------------------------------------------------------------

\* The shape of a record and of a call; what the AEAT's answer makes of a
\* record's status is of no matter here.
RecordShape(r) ==
    r = [kind |-> r.kind, inv |-> r.inv, previous |-> r.previous,
         expects |-> r.expects, status |-> r.status]

CallShape(x) ==
    x = [kind |-> x.kind, inv |-> x.inv, todo |-> x.todo, number |-> x.number,
         rec |-> x.rec]

Shapes ==
    /\ \E S : records \in Seq(S)
    /\ \A n \in DOMAIN records : RecordShape(records[n])
    /\ held = [l \in LockIds |-> held[l]]
    /\ call = [c \in Calls |-> call[c]]
    /\ \A c \in Calls : /\ CallShape(call[c])
                        /\ call[c].todo \in InTurn \cup Before

\* The salon's turn belongs to the call that took it...
TurnHeld == \A c \in Calls : call[c].todo \in InTurn => held[<<"chain">>] = c

\* ... so the record it generated still follows the last one.
NextInLine ==
    \A c \in Calls :
        call[c].todo \in Generated =>
            RecordShape(call[c].rec) /\ call[c].rec.previous = Len(records)

LineInv == Shapes /\ TurnHeld /\ NextInLine /\ ChainIsALine

-----------------------------------------------------------------------------
(* A call goes on.                                                         *)

LEMMA NotIdle ==
    ASSUME Shapes, NEW c \in Calls, NEW s, Doing(c, s)
    PROVE  call[c].todo \in InTurn \cup Before /\ call[c].todo # <<>> /\ Head(call[c].todo) = s
  BY DEF Shapes, Doing

LEMMA IdleShape ==
    CallShape(Idle) /\ Idle.todo \in Before /\ Idle.todo \notin InTurn
  BY DEF CallShape, Idle, Before, InTurn, Generated

LEMMA WithTodo ==
    ASSUME NEW x, CallShape(x), NEW t
    PROVE  [x EXCEPT !.todo = t] = [kind |-> x.kind, inv |-> x.inv, todo |-> t,
                                    number |-> x.number, rec |-> x.rec]
<1>1. ASSUME NEW k, NEW i, NEW t0, NEW n, NEW r
      PROVE  [[kind |-> k, inv |-> i, todo |-> t0, number |-> n, rec |-> r]
                 EXCEPT !.todo = t]
               = [kind |-> k, inv |-> i, todo |-> t, number |-> n, rec |-> r]
  OBVIOUS
<1>2. PICK k, i, t0, n, r :
         x = [kind |-> k, inv |-> i, todo |-> t0, number |-> n, rec |-> r]
  BY DEF CallShape
<1>3. x.kind = k /\ x.inv = i /\ x.number = n /\ x.rec = r
  BY <1>2
<1>4. [x EXCEPT !.todo = t]
        = [[kind |-> k, inv |-> i, todo |-> t0, number |-> n, rec |-> r]
              EXCEPT !.todo = t]
  BY <1>2, Zenon
<1> QED BY <1>1, <1>3, <1>4

(* It keeps the line when it neither takes the salon's turn nor gives it   *)
(* back: what it has yet to do is on the same side of both statements.     *)
LEMMA LineKept ==
    ASSUME LineInv, NEW c \in Calls, NEW new, CallShape(new),
           new.todo \in InTurn \cup Before,
           call' = [call EXCEPT ![c] = new],
           held' = [l \in LockIds |-> held'[l]],
           new.todo \in InTurn => held'[<<"chain">>] = c,
           \A d \in Calls \ {c} :
               held[<<"chain">>] = d => held'[<<"chain">>] = d \/ call[d].todo \notin InTurn,
           new.todo \in Generated =>
               RecordShape(new.rec) /\ new.rec.previous = Len(records),
           UNCHANGED records
    PROVE  LineInv'
<1>1. \A d \in Calls : call'[d] = IF d = c THEN new ELSE call[d]
  BY DEF LineInv, Shapes
<1>2. call' = [d \in Calls |-> call'[d]]
  BY DEF LineInv, Shapes
<1>3. Shapes'
  BY <1>1, <1>2 DEF LineInv, Shapes
<1>4. TurnHeld'
  BY <1>1 DEF LineInv, TurnHeld
<1>5. NextInLine'
  BY <1>1 DEF LineInv, NextInLine
<1>6. ChainIsALine'
  BY DEF LineInv, ChainIsALine
<1> QED BY <1>3, <1>4, <1>5, <1>6 DEF LineInv

LEMMA BeginKeeps ==
    ASSUME LineInv, NEW c \in Calls, NEW kind, NEW i, NEW todo \in Before,
           Begin(c, kind, i, todo)
    PROVE  LineInv'
<1> DEFINE new == [kind |-> kind, inv |-> i, todo |-> todo, number |-> 0,
                   rec |-> NoRecord]
<1>1. CallShape(new) /\ new.todo = todo
  BY DEF CallShape
<1>2. call' = [call EXCEPT ![c] = new] /\ UNCHANGED <<records, held>>
  BY DEF Begin, bookRows
<1>3. todo \notin InTurn /\ todo \notin Generated
  BY NotYet DEF InTurn
<1>4. held' = [l \in LockIds |-> held'[l]]
  BY <1>2 DEF LineInv, Shapes
<1> HIDE DEF new
<1> QED BY <1>1, <1>2, <1>3, <1>4, LineKept

LEMMA RequestKeeps ==
    ASSUME LineInv, NEW c \in Calls, Request(c) PROVE LineInv'
<1>1. CASE StartIssue(c)
  <2>1. PICK i \in Invoices :
          Begin(c, "issue", i, <<"chain", "number", "record", "commit">>)
    BY <1>1 DEF StartIssue
  <2>2. <<"chain", "number", "record", "commit">> \in Before
    BY DEF Before
  <2> QED BY <2>1, <2>2, BeginKeeps
<1>2. CASE StartRectify(c)
  <2>1. PICK i \in Invoices :
          Begin(c, "rectify", i, <<"row", "chain", "number", "record", "commit">>)
    BY <1>2 DEF StartRectify
  <2>2. <<"row", "chain", "number", "record", "commit">> \in Before
    BY DEF Before
  <2> QED BY <2>1, <2>2, BeginKeeps
<1>3. CASE StartCancel(c)
  <2>1. PICK i \in Invoices, kind \in {"cancel", "annul"} :
          Begin(c, kind, i, <<"row", "chain", "record", "commit">>)
    BY <1>3 DEF StartCancel
  <2>2. <<"row", "chain", "record", "commit">> \in Before
    BY DEF Before
  <2> QED BY <2>1, <2>2, BeginKeeps
<1>4. CASE StartResend(c)
  <2> DEFINE kindOf(i) == IF Newest(i).kind = "alta" THEN "correct" ELSE "again"
  <2>1. PICK i \in Invoices, todo \in Before : Begin(c, kindOf(i), i, todo)
    BY <1>4 DEF StartResend, Before
  <2> HIDE DEF kindOf
  <2> QED BY <2>1, BeginKeeps
<1> QED BY <1>1, <1>2, <1>3, <1>4 DEF Request

LEMMA ReleasedLocks ==
    ASSUME LineInv, NEW c \in Calls, held' = Released(c)
    PROVE  /\ held' = [l \in LockIds |-> held'[l]]
           /\ \A d \in Calls \ {c} : held[<<"chain">>] = d => held'[<<"chain">>] = d
<1>1. <<"chain">> \in LockIds
  BY DEF LockIds
<1> QED BY <1>1 DEF Released

LEMMA RollbackKeeps ==
    ASSUME LineInv, NEW c \in Calls, Rollback(c) PROVE LineInv'
<1>1. call' = [call EXCEPT ![c] = Idle] /\ held' = Released(c) /\ UNCHANGED records
  BY DEF Rollback, bookRows
<1> QED BY <1>1, IdleShape, ReleasedLocks, LineKept DEF InTurn

LEMMA ContinueShape ==
    ASSUME NEW new, CallShape(new), NEW c \in Calls, Continue(c, new)
    PROVE  \E x : /\ call' = [call EXCEPT ![c] = x] /\ CallShape(x)
                  /\ x.todo = Tail(new.todo) /\ x.rec = new.rec
                  /\ x.kind = new.kind /\ x.inv = new.inv
                  /\ x.number = new.number
<1> DEFINE x == [new EXCEPT !.todo = Tail(new.todo)]
<1>1. x = [kind |-> new.kind, inv |-> new.inv, todo |-> Tail(new.todo),
           number |-> new.number, rec |-> new.rec]
  BY WithTodo
<1>2. call' = [call EXCEPT ![c] = x]
  BY DEF Continue
<1> HIDE DEF x
<1>3. /\ CallShape(x) /\ x.todo = Tail(new.todo) /\ x.rec = new.rec
      /\ x.kind = new.kind /\ x.inv = new.inv /\ x.number = new.number
  BY <1>1 DEF CallShape
<1> QED BY <1>2, <1>3

(* The turn is taken by one call at a time.                                *)
LEMMA AcquireKeeps ==
    ASSUME LineInv, NEW c \in Calls, Acquire(c) PROVE LineInv'
<1>1. PICK s \in {"chain", "row", "number"} :
        /\ Doing(c, s) /\ Grant(c, s)
        /\ IF Allowed(c, s)
           THEN /\ held' = [held EXCEPT ![LockOf(c, s)] = c]
                /\ Continue(c, IF s = "number"
                        THEN [call[c] EXCEPT !.number =
                                counter[SeriesOf[call[c].inv]] + 1]
                        ELSE call[c])
                /\ UNCHANGED <<bookRows, queue, agency>>
           ELSE Rollback(c)
  BY DEF Acquire
<1>2. CASE ~Allowed(c, s)
  BY <1>1, <1>2, RollbackKeeps
<1>3. CASE Allowed(c, s)
  <2> DEFINE new == IF s = "number"
                    THEN [call[c] EXCEPT !.number = counter[SeriesOf[call[c].inv]] + 1]
                    ELSE call[c]
             t == call[c].todo
  <2>1. CallShape(call[c])
    BY DEF LineInv, Shapes
  <2>2. CallShape(new) /\ new.todo = t /\ new.rec = call[c].rec
    BY <2>1 DEF CallShape
  <2>3. Continue(c, new)
    BY <1>1, <1>3
  <2> HIDE DEF new
  <2>4. PICK x : /\ call' = [call EXCEPT ![c] = x] /\ CallShape(x)
                 /\ x.todo = Tail(t) /\ x.rec = call[c].rec
    BY <2>2, <2>3, ContinueShape
  <2>5. t \in InTurn \cup Before /\ t # <<>> /\ Head(t) = s
    BY <1>1, NotIdle DEF LineInv
  <2>6. held' = [l \in LockIds |-> held'[l]] /\ UNCHANGED records
    BY <1>1, <1>3 DEF LineInv, Shapes, bookRows
  <2>7. held'[<<"chain">>] = IF s = "chain" THEN c ELSE held[<<"chain">>]
    <3>1. <<"chain">> \in LockIds
      BY DEF LockIds
    <3>2. LockOf(c, s) = <<"chain">> <=> s = "chain"
      BY DEF LockOf
    <3> QED BY <1>1, <1>3, <3>1, <3>2 DEF LineInv, Shapes
  <2>8. x.todo \in InTurn \cup Before
    BY <2>4, <2>5, TodoSteps
  <2>9. x.todo \in InTurn => held'[<<"chain">>] = c
    BY <2>4, <2>5, <2>7, TodoSteps DEF LineInv, TurnHeld
  <2>10. s = "chain" => \A d \in Calls \ {c} : held[<<"chain">>] # d
    BY <1>1, NoCallAssumption DEF Grant, LockOf
  <2>11. \A d \in Calls \ {c} : held[<<"chain">>] = d => held'[<<"chain">>] = d
    BY <2>7, <2>10
  <2>12. x.todo \in Generated => RecordShape(x.rec) /\ x.rec.previous = Len(records)
    BY <2>4, <2>5, TodoSteps DEF LineInv, NextInLine
  <2> QED BY <2>4, <2>6, <2>8, <2>9, <2>11, <2>12, LineKept
<1> QED BY <1>2, <1>3

LEMMA GenerateKeeps ==
    ASSUME LineInv, NEW c \in Calls, Generate(c) PROVE LineInv'
<1>1. CASE ~Recordable(c)
  BY <1>1, RollbackKeeps DEF Generate
<1>2. CASE Recordable(c)
  <2> DEFINE new == [call[c] EXCEPT !.rec = RecordFor(c)]
             t == call[c].todo
  <2>1. CallShape(new) /\ new.todo = t /\ new.rec = RecordFor(c)
    BY DEF LineInv, Shapes, CallShape
  <2>2. Continue(c, new) /\ UNCHANGED <<records, held>>
    BY <1>2 DEF Generate, bookRows
  <2> HIDE DEF new
  <2>3. PICK x : /\ call' = [call EXCEPT ![c] = x] /\ CallShape(x)
                 /\ x.todo = Tail(t) /\ x.rec = RecordFor(c)
    BY <2>1, <2>2, ContinueShape
  <2>4. t \in InTurn /\ Tail(t) \in Generated
    BY NotIdle, TodoSteps DEF Generate, LineInv
  <2>5. held[<<"chain">>] = c
    BY <2>4 DEF LineInv, TurnHeld
  <2>6. RecordShape(RecordFor(c)) /\ RecordFor(c).previous = Len(records)
    BY DEF RecordFor, RecordShape
  <2>7. held' = [l \in LockIds |-> held'[l]]
    BY <2>2 DEF LineInv, Shapes
  <2>8. x.todo \in InTurn
    BY <2>3, <2>4 DEF InTurn
  <2> QED BY <2>2, <2>3, <2>5, <2>6, <2>7, <2>8, LineKept
<1> QED BY <1>1, <1>2

(* The record is appended while no other call has its own generated.       *)
LEMMA CommitKeeps ==
    ASSUME LineInv, NEW c \in Calls, Commit(c) PROVE LineInv'
<1> DEFINE t == call[c].todo
           rec == call[c].rec
<1>1. t \in Generated /\ Tail(t) \in {<<>>, <<"kick">>}
  BY NotIdle, TodoSteps DEF Commit, LineInv
<1>2. /\ records' = Append(records, rec)
      /\ held' = Released(c)
  BY DEF Commit
<1>3. RecordShape(rec) /\ rec.previous = Len(records)
  BY <1>1 DEF LineInv, NextInLine
<1>4. \A d \in Calls \ {c} : call[d].todo \notin InTurn
  BY <1>1 DEF LineInv, TurnHeld, InTurn
<1>5. PICK new : call' = [call EXCEPT ![c] = new] /\ CallShape(new)
                 /\ new.todo \in Before
  <2>1. CASE Tail(t) = <<>>
    BY <2>1, IdleShape DEF Commit
  <2>2. CASE Tail(t) # <<>>
    <3> DEFINE old == [call[c] EXCEPT !.rec = NoRecord]
    <3>1. CallShape(old) /\ old.todo = t
      BY DEF LineInv, Shapes, CallShape
    <3>2. Continue(c, old)
      BY <2>2 DEF Commit
    <3> HIDE DEF old
    <3>3. PICK x : call' = [call EXCEPT ![c] = x] /\ CallShape(x) /\ x.todo = Tail(t)
      BY <3>1, <3>2, ContinueShape
    <3> QED BY <1>1, <2>2, <3>3 DEF Before
  <2> QED BY <2>1, <2>2
<1>6. \A d \in Calls : call'[d].todo \notin InTurn
  BY <1>4, <1>5, NotYet DEF LineInv, Shapes
<1>7. PICK S : records \in Seq(S)
  BY DEF LineInv, Shapes
<1>8. /\ records' \in Seq(S \cup {rec})
      /\ Len(records') = Len(records) + 1
      /\ records'[Len(records) + 1] = rec
      /\ \A n \in 1..Len(records) : records'[n] = records[n]
      /\ DOMAIN records = 1..Len(records) /\ DOMAIN records' = 1..Len(records')
      /\ Len(records) \in Nat
  BY <1>2, <1>7
<1>9. Shapes'
  <2>1. \A n \in DOMAIN records' : RecordShape(records'[n])
    BY <1>3, <1>8 DEF LineInv, Shapes
  <2>2. held' = [l \in LockIds |-> held'[l]]
    BY <1>2, ReleasedLocks
  <2>3. /\ call' = [d \in Calls |-> call'[d]]
        /\ \A d \in Calls : CallShape(call'[d]) /\ call'[d].todo \in InTurn \cup Before
    BY <1>5 DEF LineInv, Shapes
  <2> QED BY <1>8, <2>1, <2>2, <2>3 DEF Shapes
<1>10. TurnHeld' /\ NextInLine'
  BY <1>6 DEF TurnHeld, NextInLine, InTurn
<1>11. ChainIsALine'
  <2>1. ASSUME NEW n \in DOMAIN records' PROVE records'[n].previous = n - 1
    <3>1. CASE n \in DOMAIN records
      BY <1>8, <3>1 DEF LineInv, ChainIsALine
    <3>2. CASE n \notin DOMAIN records
      <4>1. n = Len(records) + 1
        BY <1>8, <3>2
      <4> QED BY <1>3, <1>8, <4>1
    <3> QED BY <3>1, <3>2
  <2> QED BY <2>1 DEF ChainIsALine
<1> QED BY <1>9, <1>10, <1>11 DEF LineInv

LEMMA CallKeeps ==
    ASSUME LineInv, NEW c \in Calls,
           Request(c) \/ Proceed(c) \/ Refuse(c) \/ BreakDeadlock(c)
    PROVE  LineInv'
<1>1. CASE Kick(c)
  <2>1. call' = [call EXCEPT ![c] = Idle] /\ UNCHANGED <<records, held>>
    BY <1>1 DEF Kick, bookRows
  <2>2. held' = [l \in LockIds |-> held'[l]]
    BY <2>1 DEF LineInv, Shapes
  <2> QED BY <2>1, <2>2, IdleShape, LineKept DEF InTurn
<1>2. CASE Refuse(c) \/ BreakDeadlock(c)
  BY <1>2, RollbackKeeps DEF Refuse, BreakDeadlock
<1> QED BY <1>1, <1>2, RequestKeeps, AcquireKeeps, GenerateKeeps, CommitKeeps DEF Proceed

-----------------------------------------------------------------------------
(* The dispatcher writes a record's status and nothing else of the chain.  *)

LEMMA ApplyKeeps ==
    ASSUME LineInv, NEW s \in Senders, Apply(s) PROVE LineInv'
<1>1. PICK n, st : records' = [records EXCEPT ![n].status = st]
  BY DEF Apply
<1>2. UNCHANGED <<held, call>>
  BY DEF Apply, locks
<1>3. PICK S : records \in Seq(S)
  BY DEF LineInv, Shapes
<1> DEFINE new == [records[n] EXCEPT !.status = st]
<1>4. /\ records' = [m \in 1..Len(records) |-> IF m = n THEN new ELSE records[m]]
      /\ Len(records) \in Nat /\ DOMAIN records = 1..Len(records)
  <2>1. Len(records) \in Nat /\ DOMAIN records = 1..Len(records)
    BY <1>3
  <2>2. records' = [records EXCEPT ![n] = new]
    BY <1>1
  <2> HIDE DEF new
  <2>3. records' = [m \in DOMAIN records |-> IF m = n THEN new ELSE records[m]]
    BY <2>2
  <2> QED BY <2>1, <2>3
<1>5. n \in DOMAIN records => RecordShape(new) /\ new.previous = records[n].previous
  BY DEF LineInv, Shapes, RecordShape
<1> HIDE DEF new
<1>6. records' \in Seq(S \cup {new}) /\ Len(records') = Len(records)
      /\ DOMAIN records' = DOMAIN records
  <2>1. \A m \in 1..Len(records) : (IF m = n THEN new ELSE records[m]) \in S \cup {new}
    BY <1>3
  <2> QED BY <1>4, <2>1
<1>7. Shapes'
  <2>1. \A m \in DOMAIN records' : RecordShape(records'[m])
    BY <1>4, <1>5, <1>6 DEF LineInv, Shapes
  <2> QED BY <1>2, <1>6, <2>1 DEF LineInv, Shapes
<1>8. TurnHeld' /\ NextInLine'
  BY <1>2, <1>6 DEF LineInv, TurnHeld, NextInLine
<1>9. ChainIsALine'
  BY <1>4, <1>5, <1>6 DEF LineInv, ChainIsALine
<1> QED BY <1>7, <1>8, <1>9 DEF LineInv

LEMMA LineStep ==
    ASSUME LineInv, [Next]_vars PROVE LineInv'
<1>1. CASE \E c \in Calls : Request(c) \/ Proceed(c) \/ Refuse(c) \/ BreakDeadlock(c)
  BY <1>1, CallKeeps
<1>2. CASE \E s \in Senders : Apply(s)
  BY <1>2, ApplyKeeps
<1>3. CASE \/ \E s \in Senders : \/ Claim(s) \/ LookForNewest(s) \/ Reflect(s) \/ Done(s)
                                 \/ NotSent(s) \/ AnswerLost(s) \/ Answered(s) \/ Die(s)
           \/ WaitEnds
           \/ UNCHANGED vars
  <2>1. UNCHANGED <<records, held, call>>
    BY <1>3 DEF Claim, LookForNewest, Reflect, Done, NotSent, AnswerLost, Answered, Die,
                WaitEnds, Fail, vars, bookRows, locks
  <2> QED BY <2>1 DEF LineInv, Shapes, TurnHeld, NextInLine, ChainIsALine
<1> QED BY <1>1, <1>2, <1>3 DEF Next, Submit

LEMMA LineInit == Init => LineInv
<1> SUFFICES ASSUME Init PROVE LineInv
  OBVIOUS
<1>1. records \in Seq({}) /\ DOMAIN records = {}
  BY DEF Init
<1>2. \A c \in Calls : call[c] = Idle
  BY DEF Init
<1>3. Shapes
  BY <1>1, <1>2, IdleShape DEF Init, Shapes
<1>4. TurnHeld /\ NextInLine
  BY <1>2, IdleShape DEF TurnHeld, NextInLine, InTurn
<1> QED BY <1>1, <1>3, <1>4 DEF LineInv, ChainIsALine

(* LineInv is inductive: the salon's turn (lockSalon) is held from before a *)
(* record is generated to the commit that appends it, so nothing comes     *)
(* between the record and the one it names.                                *)
THEOREM LineHolds == Spec => []LineInv
<1>1. LineInv /\ [Next]_vars => LineInv'
  BY LineStep
<1> QED BY LineInit, <1>1, PTL DEF Spec

(* Each record of the chain names the one before it (lockChain, append).   *)
THEOREM ChainHolds == Spec => []ChainIsALine
<1>1. LineInv => ChainIsALine
  BY DEF LineInv
<1> QED BY LineHolds, <1>1, PTL

-----------------------------------------------------------------------------
(* A cancelled invoice has its annulment as its newest record.             *)

InvShape(x) == x = [status |-> x.status, number |-> x.number, fiscal |-> x.fiscal]

RecordKind(kind) ==
    IF kind \in {"issue", "rectify", "correct"} THEN "alta" ELSE "anulacion"

\* What a call does is about an invoice, and still right once its record is
\* generated: a correction is of one not cancelled, another annulment of one
\* that is.
CallOK(x) ==
    /\ x.todo # <<>> =>
          /\ x.inv \in Invoices
          /\ x.kind \in {"issue", "rectify", "cancel", "annul", "correct", "again"}
          /\ x.kind = "again" => RecordsOf(x.inv) # {}
    /\ x.todo \in Generated =>
          /\ x.rec.inv = x.inv /\ x.rec.kind = RecordKind(x.kind)
          /\ x.kind = "correct" => inv[x.inv].status # "cancelled"
          /\ x.kind = "again" => inv[x.inv].status = "cancelled"

Recorded == \A i \in Invoices : inv[i].status # "absent" => RecordsOf(i) # {}

HasNewest(i) == \E n \in RecordsOf(i) : \A m \in RecordsOf(i) : m <= n

BooksInv ==
    /\ LineInv
    /\ \A i \in Invoices : RecordsOf(i) # {} => HasNewest(i)
    /\ inv = [i \in Invoices |-> inv[i]] /\ \A i \in Invoices : InvShape(inv[i])
    /\ \A c \in Calls : CallOK(call[c])
    /\ Recorded
    /\ CancelledIsAnnulled

LEMMA BooksKept ==
    ASSUME BooksInv, LineInv', UNCHANGED <<records, inv>>,
           NEW c \in Calls, NEW new, call' = [call EXCEPT ![c] = new], CallOK(new)
    PROVE  BooksInv'
<1>1. \A d \in Calls : call'[d] = IF d = c THEN new ELSE call[d]
  BY DEF BooksInv, LineInv, Shapes
<1>2. \A i : RecordsOf(i)' = RecordsOf(i) /\ Newest(i)' = Newest(i)
  BY DEF RecordsOf, Newest
<1>3. \A d \in Calls : CallOK(call[d])'
  BY <1>1, <1>2 DEF BooksInv, CallOK
<1>4. Recorded' /\ CancelledIsAnnulled' /\ \A i : HasNewest(i)' <=> HasNewest(i)
  BY <1>2 DEF BooksInv, Recorded, CancelledIsAnnulled, HasNewest
<1> QED BY <1>2, <1>3, <1>4 DEF BooksInv

LEMMA IdleOK == CallOK(Idle)
  BY IdleShape DEF CallOK, Idle, InTurn

LEMMA RollbackBooks ==
    ASSUME BooksInv, NEW c \in Calls, Rollback(c) PROVE BooksInv'
<1>1. LineInv'
  BY RollbackKeeps DEF BooksInv
<1>2. call' = [call EXCEPT ![c] = Idle] /\ UNCHANGED <<records, inv>>
  BY DEF Rollback, bookRows
<1> QED BY <1>1, <1>2, IdleOK, BooksKept

LEMMA RequestBooks ==
    ASSUME BooksInv, NEW c \in Calls, Request(c) PROVE BooksInv'
<1>1. LineInv'
  BY RequestKeeps DEF BooksInv
<1>2. PICK kind, i, todo : /\ Begin(c, kind, i, todo)
                           /\ i \in Invoices /\ todo \in Before
                           /\ kind \in {"issue", "rectify", "cancel", "annul", "correct", "again"}
                           /\ kind = "again" => inv[i].status # "absent"
  <2>1. CASE StartIssue(c)
    BY <2>1 DEF StartIssue, Before
  <2>2. CASE StartRectify(c)
    BY <2>2 DEF StartRectify, Before
  <2>3. CASE StartCancel(c)
    BY <2>3 DEF StartCancel, Before
  <2>4. CASE StartResend(c)
    <3> DEFINE kindOf(j) == IF Newest(j).kind = "alta" THEN "correct" ELSE "again"
    <3>1. PICK j \in Invoices, t \in Before :
             Begin(c, kindOf(j), j, t) /\ inv[j].status # "absent"
      BY <2>4 DEF StartResend, Before
    <3>2. kindOf(j) \in {"correct", "again"}
      OBVIOUS
    <3> HIDE DEF kindOf
    <3> QED BY <3>1, <3>2
  <2> QED BY <2>1, <2>2, <2>3, <2>4 DEF Request
<1> DEFINE new == [kind |-> kind, inv |-> i, todo |-> todo, number |-> 0,
                   rec |-> NoRecord]
<1>3. new.kind = kind /\ new.inv = i /\ new.todo = todo
  OBVIOUS
<1>4. call' = [call EXCEPT ![c] = new] /\ UNCHANGED <<records, inv>>
  BY <1>2 DEF Begin, bookRows
<1> HIDE DEF new
<1>5. todo \notin Generated
  BY <1>2, NotYet DEF InTurn
<1>6. CallOK(new)
  BY <1>2, <1>3, <1>5 DEF CallOK, BooksInv, Recorded
<1> QED BY <1>1, <1>4, <1>6, BooksKept

LEMMA AcquireBooks ==
    ASSUME BooksInv, NEW c \in Calls, Acquire(c) PROVE BooksInv'
<1>1. LineInv'
  BY AcquireKeeps DEF BooksInv
<1>2. CASE Rollback(c)
  BY <1>2, RollbackBooks
<1>3. CASE ~Rollback(c)
  <2> DEFINE t == call[c].todo
  <2>1. PICK s \in {"chain", "row", "number"} :
          /\ Doing(c, s)
          /\ Continue(c, IF s = "number"
                  THEN [call[c] EXCEPT !.number = counter[SeriesOf[call[c].inv]] + 1]
                  ELSE call[c])
          /\ UNCHANGED <<records, inv>>
    BY <1>3 DEF Acquire, bookRows
  <2> DEFINE new == IF s = "number"
                    THEN [call[c] EXCEPT !.number = counter[SeriesOf[call[c].inv]] + 1]
                    ELSE call[c]
  <2>2. CallShape(call[c])
    BY DEF BooksInv, LineInv, Shapes
  <2>3. /\ CallShape(new) /\ new.todo = t /\ new.rec = call[c].rec
        /\ new.kind = call[c].kind /\ new.inv = call[c].inv
    BY <2>2 DEF CallShape
  <2>4. Continue(c, new)
    BY <2>1
  <2> HIDE DEF new
  <2>5. PICK x : /\ call' = [call EXCEPT ![c] = x]
                 /\ x.todo = Tail(t) /\ x.rec = call[c].rec
                 /\ x.kind = call[c].kind /\ x.inv = call[c].inv
    BY <2>3, <2>4, ContinueShape
  <2>6. t # <<>> /\ (Tail(t) \in Generated => t \in Generated)
    BY <2>1, NotIdle, TodoSteps DEF BooksInv, LineInv
  <2>7. CallOK(x)
    BY <2>5, <2>6 DEF CallOK, BooksInv
  <2> QED BY <1>1, <2>1, <2>5, <2>7, BooksKept
<1> QED BY <1>2, <1>3

(* Under the salon's turn, the newest record decides what may be recorded. *)
LEMMA GenerateBooks ==
    ASSUME BooksInv, NEW c \in Calls, Generate(c) PROVE BooksInv'
<1>1. LineInv'
  BY GenerateKeeps DEF BooksInv
<1>2. CASE ~Recordable(c)
  BY <1>2, RollbackBooks DEF Generate
<1>3. CASE Recordable(c)
  <2> DEFINE new == [call[c] EXCEPT !.rec = RecordFor(c)]
             t == call[c].todo
             i == call[c].inv
  <2>1. /\ CallShape(new) /\ new.todo = t /\ new.rec = RecordFor(c)
        /\ new.kind = call[c].kind /\ new.inv = i
    BY DEF BooksInv, LineInv, Shapes, CallShape
  <2>2. Continue(c, new) /\ UNCHANGED <<records, inv>>
    BY <1>3 DEF Generate, bookRows
  <2> HIDE DEF new
  <2>3. PICK x : /\ call' = [call EXCEPT ![c] = x]
                 /\ x.todo = Tail(t) /\ x.rec = RecordFor(c)
                 /\ x.kind = call[c].kind /\ x.inv = i
    BY <2>1, <2>2, ContinueShape
  <2>4. t # <<>>
    BY NotIdle DEF Generate, BooksInv, LineInv
  <2>5. RecordFor(c).inv = i /\ RecordFor(c).kind = RecordKind(call[c].kind)
    BY DEF RecordFor, RecordKind
  <2>6. i \in Invoices
    BY <2>4 DEF BooksInv, CallOK
  <2>7. call[c].kind = "correct" => inv[i].status # "cancelled"
    BY <1>3, <2>6 DEF Recordable, BooksInv, CancelledIsAnnulled
  <2>8. call[c].kind = "again" => inv[i].status = "cancelled"
    BY <1>3, <2>4, <2>6 DEF Recordable, BooksInv, CancelledIsAnnulled, CallOK
  <2>9. CallOK(x)
    BY <2>3, <2>4, <2>5, <2>7, <2>8 DEF CallOK, BooksInv
  <2> QED BY <1>1, <2>2, <2>3, <2>9, BooksKept
<1> QED BY <1>2, <1>3

LEMMA MaxIs ==
    ASSUME NEW S, S \subseteq Nat, NEW n \in S, \A m \in S : m <= n
    PROVE  Max(S) = n
<1>1. \A y \in S : n >= y
  OBVIOUS
<1>2. \A x \in S : (\A y \in S : x >= y) => x = n
  OBVIOUS
<1> QED BY <1>1, <1>2, Zenon DEF Max

LEMMA WrittenStatus ==
    ASSUME BooksInv, NEW c \in Calls, call[c].inv \in Invoices
    PROVE  /\ Written(c) = [j \in Invoices |-> Written(c)[j]]
           /\ \A j \in Invoices : InvShape(Written(c)[j])
           /\ \A j \in Invoices \ {call[c].inv} : Written(c)[j] = inv[j]
           /\ Written(c)[call[c].inv].status =
                CASE call[c].kind \in {"issue", "rectify"} -> "issued"
                  [] call[c].kind \in {"cancel", "annul"}  -> "cancelled"
                  [] OTHER -> inv[call[c].inv].status
<1>1. inv = [j \in Invoices |-> inv[j]] /\ \A j \in Invoices : InvShape(inv[j])
  BY DEF BooksInv
<1>2. PICK st, n : /\ Written(c) = [inv EXCEPT ![call[c].inv] =
                                       [status |-> st, number |-> n, fiscal |-> "pending"]]
                   /\ st = CASE call[c].kind \in {"issue", "rectify"} -> "issued"
                             [] call[c].kind \in {"cancel", "annul"}  -> "cancelled"
                             [] OTHER -> inv[call[c].inv].status
  BY DEF Written
<1> QED BY <1>1, <1>2 DEF InvShape

(* The newest records once one more is appended.                           *)
LEMMA Appended ==
    ASSUME BooksInv, NEW rec, records' = Append(records, rec)
    PROVE  /\ RecordsOf(rec.inv)' # {}
           /\ HasNewest(rec.inv)' /\ Newest(rec.inv)' = rec
           /\ \A i \in Invoices \ {rec.inv} :
                 /\ RecordsOf(i)' = RecordsOf(i)
                 /\ HasNewest(i) => HasNewest(i)'
                 /\ RecordsOf(i) # {} => Newest(i)' = Newest(i)
<1>1. PICK S : records \in Seq(S)
  BY DEF BooksInv, LineInv, Shapes
<1> DEFINE last == Len(records) + 1
<1>2. /\ last \in Nat /\ DOMAIN records = 1..Len(records) /\ DOMAIN records' = 1..last
      /\ records'[last] = rec
      /\ \A n \in 1..Len(records) : records'[n] = records[n]
      /\ \A n \in 1..Len(records) : n < last
      /\ last \notin 1..Len(records) /\ 1..last = (1..Len(records)) \cup {last}
  BY <1>1
<1> HIDE DEF last
<1>3. last \in RecordsOf(rec.inv)' /\ \A m \in RecordsOf(rec.inv)' : m <= last
  BY <1>2 DEF RecordsOf
<1>4. Newest(rec.inv)' = rec
  <2>1. RecordsOf(rec.inv)' \subseteq Nat
    BY <1>2 DEF RecordsOf
  <2>2. Max(RecordsOf(rec.inv)') = last
    BY <1>3, <2>1, MaxIs
  <2> QED BY <1>2, <2>2 DEF Newest
<1>5. ASSUME NEW i \in Invoices \ {rec.inv}
      PROVE  /\ RecordsOf(i)' = RecordsOf(i)
             /\ HasNewest(i) => HasNewest(i)'
             /\ RecordsOf(i) # {} => Newest(i)' = Newest(i)
  <2>1. RecordsOf(i)' = RecordsOf(i)
    BY <1>2 DEF RecordsOf
  <2>2. HasNewest(i) => HasNewest(i)'
    BY <2>1 DEF HasNewest
  <2>3. ASSUME RecordsOf(i) # {} PROVE Newest(i)' = Newest(i)
    <3>1. PICK n \in RecordsOf(i) : \A m \in RecordsOf(i) : m <= n
      BY <2>3 DEF BooksInv, HasNewest
    <3>2. RecordsOf(i) \subseteq Nat /\ RecordsOf(i) \subseteq DOMAIN records
      BY <1>2 DEF RecordsOf
    <3>3. Max(RecordsOf(i)) = n
      BY <3>1, <3>2, MaxIs
    <3> QED BY <1>2, <2>1, <3>1, <3>2, <3>3 DEF Newest
  <2> QED BY <2>1, <2>2, <2>3
<1> QED BY <1>3, <1>4, <1>5 DEF HasNewest

LEMMA CommitBooks ==
    ASSUME BooksInv, NEW c \in Calls, Commit(c) PROVE BooksInv'
<1>0. PICK t, rec, i, kind : /\ t = call[c].todo /\ rec = call[c].rec
                            /\ i = call[c].inv /\ kind = call[c].kind
  OBVIOUS
<1>1. LineInv'
  BY CommitKeeps DEF BooksInv
<1>2. t \in Generated /\ t # <<>> /\ Tail(t) \in {<<>>, <<"kick">>}
  BY <1>0, NotIdle, TodoSteps DEF Commit, BooksInv, LineInv
<1>3. /\ i \in Invoices /\ rec.inv = i /\ rec.kind = RecordKind(kind)
      /\ kind \in {"issue", "rectify", "cancel", "annul", "correct", "again"}
      /\ kind = "correct" => inv[i].status # "cancelled"
      /\ kind = "again" => inv[i].status = "cancelled"
  BY <1>0, <1>2 DEF BooksInv, CallOK
<1>4. records' = Append(records, rec) /\ inv' = Written(c)
  BY <1>0 DEF Commit
<1>5. \A d \in Calls \ {c} : call[d].todo \notin InTurn
  BY <1>0, <1>2 DEF BooksInv, LineInv, TurnHeld, InTurn
<1>6. PICK new : /\ call' = [call EXCEPT ![c] = new] /\ new.todo \in Before
                 /\ new.todo # <<>> => new.kind = kind /\ new.inv = i
  <2>1. CASE Tail(t) = <<>>
    <3>1. call' = [call EXCEPT ![c] = Idle] /\ Idle.todo = <<>>
      BY <1>0, <2>1 DEF Commit, Idle
    <3> QED BY <3>1, IdleShape
  <2>2. CASE Tail(t) # <<>>
    <3> DEFINE old == [call[c] EXCEPT !.rec = NoRecord]
    <3>1. CallShape(old) /\ old.todo = t /\ old.kind = kind /\ old.inv = i
      BY <1>0 DEF BooksInv, LineInv, Shapes, CallShape
    <3>2. Continue(c, old)
      BY <1>0, <2>2 DEF Commit
    <3> HIDE DEF old
    <3>3. PICK x : /\ call' = [call EXCEPT ![c] = x] /\ x.todo = Tail(t)
                   /\ x.kind = kind /\ x.inv = i
      BY <3>1, <3>2, ContinueShape
    <3> QED BY <1>2, <2>2, <3>3 DEF Before
  <2> QED BY <2>1, <2>2
<1>7. /\ RecordsOf(i)' # {} /\ HasNewest(i)' /\ Newest(i)' = rec
      /\ \A j \in Invoices \ {i} :
            /\ RecordsOf(j)' = RecordsOf(j)
            /\ HasNewest(j) => HasNewest(j)'
            /\ RecordsOf(j) # {} => Newest(j)' = Newest(j)
  BY <1>3, <1>4, Appended
<1>8. \A d \in Calls : /\ d # c => call'[d] = call[d]
                       /\ d = c => call'[d] = new
                       /\ call'[d].todo \notin Generated
  BY <1>5, <1>6, NotYet DEF BooksInv, LineInv, Shapes, InTurn
<1>9. \A d \in Calls : CallOK(call[d])'
  <2>1. ASSUME NEW d \in Calls, d # c PROVE CallOK(call[d])'
    <3>1. call'[d] = call[d] /\ call'[d].todo \notin Generated /\ CallOK(call[d])
      BY <1>8, <2>1 DEF BooksInv
    <3>2. \A j \in Invoices : RecordsOf(j) # {} => RecordsOf(j)' # {}
      BY <1>7
    <3> QED BY <3>1, <3>2 DEF CallOK
  <2>2. CallOK(call[c])'
    <3>1. call'[c] = new /\ new.todo \notin Generated
      BY <1>8
    <3> QED BY <1>3, <1>6, <1>7, <3>1 DEF CallOK
  <2> QED BY <2>1, <2>2
<1>10. /\ inv' = [j \in Invoices |-> inv'[j]] /\ \A j \in Invoices : InvShape(inv'[j])
       /\ \A j \in Invoices \ {i} : inv'[j] = inv[j]
       /\ inv'[i].status = CASE kind \in {"issue", "rectify"} -> "issued"
                             [] kind \in {"cancel", "annul"}  -> "cancelled"
                             [] OTHER -> inv[i].status
  BY <1>0, <1>3, <1>4, WrittenStatus
<1>11. Recorded'
  BY <1>7, <1>10 DEF BooksInv, Recorded
<1>12. inv'[i].status = "cancelled" <=> rec.kind = "anulacion"
  BY <1>3, <1>10 DEF RecordKind
<1>13. CancelledIsAnnulled'
  BY <1>7, <1>10, <1>12 DEF BooksInv, CancelledIsAnnulled
<1> QED BY <1>1, <1>7, <1>9, <1>10, <1>11, <1>13 DEF BooksInv

LEMMA CallBooks ==
    ASSUME BooksInv, NEW c \in Calls,
           Request(c) \/ Proceed(c) \/ Refuse(c) \/ BreakDeadlock(c)
    PROVE  BooksInv'
<1>1. CASE Kick(c)
  <2>1. LineInv'
    BY <1>1, CallKeeps DEF Proceed, BooksInv
  <2>2. call' = [call EXCEPT ![c] = Idle] /\ UNCHANGED <<records, inv>>
    BY <1>1 DEF Kick, bookRows
  <2> QED BY <2>1, <2>2, IdleOK, BooksKept
<1>2. CASE Refuse(c) \/ BreakDeadlock(c)
  BY <1>2, RollbackBooks DEF Refuse, BreakDeadlock
<1> QED BY <1>1, <1>2, RequestBooks, AcquireBooks, GenerateBooks, CommitBooks DEF Proceed

\* A record's status, and what its invoice shows, decide none of it.
LEMMA SenderBooks ==
    ASSUME BooksInv, LineInv', UNCHANGED call,
           /\ DOMAIN records' = DOMAIN records
           /\ \A n \in DOMAIN records : /\ records'[n].inv = records[n].inv
                                        /\ records'[n].kind = records[n].kind,
           inv' = [i \in Invoices |-> inv'[i]],
           \A i \in Invoices : InvShape(inv'[i]) /\ inv'[i].status = inv[i].status
    PROVE  BooksInv'
<1>1. \A i : RecordsOf(i)' = RecordsOf(i) /\ (HasNewest(i)' <=> HasNewest(i))
  BY DEF RecordsOf, HasNewest
<1>2. ASSUME NEW i \in Invoices, RecordsOf(i) # {}
      PROVE  Newest(i)'.kind = Newest(i).kind
  <2>1. PICK n \in RecordsOf(i) : \A m \in RecordsOf(i) : m <= n
    BY <1>2 DEF BooksInv, HasNewest
  <2>2. RecordsOf(i) \subseteq DOMAIN records /\ DOMAIN records \subseteq Nat
    BY DEF RecordsOf, BooksInv, LineInv, Shapes
  <2>3. Max(RecordsOf(i)) = n
    BY <2>1, <2>2, MaxIs
  <2> QED BY <1>1, <2>1, <2>2, <2>3 DEF Newest
<1>3. \A c \in Calls : CallOK(call[c])'
  <2>1. <<>> \notin Generated
    BY DEF Generated
  <2> QED BY <1>1, <2>1 DEF BooksInv, CallOK
<1>4. Recorded' /\ CancelledIsAnnulled'
  BY <1>1, <1>2 DEF BooksInv, Recorded, CancelledIsAnnulled
<1> QED BY <1>1, <1>3, <1>4 DEF BooksInv

LEMMA BooksStep ==
    ASSUME BooksInv, [Next]_vars PROVE BooksInv'
<1>1. LineInv'
  BY LineStep DEF BooksInv
<1>2. inv = [i \in Invoices |-> inv[i]] /\ \A i \in Invoices : InvShape(inv[i])
  BY DEF BooksInv
<1>3. CASE \E c \in Calls : Request(c) \/ Proceed(c) \/ Refuse(c) \/ BreakDeadlock(c)
  BY <1>3, CallBooks
<1>4. CASE \E s \in Senders : Apply(s)
  <2>1. PICK n, st : records' = [records EXCEPT ![n].status = st] /\ UNCHANGED <<inv, call>>
    BY <1>4 DEF Apply, locks
  <2>2. \A m \in DOMAIN records : RecordShape(records[m])
    BY DEF BooksInv, LineInv, Shapes
  <2>3. n \in DOMAIN records =>
           /\ [records[n] EXCEPT !.status = st].inv = records[n].inv
           /\ [records[n] EXCEPT !.status = st].kind = records[n].kind
    BY <2>2 DEF RecordShape
  <2>4. /\ DOMAIN records' = DOMAIN records
        /\ \A m \in DOMAIN records : /\ records'[m].inv = records[m].inv
                                     /\ records'[m].kind = records[m].kind
    BY <2>1, <2>3
  <2> QED BY <1>1, <1>2, <2>1, <2>4, SenderBooks
<1>5. CASE \E s \in Senders : Reflect(s)
  <2>1. PICK i, f : inv' = [inv EXCEPT ![i].fiscal = f] /\ UNCHANGED <<records, call>>
    BY <1>5 DEF Reflect, locks
  <2>2. i \in Invoices => /\ InvShape([inv[i] EXCEPT !.fiscal = f])
                          /\ [inv[i] EXCEPT !.fiscal = f].status = inv[i].status
    BY <1>2 DEF InvShape
  <2>3. /\ inv' = [j \in Invoices |-> inv'[j]]
        /\ \A j \in Invoices : InvShape(inv'[j]) /\ inv'[j].status = inv[j].status
    BY <1>2, <2>1, <2>2
  <2> QED BY <1>1, <2>1, <2>3, SenderBooks
<1>6. CASE \/ \E s \in Senders : \/ Claim(s) \/ LookForNewest(s) \/ Done(s)
                                 \/ NotSent(s) \/ AnswerLost(s) \/ Answered(s) \/ Die(s)
           \/ WaitEnds
           \/ UNCHANGED vars
  <2>1. UNCHANGED <<records, inv, call>>
    BY <1>6 DEF Claim, LookForNewest, Done, NotSent, AnswerLost, Answered, Die,
                WaitEnds, Fail, vars, bookRows, locks
  <2> QED BY <1>1, <1>2, <2>1, SenderBooks
<1> QED BY <1>3, <1>4, <1>5, <1>6 DEF Next, Submit

LEMMA BooksInit == Init => BooksInv
<1> SUFFICES ASSUME Init PROVE BooksInv
  OBVIOUS
<1>1. LineInv
  BY LineInit
<1>2. \A i : RecordsOf(i) = {}
  BY DEF Init, RecordsOf
<1>3. \A c \in Calls : CallOK(call[c])
  BY IdleOK DEF Init
<1>4. /\ inv = [i \in Invoices |-> inv[i]]
      /\ \A i \in Invoices : InvShape(inv[i]) /\ inv[i].status = "absent"
  BY DEF Init, InvShape
<1> QED BY <1>1, <1>2, <1>3, <1>4 DEF BooksInv, Recorded, CancelledIsAnnulled

(* BooksInv is inductive: what a call found under the salon's turn of the   *)
(* invoice's newest record is still so when it writes the invoice, as no   *)
(* other record is appended and none but a commit writes its status.       *)
THEOREM BooksHold == Spec => []BooksInv
<1>1. BooksInv /\ [Next]_vars => BooksInv'
  BY BooksStep
<1> QED BY BooksInit, <1>1, PTL DEF Spec

(* An invoice is cancelled exactly when its newest record annuls it        *)
(* (recordAnulacion, recordSubsanacion, recordAnulacionAgain).             *)
THEOREM AnnulmentHolds == Spec => []CancelledIsAnnulled
<1>1. BooksInv => CancelledIsAnnulled
  BY DEF BooksInv
<1> QED BY BooksHold, <1>1, PTL

-----------------------------------------------------------------------------
(* The book.  What a call found under its locks is still so when it        *)
(* commits, and what it allocated is still the next number.                *)

RequestKinds == {"issue", "rectify", "cancel", "annul", "correct", "again"}
Fresh == {"issue", "rectify"}
Ends == {"cancel", "annul"}

\* What a request of a kind has yet to do, from its start to its end.
FromChain == {<<"chain", "number", "record", "commit">>,
              <<"number", "record", "commit">>,
              <<"record", "commit">>, <<"commit">>}

Todos(kind) ==
    CASE kind = "issue"   -> FromChain
      [] kind = "rectify" -> FromChain \cup
                             {<<"row", "chain", "number", "record", "commit">>}
      [] kind \in Ends    -> {<<"row", "chain", "record", "commit">>,
                              <<"chain", "record", "commit">>,
                              <<"record", "commit">>, <<"commit">>}
      [] kind \in {"correct", "again"} ->
                             {<<"chain", "record", "row", "commit", "kick">>,
                              <<"record", "row", "commit", "kick">>,
                              <<"row", "commit", "kick">>,
                              <<"commit", "kick">>, <<"kick">>}
      [] OTHER            -> {<<>>}

\* Its invoice's row is still to be locked; its number is taken; it has a
\* record to write.
RowLeft == {<<"row", "chain", "record", "commit">>,
            <<"row", "chain", "number", "record", "commit">>}
Numbered == {<<"record", "commit">>, <<"commit">>}
Owes(t) == t # <<>> /\ t # <<"kick">>

LEMMA TodosTyped == \A kind : Todos(kind) \subseteq InTurn \cup Before
  BY DEF Todos, FromChain, InTurn, Before, Generated, Ends

LEMMA TodosStart ==
    /\ <<"chain", "number", "record", "commit">> \in Todos("issue") \ (Numbered \cup RowLeft)
    /\ <<"row", "chain", "number", "record", "commit">> \in Todos("rectify") \ Numbered
    /\ \A kind \in Ends : <<"row", "chain", "record", "commit">> \in Todos(kind)
    /\ <<"row", "chain", "number", "record", "commit">> \in RowLeft
    /\ <<"row", "chain", "record", "commit">> \in RowLeft \ Generated
    /\ \A kind \in {"correct", "again"} :
          /\ <<"chain", "record", "row", "commit", "kick">> \in Todos(kind)
          /\ <<"kick">> \in Todos(kind)
<1> QED BY DEF Todos, FromChain, RowLeft, Numbered, Ends, Generated

LEMMA TodosEnds ==
    /\ <<>> \in Todos("none") /\ \A kind \in RequestKinds : <<>> \notin Todos(kind)
    /\ <<>> \notin Generated \cup Numbered \cup RowLeft
    /\ <<"kick">> \notin Generated \cup Numbered \cup RowLeft
    /\ ~Owes(<<>>) /\ ~Owes(<<"kick">>)
    /\ Numbered \subseteq InTurn /\ \A t \in Generated : Owes(t)
<1> QED BY DEF Todos, FromChain, RequestKinds, Generated, Numbered, RowLeft, Owes, Ends, InTurn

(* One statement of a request.                                             *)
LEMMA TodosGoOn ==
    ASSUME NEW kind \in RequestKinds, NEW t \in Todos(kind)
    PROVE  /\ t # <<>>
           /\ Tail(t) # <<>> => Tail(t) \in Todos(kind)
           /\ Tail(t) \notin RowLeft
           /\ kind \in Ends \cup {"rectify"} => (Head(t) = "row" <=> t \in RowLeft)
           /\ kind \notin Ends \cup {"rectify"} => t \notin RowLeft
           /\ kind \in Fresh /\ Tail(t) \in Numbered =>
                 Head(t) = "number" \/ t \in Numbered
           /\ kind \in Fresh /\ Head(t) \in {"record", "commit"} => t \in Numbered
           /\ Head(t) = "number" => kind \in Fresh
           /\ Owes(Tail(t)) => Owes(t)
           /\ t \notin {<<"kick">>} /\ Head(t) # "commit" => Tail(t) # <<>>
           /\ Head(t) = "commit" => /\ Owes(t) /\ ~Owes(Tail(t))
                                    /\ Tail(t) # <<>> => kind \notin Fresh \cup Ends
           /\ kind \in Ends /\ Tail(t) \in Generated => Head(t) = "record" \/ t \in Generated
           /\ Head(t) = "kick" => t = <<"kick">>
<1> USE DEF Todos, FromChain, RequestKinds, Fresh, Ends, RowLeft, Numbered, Owes, Generated
<1>1. CASE kind = "issue"
  <2>1. CASE t = <<"chain", "number", "record", "commit">>
    BY <1>1, <2>1
  <2>2. CASE t = <<"number", "record", "commit">>
    BY <1>1, <2>2
  <2>3. CASE t = <<"record", "commit">>
    BY <1>1, <2>3
  <2>4. CASE t = <<"commit">>
    BY <1>1, <2>4
  <2> QED BY <1>1, <2>1, <2>2, <2>3, <2>4
<1>2. CASE kind = "rectify"
  <2>1. CASE t = <<"row", "chain", "number", "record", "commit">>
    BY <1>2, <2>1
  <2>2. CASE t = <<"chain", "number", "record", "commit">>
    BY <1>2, <2>2
  <2>3. CASE t = <<"number", "record", "commit">>
    BY <1>2, <2>3
  <2>4. CASE t = <<"record", "commit">>
    BY <1>2, <2>4
  <2>5. CASE t = <<"commit">>
    BY <1>2, <2>5
  <2> QED BY <1>2, <2>1, <2>2, <2>3, <2>4, <2>5
<1>3. CASE kind \in Ends
  <2>1. CASE t = <<"row", "chain", "record", "commit">>
    BY <1>3, <2>1
  <2>2. CASE t = <<"chain", "record", "commit">>
    BY <1>3, <2>2
  <2>3. CASE t = <<"record", "commit">>
    BY <1>3, <2>3
  <2>4. CASE t = <<"commit">>
    BY <1>3, <2>4
  <2> QED BY <1>3, <2>1, <2>2, <2>3, <2>4
<1>4. CASE kind \in {"correct", "again"}
  <2>1. CASE t = <<"chain", "record", "row", "commit", "kick">>
    BY <1>4, <2>1
  <2>2. CASE t = <<"record", "row", "commit", "kick">>
    BY <1>4, <2>2
  <2>3. CASE t = <<"row", "commit", "kick">>
    BY <1>4, <2>3
  <2>4. CASE t = <<"commit", "kick">>
    BY <1>4, <2>4
  <2>5. CASE t = <<"kick">>
    BY <1>4, <2>5
  <2> QED BY <1>4, <2>1, <2>2, <2>3, <2>4, <2>5
<1> QED BY <1>1, <1>2, <1>3, <1>4

InvType == [status : {"absent", "issued", "cancelled"}, number : Nat,
            fiscal : {"none", "pending", "accepted", "rejected"}]
RecType == [kind : {"none", "alta", "anulacion"}, inv : Invoices \cup {NoInvoice},
            previous : Nat, expects : {"nothing", "alta"},
            status : {"pending", "accepted", "errors", "rejected"}]

BookTypes == /\ inv \in [Invoices -> InvType]
             /\ records \in Seq(RecType)
             /\ counter \in [Series -> Nat]
             /\ held \in [LockIds -> Calls \cup {NoCall}]

RowIn(x) == IF x.kind = "rectify" THEN Rectifies[x.inv] ELSE x.inv

DeskTyped(x) == /\ x.todo \in Todos(x.kind) /\ x.number \in Nat /\ x.rec \in RecType
                /\ x.todo # <<>> => x.kind \in RequestKinds /\ x.inv \in Invoices

\* Of an invoice that is not there yet, and no other call's...
OfNew(x) == x.todo # <<>> /\ x.kind \in Fresh =>
    /\ inv[x.inv].status = "absent"
    /\ x.kind = "issue" <=> Rectifies[x.inv] = NoInvoice
    /\ x.kind = "rectify" => inv[Rectifies[x.inv]].status # "absent"
    /\ x.todo \in Numbered => /\ x.number = counter[SeriesOf[x.inv]] + 1
                              /\ ~Invoiced(x.inv)

\* ... or of one that is.
OfIssued(x) == x.todo # <<>> /\ x.kind \notin Fresh =>
    /\ inv[x.inv].status # "absent" /\ x.number = 0
    /\ x.kind \in Ends /\ x.todo \in Generated => inv[x.inv].status # "cancelled"

\* What was seen under the lock h has of its row is still so.
RowKept(c, x, h) ==
    x.todo # <<>> /\ x.kind \in Ends \cup {"rectify"} /\ x.todo \notin RowLeft =>
        /\ h[<<"row", RowIn(x)>>] = c
        /\ x.kind = "rectify" => inv[Rectifies[x.inv]].status = "issued"
        /\ x.kind \in Ends => LiveRectifications(x.inv) = {}

DeskOK(c, x, h) == /\ DeskTyped(x) /\ OfNew(x) /\ OfIssued(x) /\ RowKept(c, x, h)
                   /\ x.todo \in Generated => x.rec.kind # "none"

\* A call busy with an invoice that is not there yet.
Brings(x) == x.todo # <<>> /\ x.kind \in Fresh

OneBrings == \A c, d \in Calls : c # d /\ Brings(call[c]) /\ Brings(call[d])
                                   => call[c].inv # call[d].inv

Owing == {c \in Calls : Owes(call[c].todo)}
Room == Len(records) + Cardinality(Owing) <= MaxRecords

Counted == /\ \A i \in Invoices : inv[i].number = 0 <=> inv[i].status = "absent"
           /\ \A s \in Series :
                 counter[s] = Cardinality({i \in Invoices : inv[i].number # 0
                                                            /\ SeriesOf[i] = s})

OfTheBook == \A n \in DOMAIN records :
    /\ records[n].inv \in Invoices /\ records[n].kind # "none"
    /\ inv[records[n].inv].status # "absent"
    /\ records[n].kind = "anulacion" => inv[records[n].inv].status = "cancelled"

KeptInv == /\ BooksInv /\ BookTypes
           /\ \A c \in Calls : DeskOK(c, call[c], held)
           /\ OneBrings /\ Room /\ Counted /\ OfTheBook

LEMMA RowsAreLocked ==
    ASSUME NEW x, DeskTyped(x), OfNew(x), x.todo # <<>>
    PROVE  RowIn(x) \in Invoices /\ <<"row", RowIn(x)>> \in LockIds
<1>1. x.kind = "rectify" => Rectifies[x.inv] \in Invoices
  BY InvoicesAssumption DEF OfNew, DeskTyped, Fresh
<1>2. RowIn(x) \in Invoices
  BY <1>1 DEF RowIn, DeskTyped
<1> QED BY <1>2 DEF LockIds

LEMMA OwingMoves ==
    ASSUME KeptInv, NEW c \in Calls, NEW new, call' = [call EXCEPT ![c] = new]
    PROVE  /\ Cardinality(Owing) \in Nat /\ Cardinality(Owing') \in Nat
           /\ Cardinality(Owing') = Cardinality(Owing)
                 + (IF Owes(new.todo) THEN 1 ELSE 0)
                 - (IF Owes(call[c].todo) THEN 1 ELSE 0)
<1>1. \A d \in Calls : call'[d] = IF d = c THEN new ELSE call[d]
  BY DEF KeptInv, BooksInv, LineInv, Shapes
<1>2. /\ Owing \in SUBSET Calls /\ Owing' \in SUBSET Calls
      /\ \A d \in Calls \ {c} : d \in Owing' <=> d \in Owing
      /\ c \in Owing' <=> Owes(new.todo)
      /\ c \in Owing <=> Owes(call[c].todo)
  BY <1>1 DEF Owing
<1>3. PICK A, B : A = Owing /\ B = Owing'
  OBVIOUS
<1>4. IsFiniteSet(Calls)
  BY CallsAssumption
<1>5. /\ Cardinality(A) \in Nat /\ Cardinality(B) \in Nat
      /\ Cardinality(B) = Cardinality(A) + (IF c \in B THEN 1 ELSE 0)
                                         - (IF c \in A THEN 1 ELSE 0)
  BY <1>2, <1>3, <1>4, CountMoves
<1> QED BY <1>2, <1>3, <1>5

(* A step of one call that writes nothing of the book.                     *)
LEMMA DeskKept ==
    ASSUME KeptInv, BooksInv', NEW c \in Calls, NEW new,
           call' = [call EXCEPT ![c] = new], UNCHANGED bookRows,
           held' \in [LockIds -> Calls \cup {NoCall}],
           \A d \in Calls \ {c}, l \in LockIds : held[l] = d => held'[l] = d,
           DeskOK(c, new, held'),
           Brings(new) => \A d \in Calls \ {c} : Brings(call[d]) => call[d].inv # new.inv,
           Owes(new.todo) => \/ Owes(call[c].todo)
                             \/ Len(records) + Cardinality(Owing) < MaxRecords
    PROVE  KeptInv'
<1>1. \A d \in Calls : call'[d] = IF d = c THEN new ELSE call[d]
  BY DEF KeptInv, BooksInv, LineInv, Shapes
<1>2. UNCHANGED <<inv, records, counter>>
  BY DEF bookRows
<1>3. \A i : LiveRectifications(i)' = LiveRectifications(i) /\ (Invoiced(i)' <=> Invoiced(i))
  BY <1>2 DEF LiveRectifications, Invoiced
<1>4. ASSUME NEW d \in Calls PROVE DeskOK(d, call[d], held)'
  <2>1. DeskOK(d, call'[d], held')
    <3>1. CASE d = c
      BY <1>1, <3>1
    <3>2. CASE d # c
      <4>1. DeskOK(d, call[d], held)
        BY DEF KeptInv
      <4>2. call[d].todo # <<>> => <<"row", RowIn(call[d])>> \in LockIds
        BY <4>1, RowsAreLocked DEF DeskOK
      <4>3. RowKept(d, call[d], held')
        BY <3>2, <4>1, <4>2 DEF DeskOK, RowKept
      <4> QED BY <1>1, <3>2, <4>1, <4>3 DEF DeskOK
    <3> QED BY <3>1, <3>2
  <2> QED BY <1>2, <1>3, <2>1 DEF DeskOK, DeskTyped, OfNew, OfIssued, RowKept
<1>5. OneBrings'
  BY <1>1 DEF KeptInv, OneBrings, Brings
<1>6. Room'
  <2>1. Len(records) \in Nat
    BY DEF KeptInv, BookTypes
  <2>2. PICK m, n : m = Cardinality(Owing) /\ n = Cardinality(Owing')
    OBVIOUS
  <2>3. m \in Nat /\ n \in Nat
    BY <2>2, OwingMoves
  <2>4. n = m + (IF Owes(new.todo) THEN 1 ELSE 0) - (IF Owes(call[c].todo) THEN 1 ELSE 0)
    BY <2>2, OwingMoves
  <2>5. Len(records) + m <= MaxRecords /\ MaxRecords \in Nat
    BY <2>2, CallsAssumption DEF KeptInv, Room
  <2>6. Owes(new.todo) => Owes(call[c].todo) \/ Len(records) + m < MaxRecords
    BY <2>2
  <2>7. Len(records) + n <= MaxRecords
    BY <2>1, <2>3, <2>4, <2>5, <2>6
  <2> QED BY <1>2, <2>2, <2>7 DEF Room
<1>7. BookTypes' /\ Counted' /\ OfTheBook'
  BY <1>2 DEF KeptInv, BookTypes, Counted, OfTheBook
<1> QED BY <1>4, <1>5, <1>6, <1>7 DEF KeptInv

LEMMA IdleDesk == \A c, h : DeskOK(c, Idle, h)
<1>1. Idle.todo = <<>> /\ Idle.kind = "none" /\ Idle.number = 0 /\ Idle.rec = NoRecord
  BY DEF Idle
<1>2. NoRecord \in RecType
  BY DEF NoRecord, RecType
<1> QED BY <1>1, <1>2, TodosEnds DEF DeskOK, DeskTyped, OfNew, OfIssued, RowKept

LEMMA ReleasedDesk ==
    ASSUME KeptInv, NEW c \in Calls, held' = Released(c)
    PROVE  /\ held' \in [LockIds -> Calls \cup {NoCall}]
           /\ \A d \in Calls \ {c}, l \in LockIds : held[l] = d => held'[l] = d
  BY DEF KeptInv, BookTypes, Released

LEMMA RollbackDesk ==
    ASSUME KeptInv, NEW c \in Calls, Rollback(c) PROVE KeptInv'
<1>1. BooksInv'
  BY RollbackBooks DEF KeptInv
<1>2. call' = [call EXCEPT ![c] = Idle] /\ held' = Released(c) /\ UNCHANGED bookRows
  BY DEF Rollback
<1>3. ~Brings(Idle) /\ ~Owes(Idle.todo)
  BY TodosEnds DEF Brings, Idle
<1> QED BY <1>1, <1>2, <1>3, IdleDesk, ReleasedDesk, DeskKept

(* A request begins.                                                       *)
LEMMA BeginDesk ==
    ASSUME KeptInv, NEW c \in Calls, Request(c),
           NEW kind \in RequestKinds, NEW i \in Invoices, NEW todo \in Todos(kind),
           Begin(c, kind, i, todo),
           todo \notin Generated /\ todo \notin Numbered,
           kind \in Ends \cup {"rectify"} => todo \in RowLeft,
           kind \in Fresh =>
              /\ inv[i].status = "absent"
              /\ kind = "issue" <=> Rectifies[i] = NoInvoice
              /\ kind = "rectify" => inv[Rectifies[i]].status # "absent"
              /\ \A d \in Calls : call[d].inv # i,
           kind \notin Fresh => inv[i].status # "absent",
           Owes(todo) => RoomForOne
    PROVE  KeptInv'
<1> DEFINE new == [kind |-> kind, inv |-> i, todo |-> todo, number |-> 0,
                   rec |-> NoRecord]
<1>1. /\ new.kind = kind /\ new.inv = i /\ new.todo = todo /\ new.number = 0
      /\ new.rec = NoRecord
  OBVIOUS
<1>2. /\ call' = [call EXCEPT ![c] = new] /\ UNCHANGED <<bookRows, held>>
      /\ call[c] = Idle
  BY DEF Begin
<1> HIDE DEF new
<1>3. BooksInv'
  BY RequestBooks DEF KeptInv
<1>4. NoRecord \in RecType
  BY DEF NoRecord, RecType
<1>5. DeskOK(c, new, held')
  BY <1>1, <1>4 DEF DeskOK, DeskTyped, OfNew, OfIssued, RowKept
<1>6. held' \in [LockIds -> Calls \cup {NoCall}]
  BY <1>2 DEF KeptInv, BookTypes
<1>7. Brings(new) => \A d \in Calls \ {c} : call[d].inv # new.inv
  BY <1>1 DEF Brings
<1>8. Owes(todo) => Len(records) + Cardinality(Owing) < MaxRecords
  <2> DEFINE busy == {d \in Calls : call[d] # Idle}
  <2>1. Owing \subseteq busy /\ IsFiniteSet(busy)
    BY CallsAssumption, FS_Subset, TodosEnds DEF Owing, Idle
  <2>2. Cardinality(Owing) <= Cardinality(busy) /\ Cardinality(busy) \in Nat
        /\ Cardinality(Owing) \in Nat
    BY <2>1, FS_Subset, FS_CardinalityType
  <2>3. RoomForOne => Len(records) + Cardinality(busy) < MaxRecords
    BY DEF RoomForOne
  <2>4. Len(records) \in Nat /\ MaxRecords \in Nat
    BY CallsAssumption DEF KeptInv, BookTypes
  <2> HIDE DEF busy
  <2> QED BY <2>2, <2>3, <2>4
<1> QED BY <1>1, <1>2, <1>3, <1>5, <1>6, <1>7, <1>8, DeskKept

LEMMA RequestDesk ==
    ASSUME KeptInv, NEW c \in Calls, Request(c) PROVE KeptInv'
<1> USE DEF RequestKinds, Fresh, Ends
<1>1. CASE StartIssue(c)
  <2>1. PICK i \in Invoices :
          /\ inv[i].status = "absent" /\ Rectifies[i] = NoInvoice
          /\ \A d \in Calls : call[d].inv # i
          /\ RoomForOne
          /\ Begin(c, "issue", i, <<"chain", "number", "record", "commit">>)
    BY <1>1 DEF StartIssue
  <2>2. PICK t : t = <<"chain", "number", "record", "commit">>
    OBVIOUS
  <2>3. t \in Todos("issue") /\ t \notin Generated /\ t \notin Numbered
    BY <2>2, TodosStart, NotYet DEF Generated
  <2> QED BY <2>1, <2>2, <2>3, BeginDesk
<1>2. CASE StartRectify(c)
  <2>1. PICK i \in Invoices :
          /\ inv[i].status = "absent" /\ Rectifies[i] # NoInvoice
          /\ \A d \in Calls : call[d].inv # i
          /\ inv[Rectifies[i]].status # "absent"
          /\ RoomForOne
          /\ Begin(c, "rectify", i, <<"row", "chain", "number", "record", "commit">>)
    BY <1>2 DEF StartRectify
  <2>2. PICK t : t = <<"row", "chain", "number", "record", "commit">>
    OBVIOUS
  <2>3. t \in Todos("rectify") /\ t \notin Generated /\ t \notin Numbered /\ t \in RowLeft
    BY <2>2, TodosStart DEF Generated
  <2> QED BY <2>1, <2>2, <2>3, BeginDesk
<1>3. CASE StartCancel(c)
  <2>1. PICK i \in Invoices, kind \in {"cancel", "annul"} :
          /\ inv[i].status # "absent" /\ RoomForOne
          /\ Begin(c, kind, i, <<"row", "chain", "record", "commit">>)
    BY <1>3 DEF StartCancel
  <2>2. PICK t : t = <<"row", "chain", "record", "commit">>
    OBVIOUS
  <2>3. t \in Todos(kind) /\ t \notin Generated /\ t \notin Numbered /\ t \in RowLeft
    BY <2>2, TodosStart DEF Generated, Numbered
  <2> QED BY <2>1, <2>2, <2>3, BeginDesk
<1>4. CASE StartResend(c)
  <2>1. PICK i \in Invoices, kind \in {"correct", "again"},
             t \in {<<"chain", "record", "row", "commit", "kick">>, <<"kick">>} :
          /\ inv[i].status # "absent"
          /\ t # <<"kick">> => RoomForOne
          /\ Begin(c, kind, i, t)
    BY <1>4 DEF StartResend
  <2>2. t \in Todos(kind) /\ t \notin Generated /\ t \notin Numbered
    BY <2>1, TodosStart DEF Generated, Numbered
  <2>3. Owes(t) => RoomForOne
    BY <2>1 DEF Owes
  <2> QED BY <2>1, <2>2, <2>3, BeginDesk
<1> QED BY <1>1, <1>2, <1>3, <1>4 DEF Request

(* A lock is taken, and what it guards looked at.                          *)
LEMMA AcquireDesk ==
    ASSUME KeptInv, NEW c \in Calls, Acquire(c) PROVE KeptInv'
<1>1. PICK s \in {"chain", "row", "number"} :
        /\ Doing(c, s) /\ Grant(c, s)
        /\ IF Allowed(c, s)
           THEN /\ held' = [held EXCEPT ![LockOf(c, s)] = c]
                /\ Continue(c, IF s = "number"
                        THEN [call[c] EXCEPT !.number =
                                counter[SeriesOf[call[c].inv]] + 1]
                        ELSE call[c])
                /\ UNCHANGED <<bookRows, queue, agency>>
           ELSE Rollback(c)
  BY DEF Acquire
<1>2. CASE ~Allowed(c, s)
  BY <1>1, <1>2, RollbackDesk
<1>3. CASE Allowed(c, s)
  <2>0. PICK o : o = call[c]
    OBVIOUS
  <2> DEFINE num == IF s = "number" THEN counter[SeriesOf[o.inv]] + 1 ELSE o.number
             new == IF s = "number"
                    THEN [o EXCEPT !.number = counter[SeriesOf[o.inv]] + 1]
                    ELSE o
  <2>1. CallShape(o) /\ DeskOK(c, o, held)
    BY <2>0 DEF KeptInv, BooksInv, LineInv, Shapes
  <2>2. o.todo # <<>> /\ Head(o.todo) = s
    BY <1>1, <2>0 DEF Doing
  <2>3. /\ o.kind \in RequestKinds /\ o.inv \in Invoices /\ o.todo \in Todos(o.kind)
        /\ o.number \in Nat /\ o.rec \in RecType
    BY <2>1, <2>2 DEF DeskOK, DeskTyped
  <2>4. /\ CallShape(new) /\ new.todo = o.todo /\ new.rec = o.rec
        /\ new.kind = o.kind /\ new.inv = o.inv /\ new.number = num
    BY <2>1 DEF CallShape
  <2>5. Continue(c, new)
    BY <1>1, <1>3, <2>0
  <2>6. /\ held' = [held EXCEPT ![LockOf(c, s)] = c] /\ UNCHANGED bookRows
    BY <1>1, <1>3
  <2> HIDE DEF new
  <2>7. PICK x : /\ call' = [call EXCEPT ![c] = x]
                 /\ x.todo = Tail(o.todo) /\ x.rec = o.rec /\ x.number = num
                 /\ x.kind = o.kind /\ x.inv = o.inv
    BY <2>4, <2>5, ContinueShape
  <2>8. num \in Nat
    <3>1. SeriesOf[o.inv] \in Series
      BY <2>3 DEF Series
    <3> QED BY <2>3, <3>1 DEF KeptInv, BookTypes
  <2>9. /\ Tail(o.todo) # <<>> => Tail(o.todo) \in Todos(o.kind)
        /\ Tail(o.todo) \notin RowLeft
        /\ o.kind \in Ends \cup {"rectify"} => (s = "row" <=> o.todo \in RowLeft)
        /\ o.kind \in Fresh /\ Tail(o.todo) \in Numbered =>
              s = "number" \/ o.todo \in Numbered
        /\ s = "number" => o.kind \in Fresh
        /\ Owes(Tail(o.todo)) => Owes(o.todo)
        /\ o.kind \in Ends /\ Tail(o.todo) \in Generated => o.todo \in Generated
    BY <2>2, <2>3, TodosGoOn
  <2>10. Tail(o.todo) # <<>>
    BY <2>2, <2>3, TodosGoOn
  <2>11. Tail(o.todo) \in Generated => o.todo \in Generated
    <3>1. o.todo \in InTurn \cup Before
      BY <2>3, TodosTyped
    <3> QED BY <2>2, <3>1, TodoSteps
  <2>12. LockOf(c, s) = CASE s = "chain" -> <<"chain">>
                          [] s = "row" -> <<"row", RowIn(o)>>
                          [] s = "number" -> <<"series", SeriesOf[o.inv]>>
    BY <2>0 DEF LockOf, RowOf, RowIn
  <2>13. LockOf(c, s) \in LockIds
    <3>1. RowIn(o) \in Invoices
      BY <2>1, <2>2, RowsAreLocked DEF DeskOK
    <3> QED BY <2>3, <2>12, <3>1 DEF LockIds, Series
  <2>14. /\ held' \in [LockIds -> Calls \cup {NoCall}]
         /\ held'[LockOf(c, s)] = c
         /\ \A l \in LockIds : l # LockOf(c, s) => held'[l] = held[l]
    BY <2>6, <2>13 DEF KeptInv, BookTypes
  <2>15. \A d \in Calls \ {c}, l \in LockIds : held[l] = d => held'[l] = d
    BY <1>1, <2>14, NoCallAssumption DEF Grant
  <2>16. OfNew(x)
    <3>1. ASSUME x.kind \in Fresh, x.todo \in Numbered
          PROVE  x.number = counter[SeriesOf[x.inv]] + 1 /\ ~Invoiced(x.inv)
      <4>1. CASE s = "number"
        <5>1. x.number = counter[SeriesOf[x.inv]] + 1
          BY <2>7, <4>1
        <5>2. CASE x.kind = "issue"
          BY <1>3, <2>0, <2>7, <4>1, <5>2 DEF Allowed
        <5>3. CASE x.kind = "rectify"
          <6>1. Rectifies[x.inv] # NoInvoice
            BY <2>1, <2>2, <2>7, <5>3 DEF DeskOK, OfNew, Fresh
          <6> QED BY <2>3, <2>7, <6>1, <5>1, InvoicesAssumption DEF Invoiced
        <5> QED BY <3>1, <5>1, <5>2, <5>3 DEF Fresh
      <4>2. CASE s # "number"
        BY <2>1, <2>2, <2>7, <2>9, <3>1, <4>2 DEF DeskOK, OfNew
      <4> QED BY <4>1, <4>2
    <3> QED BY <2>1, <2>2, <2>7, <3>1 DEF DeskOK, OfNew
  <2>17. OfIssued(x)
    BY <2>1, <2>2, <2>7, <2>9 DEF DeskOK, OfIssued
  <2>18. RowKept(c, x, held')
    <3>1. SUFFICES ASSUME o.kind \in Ends \cup {"rectify"}
                   PROVE  /\ held'[<<"row", RowIn(o)>>] = c
                          /\ o.kind = "rectify" => inv[Rectifies[o.inv]].status = "issued"
                          /\ o.kind \in Ends => LiveRectifications(o.inv) = {}
      BY <2>7 DEF RowKept, RowIn
    <3>2. CASE s = "row"
      <4>1. RowAllows(c) /\ RowOf(c) = RowIn(o)
        BY <1>3, <2>0, <3>2 DEF Allowed, RowOf, RowIn
      <4>2. held'[<<"row", RowIn(o)>>] = c
        BY <2>12, <2>14, <3>2
      <4>3. ASSUME o.kind = "rectify" PROVE inv[Rectifies[o.inv]].status = "issued"
        <5>1. inv[Rectifies[o.inv]].status # "cancelled"
          BY <2>0, <4>1, <4>3 DEF RowAllows, RowIn
        <5>2. inv[Rectifies[o.inv]].status # "absent"
          BY <2>1, <2>2, <4>3 DEF DeskOK, OfNew, Fresh
        <5>3. Rectifies[o.inv] \in Invoices
          BY <2>1, <2>2, <4>3, RowsAreLocked DEF DeskOK, RowIn
        <5> QED BY <5>1, <5>2, <5>3 DEF KeptInv, BookTypes, InvType
      <4>4. o.kind \in Ends => LiveRectifications(o.inv) = {}
        BY <2>0, <4>1 DEF RowAllows, RowIn, Ends
      <4> QED BY <4>2, <4>3, <4>4
    <3>3. CASE s # "row"
      <4>1. /\ held[<<"row", RowIn(o)>>] = c
            /\ o.kind = "rectify" => inv[Rectifies[o.inv]].status = "issued"
            /\ o.kind \in Ends => LiveRectifications(o.inv) = {}
        BY <2>1, <2>2, <2>9, <3>1, <3>3 DEF DeskOK, RowKept
      <4>2. <<"row", RowIn(o)>> \in LockIds
        BY <2>1, <2>2, RowsAreLocked DEF DeskOK
      <4> QED BY <2>14, <4>1, <4>2
    <3> QED BY <3>2, <3>3
  <2>19. DeskOK(c, x, held')
    BY <2>1, <2>3, <2>7, <2>8, <2>9, <2>10, <2>11, <2>16, <2>17, <2>18 DEF DeskOK, DeskTyped
  <2>20. Brings(x) => \A d \in Calls \ {c} : Brings(call[d]) => call[d].inv # x.inv
    BY <2>0, <2>2, <2>7 DEF KeptInv, OneBrings, Brings
  <2>21. Owes(x.todo) => Owes(call[c].todo)
    BY <2>0, <2>7, <2>9
  <2>22. BooksInv'
    BY AcquireBooks DEF KeptInv
  <2> HIDE DEF num
  <2> QED BY <2>6, <2>7, <2>14, <2>15, <2>19, <2>20, <2>21, <2>22, DeskKept
<1> QED BY <1>2, <1>3

(* Its record is generated, under the salon's turn.                        *)
LEMMA GenerateDesk ==
    ASSUME KeptInv, NEW c \in Calls, Generate(c) PROVE KeptInv'
<1>1. CASE ~Recordable(c)
  BY <1>1, RollbackDesk DEF Generate
<1>2. CASE Recordable(c)
  <2>0. PICK o : o = call[c]
    OBVIOUS
  <2> DEFINE new == [o EXCEPT !.rec = RecordFor(c)]
  <2>1. CallShape(o) /\ DeskOK(c, o, held)
    BY <2>0 DEF KeptInv, BooksInv, LineInv, Shapes
  <2>2. o.todo # <<>> /\ Head(o.todo) = "record"
    BY <2>0 DEF Generate, Doing
  <2>3. /\ o.kind \in RequestKinds /\ o.inv \in Invoices /\ o.todo \in Todos(o.kind)
        /\ o.number \in Nat
    BY <2>1, <2>2 DEF DeskOK, DeskTyped
  <2>4. /\ CallShape(new) /\ new.todo = o.todo /\ new.rec = RecordFor(c)
        /\ new.kind = o.kind /\ new.inv = o.inv /\ new.number = o.number
    BY <2>1 DEF CallShape
  <2>5. Continue(c, new) /\ UNCHANGED bookRows /\ UNCHANGED held
    BY <1>2, <2>0 DEF Generate
  <2> HIDE DEF new
  <2>6. PICK x : /\ call' = [call EXCEPT ![c] = x]
                 /\ x.todo = Tail(o.todo) /\ x.rec = RecordFor(c) /\ x.number = o.number
                 /\ x.kind = o.kind /\ x.inv = o.inv
    BY <2>4, <2>5, ContinueShape
  <2>7. RecordFor(c) \in RecType /\ RecordFor(c).kind # "none"
    <3>1. Len(records) \in Nat
      BY DEF KeptInv, BookTypes
    <3>2. PICK k \in {"alta", "anulacion"}, e \in {"nothing", "alta"} :
             RecordFor(c) = [kind |-> k, inv |-> o.inv, previous |-> Len(records),
                             status |-> "pending", expects |-> e]
      BY <2>0 DEF RecordFor
    <3>3. [kind |-> k, inv |-> o.inv, previous |-> Len(records),
           status |-> "pending", expects |-> e] \in RecType
      BY <2>3, <3>1 DEF RecType
    <3> QED BY <3>2, <3>3
  <2>8. /\ Tail(o.todo) # <<>> /\ Tail(o.todo) \in Todos(o.kind)
        /\ Tail(o.todo) \notin RowLeft
        /\ o.kind \in Ends \cup {"rectify"} => o.todo \notin RowLeft
        /\ o.kind \in Fresh => o.todo \in Numbered
        /\ Owes(Tail(o.todo)) => Owes(o.todo)
    BY <2>2, <2>3, TodosGoOn
  <2>9. o.kind \in Ends => inv[o.inv].status # "cancelled"
    <3>1. SUFFICES ASSUME o.kind \in Ends PROVE inv[o.inv].status # "cancelled"
      OBVIOUS
    <3>2. Newest(o.inv).kind # "anulacion"
      BY <1>2, <2>0, <3>1 DEF Recordable, Ends
    <3>3. CancelledIsAnnulled
      BY DEF KeptInv, BooksInv
    <3> QED BY <2>3, <3>2, <3>3 DEF CancelledIsAnnulled
  <2>10. OfNew(x)
    BY <2>1, <2>2, <2>6, <2>8 DEF DeskOK, OfNew
  <2>11. OfIssued(x)
    BY <2>1, <2>2, <2>6, <2>9 DEF DeskOK, OfIssued
  <2>12. RowKept(c, x, held')
    BY <2>1, <2>2, <2>5, <2>6, <2>8 DEF DeskOK, RowKept, RowIn
  <2>13. DeskOK(c, x, held')
    BY <2>3, <2>6, <2>7, <2>8, <2>10, <2>11, <2>12 DEF DeskOK, DeskTyped
  <2>14. Brings(x) => \A d \in Calls \ {c} : Brings(call[d]) => call[d].inv # x.inv
    BY <2>0, <2>2, <2>6 DEF KeptInv, OneBrings, Brings
  <2>15. held' \in [LockIds -> Calls \cup {NoCall}]
    BY <2>5 DEF KeptInv, BookTypes
  <2>16. BooksInv'
    BY GenerateBooks DEF KeptInv
  <2> QED BY <2>0, <2>5, <2>6, <2>8, <2>13, <2>14, <2>15, <2>16, DeskKept
<1> QED BY <1>1, <1>2

LEMMA KickDesk ==
    ASSUME KeptInv, NEW c \in Calls, Kick(c) PROVE KeptInv'
<1>1. BooksInv'
  BY CallBooks DEF KeptInv, Proceed
<1>2. call' = [call EXCEPT ![c] = Idle] /\ UNCHANGED bookRows /\ UNCHANGED held
  BY DEF Kick
<1>3. ~Brings(Idle) /\ ~Owes(Idle.todo)
  BY TodosEnds DEF Brings, Idle
<1>4. held' \in [LockIds -> Calls \cup {NoCall}]
  BY <1>2 DEF KeptInv, BookTypes
<1> QED BY <1>1, <1>2, <1>3, <1>4, IdleDesk, DeskKept

(* What a commit writes: an invoice issued with the next number of its     *)
(* series, one that was issued cancelled, or a record more of one.         *)
LEMMA CommitWrites ==
    ASSUME KeptInv, NEW c \in Calls, Commit(c)
    PROVE  LET x == call[c]
               i == x.inv
           IN  /\ x.kind \in RequestKinds /\ i \in Invoices /\ x.todo \in Todos(x.kind)
               /\ x.todo \in Generated /\ x.todo # <<>> /\ Head(x.todo) = "commit"
               /\ inv' = [inv EXCEPT ![i] = inv'[i]] /\ inv'[i] \in InvType
               /\ x.kind \in Fresh =>
                     /\ inv[i].status = "absent" /\ inv'[i].status = "issued"
                     /\ inv[i].number = 0 /\ inv'[i].number = counter[SeriesOf[i]] + 1
                     /\ counter' = [counter EXCEPT ![SeriesOf[i]] = counter[SeriesOf[i]] + 1]
                     /\ ~Invoiced(i)
                     /\ Rectifies[i] # NoInvoice => x.kind = "rectify"
               /\ x.kind \notin Fresh => inv'[i].number = inv[i].number /\ counter' = counter
               /\ x.kind \in Ends => inv[i].status = "issued" /\ inv'[i].status = "cancelled"
               /\ x.kind \notin Fresh \cup Ends =>
                     inv[i].status # "absent" /\ inv'[i].status = inv[i].status
<1>0. PICK o : o = call[c]
  OBVIOUS
<1>1. DeskOK(c, o, held)
  BY <1>0 DEF KeptInv
<1>2. o.todo # <<>> /\ Head(o.todo) = "commit"
  BY <1>0 DEF Commit, Doing
<1>3. /\ o.kind \in RequestKinds /\ o.inv \in Invoices /\ o.todo \in Todos(o.kind)
      /\ o.number \in Nat
  BY <1>1, <1>2 DEF DeskOK, DeskTyped
<1>4. o.todo \in Generated
  BY <1>0, <1>2, NotIdle, TodoSteps DEF Commit, KeptInv, BooksInv, LineInv
<1>5. o.kind \in Fresh => o.todo \in Numbered
  BY <1>2, <1>3, TodosGoOn
<1>6. inv[o.inv] \in InvType /\ SeriesOf[o.inv] \in Series
  BY <1>3 DEF KeptInv, BookTypes, Series
<1>7. counter[SeriesOf[o.inv]] \in Nat
  BY <1>6 DEF KeptInv, BookTypes
<1>8. o.kind \in Fresh => /\ inv[o.inv].status = "absent"
                          /\ o.number = counter[SeriesOf[o.inv]] + 1
                          /\ ~Invoiced(o.inv)
                          /\ Rectifies[o.inv] # NoInvoice => o.kind = "rectify"
  BY <1>1, <1>2, <1>5 DEF DeskOK, OfNew, Fresh
<1>9. o.kind \notin Fresh => /\ inv[o.inv].status # "absent" /\ o.number = 0
                             /\ o.kind \in Ends => inv[o.inv].status # "cancelled"
  BY <1>1, <1>2, <1>4 DEF DeskOK, OfIssued
<1>10. PICK st, n : /\ inv' = [inv EXCEPT ![o.inv] =
                                 [status |-> st, number |-> n, fiscal |-> "pending"]]
                    /\ st = CASE o.kind \in Fresh -> "issued"
                              [] o.kind \in Ends -> "cancelled"
                              [] OTHER -> inv[o.inv].status
                    /\ n = IF o.kind \in Fresh THEN o.number ELSE inv[o.inv].number
  BY <1>0 DEF Commit, Written, Fresh, Ends
<1>11. inv[o.inv].status \in {"absent", "issued", "cancelled"} /\ inv[o.inv].number \in Nat
  BY <1>6 DEF InvType
<1>12. st \in {"absent", "issued", "cancelled"} /\ n \in Nat
  BY <1>3, <1>10, <1>11
<1>13. /\ inv'[o.inv] = [status |-> st, number |-> n, fiscal |-> "pending"]
       /\ inv' = [inv EXCEPT ![o.inv] = inv'[o.inv]]
  BY <1>3, <1>10 DEF KeptInv, BookTypes
<1>14. inv'[o.inv] \in InvType /\ inv'[o.inv].status = st /\ inv'[o.inv].number = n
  BY <1>12, <1>13 DEF InvType
<1>15. counter' = IF o.number = 0 THEN counter
                  ELSE [counter EXCEPT ![SeriesOf[o.inv]] = o.number]
  BY <1>0 DEF Commit, CountedTo
<1>16. o.kind \in Fresh => /\ inv[o.inv].number = 0
                           /\ counter' = [counter EXCEPT ![SeriesOf[o.inv]] =
                                             counter[SeriesOf[o.inv]] + 1]
  <2>1. SUFFICES ASSUME o.kind \in Fresh
                 PROVE  /\ inv[o.inv].number = 0
                        /\ counter' = [counter EXCEPT ![SeriesOf[o.inv]] =
                                          counter[SeriesOf[o.inv]] + 1]
    OBVIOUS
  <2>2. inv[o.inv].number = 0
    BY <1>3, <1>8, <2>1 DEF KeptInv, Counted
  <2>3. PICK k : k = counter[SeriesOf[o.inv]]
    OBVIOUS
  <2>4. k \in Nat /\ o.number = k + 1
    BY <1>7, <1>8, <2>1, <2>3
  <2>5. o.number # 0
    BY <2>4
  <2> QED BY <1>15, <2>2, <2>3, <2>4, <2>5
<1>17. o.kind \notin Fresh => counter' = counter
  BY <1>9, <1>15
<1>18. o.kind \in Ends => o.kind \notin Fresh
  BY DEF Ends, Fresh
<1>19. o.kind \in Fresh => st = "issued" /\ n = counter[SeriesOf[o.inv]] + 1
  <2>1. SUFFICES ASSUME o.kind \in Fresh
                 PROVE  st = "issued" /\ n = counter[SeriesOf[o.inv]] + 1
    OBVIOUS
  <2>2. n = o.number
    BY <1>10, <2>1
  <2>3. st = "issued"
    BY <1>10, <1>18, <2>1
  <2> QED BY <1>8, <2>1, <2>2, <2>3
<1>20. o.kind \in Ends => st = "cancelled" /\ inv[o.inv].status = "issued"
  BY <1>9, <1>10, <1>11, <1>18
<1>21. o.kind \notin Fresh => n = inv[o.inv].number
  BY <1>10
<1>22. o.kind \notin Fresh \cup Ends => st = inv[o.inv].status
  BY <1>10
<1> QED BY <1>0, <1>2, <1>3, <1>4, <1>8, <1>9, <1>13, <1>14, <1>16, <1>17, <1>18,
           <1>19, <1>20, <1>21, <1>22

LEMMA CommitCounts ==
    ASSUME KeptInv, NEW c \in Calls, Commit(c) PROVE Counted'
<1>0. PICK o, i : o = call[c] /\ i = o.inv
  OBVIOUS
<1>1. /\ i \in Invoices /\ inv' = [inv EXCEPT ![i] = inv'[i]] /\ inv'[i] \in InvType
      /\ o.kind \in Fresh =>
            /\ inv[i].status = "absent" /\ inv'[i].status = "issued"
            /\ inv[i].number = 0 /\ inv'[i].number = counter[SeriesOf[i]] + 1
            /\ counter' = [counter EXCEPT ![SeriesOf[i]] = counter[SeriesOf[i]] + 1]
      /\ o.kind \notin Fresh => inv'[i].number = inv[i].number /\ counter' = counter
      /\ o.kind \in Ends => inv[i].status = "issued" /\ inv'[i].status = "cancelled"
      /\ o.kind \notin Fresh \cup Ends => inv'[i].status = inv[i].status
  BY <1>0, CommitWrites
<1>2. \A j \in Invoices : j # i => inv'[j] = inv[j]
  BY <1>1 DEF KeptInv, BookTypes
<1>3. SeriesOf[i] \in Series /\ counter[SeriesOf[i]] \in Nat
  BY <1>1 DEF KeptInv, BookTypes, Series
<1>4. Counted /\ counter \in [Series -> Nat]
  BY DEF KeptInv, BookTypes
<1>5. ASSUME NEW j \in Invoices PROVE inv'[j].number = 0 <=> inv'[j].status = "absent"
  <2>1. inv[j].number = 0 <=> inv[j].status = "absent"
    BY <1>4 DEF Counted
  <2>2. CASE j # i
    BY <1>2, <2>1, <2>2
  <2>3. CASE j = i
    <3>1. o.kind \in Fresh => inv'[i].number # 0 /\ inv'[i].status # "absent"
      BY <1>1, <1>3
    <3>2. o.kind \notin Fresh => inv'[i].number = inv[i].number
                                 /\ (inv'[i].status = "absent" <=> inv[i].status = "absent")
      BY <1>1
    <3> QED BY <2>1, <2>3, <3>1, <3>2
  <2> QED BY <2>2, <2>3
<1>6. ASSUME NEW s \in Series
      PROVE  counter'[s] = Cardinality({j \in Invoices : inv'[j].number # 0 /\ SeriesOf[j] = s})
  <2>1. PICK A, B : /\ A = {j \in Invoices : inv[j].number # 0 /\ SeriesOf[j] = s}
                    /\ B = {j \in Invoices : inv'[j].number # 0 /\ SeriesOf[j] = s}
    OBVIOUS
  <2>2. counter[s] = Cardinality(A)
    BY <1>4, <2>1 DEF Counted
  <2>3. /\ A \in SUBSET Invoices /\ B \in SUBSET Invoices
        /\ \A j \in Invoices \ {i} : j \in B <=> j \in A
    BY <1>2, <2>1
  <2>4. IsFiniteSet(Invoices)
    BY InvoicesAssumption
  <2>5. Cardinality(B) = Cardinality(A) + (IF i \in B THEN 1 ELSE 0)
                                        - (IF i \in A THEN 1 ELSE 0)
    BY <1>1, <2>3, <2>4, CountMoves
  <2>6. counter[s] \in Nat
    BY <1>4
  <2>7. CASE o.kind \in Fresh /\ SeriesOf[i] = s
    <3>1. i \in B /\ i \notin A
      BY <1>1, <1>3, <2>1, <2>7
    <3>2. counter'[s] = counter[s] + 1
      BY <1>1, <1>4, <2>7
    <3> QED BY <2>1, <2>2, <2>5, <2>6, <3>1, <3>2
  <2>8. CASE ~(o.kind \in Fresh /\ SeriesOf[i] = s)
    <3>1. i \in B <=> i \in A
      BY <1>1, <2>1, <2>8
    <3>2. counter'[s] = counter[s]
      BY <1>1, <1>3, <1>4, <2>8
    <3> QED BY <2>1, <2>2, <2>5, <2>6, <3>1, <3>2
  <2> QED BY <2>7, <2>8
<1> QED BY <1>5, <1>6 DEF Counted

(* It is alone under the salon's turn, and no other call holds the row.    *)
LEMMA CommitSpares ==
    ASSUME KeptInv, NEW c \in Calls, Commit(c), NEW d \in Calls \ {c}
    PROVE  DeskOK(d, call[d], held)'
<1>0. PICK o, i, x : o = call[c] /\ i = o.inv /\ x = call[d]
  OBVIOUS
<1>1. /\ o.kind \in RequestKinds /\ i \in Invoices /\ o.todo \in Todos(o.kind)
      /\ o.todo \in Generated /\ o.todo # <<>> /\ Head(o.todo) = "commit"
      /\ inv' = [inv EXCEPT ![i] = inv'[i]]
      /\ o.kind \in Fresh => /\ inv[i].status = "absent" /\ inv'[i].status = "issued"
                             /\ Rectifies[i] # NoInvoice => o.kind = "rectify"
      /\ o.kind \in Ends => inv[i].status = "issued" /\ inv'[i].status = "cancelled"
      /\ o.kind \notin Fresh \cup Ends =>
            inv[i].status # "absent" /\ inv'[i].status = inv[i].status
  BY <1>0, CommitWrites
<1>2. \A j \in Invoices : j # i => inv'[j] = inv[j]
  BY <1>1 DEF KeptInv, BookTypes
<1>3. DeskOK(c, o, held) /\ DeskOK(d, x, held)
  BY <1>0 DEF KeptInv
<1>4. call'[d] = x
  <2>1. call = [e \in Calls |-> call[e]]
    BY DEF KeptInv, BooksInv, LineInv, Shapes
  <2>2. \E new : call' = [call EXCEPT ![c] = new]
    BY DEF Commit, Continue
  <2> QED BY <1>0, <2>1, <2>2
<1>5. held' = Released(c)
  BY DEF Commit
<1>6. \A l \in LockIds : held[l] = d => held'[l] = d
  BY <1>5, ReleasedDesk
<1>7. x.todo \notin InTurn
  <2>1. o.todo \in InTurn
    BY <1>1 DEF InTurn
  <2> QED BY <1>0, <2>1 DEF KeptInv, BooksInv, LineInv, TurnHeld
<1>8. x.todo \notin Numbered /\ x.todo \notin Generated
  BY <1>7, TodosEnds DEF InTurn
<1>9. o.kind \in Ends \cup {"rectify"} =>
         held[<<"row", RowIn(o)>>] = c /\ <<"row", RowIn(o)>> \in LockIds
  <2>1. o.kind \in Ends \cup {"rectify"} => o.todo \notin RowLeft
    BY <1>1, TodosGoOn
  <2> QED BY <1>1, <1>3, <2>1, RowsAreLocked DEF DeskOK, RowKept
<1>10. OfNew(x)'
  <2>1. SUFFICES ASSUME x.todo # <<>>, x.kind \in Fresh
                 PROVE  /\ inv'[x.inv].status = "absent"
                        /\ x.kind = "issue" <=> Rectifies[x.inv] = NoInvoice
                        /\ x.kind = "rectify" => inv'[Rectifies[x.inv]].status # "absent"
    BY <1>8 DEF OfNew
  <2>2. /\ inv[x.inv].status = "absent" /\ x.inv \in Invoices
        /\ x.kind = "issue" <=> Rectifies[x.inv] = NoInvoice
        /\ x.kind = "rectify" => inv[Rectifies[x.inv]].status # "absent"
    BY <1>3, <2>1 DEF DeskOK, OfNew, DeskTyped
  <2>3. x.inv # i
    <3>1. CASE o.kind \in Fresh
      BY <1>0, <1>1, <2>1, <3>1 DEF KeptInv, OneBrings, Brings
    <3>2. CASE o.kind \notin Fresh
      BY <1>1, <2>2, <3>2
    <3> QED BY <3>1, <3>2
  <2>4. x.kind = "rectify" => Rectifies[x.inv] \in Invoices
    BY <1>3, <2>1, RowsAreLocked DEF DeskOK, RowIn
  <2>5. inv[i].status # "absent" => inv'[i].status # "absent"
    BY <1>1
  <2> QED BY <1>2, <2>2, <2>3, <2>4, <2>5
<1>11. OfIssued(x)'
  <2>1. SUFFICES ASSUME x.todo # <<>>, x.kind \notin Fresh
                 PROVE  inv'[x.inv].status # "absent" /\ x.number = 0
    BY <1>8 DEF OfIssued
  <2>2. inv[x.inv].status # "absent" /\ x.inv \in Invoices /\ x.number = 0
    BY <1>3, <2>1 DEF DeskOK, OfIssued, DeskTyped
  <2> QED BY <1>1, <1>2, <2>2
<1>12. RowKept(d, x, held)'
  <2>1. SUFFICES ASSUME x.todo # <<>>, x.kind \in Ends \cup {"rectify"}, x.todo \notin RowLeft
                 PROVE  /\ held'[<<"row", RowIn(x)>>] = d
                        /\ x.kind = "rectify" => inv'[Rectifies[x.inv]].status = "issued"
                        /\ x.kind \in Ends => LiveRectifications(x.inv)' = {}
    BY DEF RowKept
  <2>2. /\ held[<<"row", RowIn(x)>>] = d
        /\ x.kind = "rectify" => inv[Rectifies[x.inv]].status = "issued"
        /\ x.kind \in Ends => LiveRectifications(x.inv) = {}
    BY <1>3, <2>1 DEF DeskOK, RowKept
  <2>3. <<"row", RowIn(x)>> \in LockIds /\ RowIn(x) \in Invoices /\ x.inv \in Invoices
    BY <1>3, <2>1, RowsAreLocked DEF DeskOK, DeskTyped
  <2>4. o.kind \in Ends \cup {"rectify"} => RowIn(o) # RowIn(x)
    BY <1>9, <2>2
  <2>5. ASSUME x.kind = "rectify" PROVE inv'[Rectifies[x.inv]].status = "issued"
    <3>1. RowIn(x) = Rectifies[x.inv]
      BY <2>5 DEF RowIn
    <3>2. CASE RowIn(x) # i
      BY <1>2, <2>2, <2>3, <2>5, <3>1, <3>2
    <3>3. CASE RowIn(x) = i
      <4>1. o.kind \in Ends => RowIn(o) = i
        BY <1>0 DEF RowIn, Ends
      <4> QED BY <1>1, <2>2, <2>4, <2>5, <3>1, <3>3, <4>1
    <3> QED BY <3>2, <3>3
  <2>6. ASSUME x.kind \in Ends PROVE LiveRectifications(x.inv)' = {}
    <3>1. RowIn(x) = x.inv
      BY <2>6 DEF RowIn, Ends
    <3>2. ASSUME NEW r \in Invoices, Rectifies[r] = x.inv, inv'[r].status = "issued"
          PROVE  FALSE
      <4>1. inv[r].status # "issued"
        BY <2>2, <2>6, <3>2 DEF LiveRectifications
      <4>2. r = i /\ o.kind \in Fresh
        BY <1>1, <1>2, <3>2, <4>1
      <4>3. o.kind = "rectify"
        BY <1>1, <2>3, <3>2, <4>2, InvoicesAssumption
      <4>4. RowIn(o) = x.inv
        BY <1>0, <3>2, <4>2, <4>3 DEF RowIn
      <4> QED BY <2>4, <3>1, <4>3, <4>4
    <3> QED BY <3>2 DEF LiveRectifications
  <2> QED BY <1>6, <2>2, <2>3, <2>5, <2>6
<1>13. DeskOK(d, x, held)'
  BY <1>3, <1>8, <1>10, <1>11, <1>12 DEF DeskOK, DeskTyped
<1> QED BY <1>4, <1>13 DEF DeskOK, DeskTyped, OfNew, OfIssued, RowKept, RowIn

LEMMA CommitDesk ==
    ASSUME KeptInv, NEW c \in Calls, Commit(c) PROVE KeptInv'
<1>0. PICK o, i : o = call[c] /\ i = o.inv
  OBVIOUS
<1>1. /\ o.kind \in RequestKinds /\ i \in Invoices /\ o.todo \in Todos(o.kind)
      /\ o.todo \in Generated /\ o.todo # <<>> /\ Head(o.todo) = "commit"
      /\ inv' = [inv EXCEPT ![i] = inv'[i]] /\ inv'[i] \in InvType
      /\ o.kind \in Fresh =>
            /\ inv[i].status = "absent" /\ inv'[i].status = "issued"
            /\ counter' = [counter EXCEPT ![SeriesOf[i]] = counter[SeriesOf[i]] + 1]
      /\ o.kind \notin Fresh => counter' = counter
      /\ o.kind \in Ends => inv[i].status = "issued" /\ inv'[i].status = "cancelled"
      /\ o.kind \notin Fresh \cup Ends =>
            inv[i].status # "absent" /\ inv'[i].status = inv[i].status
  BY <1>0, CommitWrites
<1>2. \A j \in Invoices : j # i => inv'[j] = inv[j]
  BY <1>1 DEF KeptInv, BookTypes
<1>3. DeskOK(c, o, held) /\ CallShape(o)
  BY <1>0 DEF KeptInv, BooksInv, LineInv, Shapes
<1>4. BooksInv'
  BY CallBooks DEF KeptInv, Proceed
<1>5. /\ records' = Append(records, o.rec) /\ o.rec \in RecType /\ o.rec.kind # "none"
      /\ o.rec.inv = i /\ o.rec.kind = RecordKind(o.kind)
      /\ o.kind = "again" => inv[i].status = "cancelled"
  BY <1>0, <1>1, <1>3 DEF Commit, DeskOK, DeskTyped, KeptInv, BooksInv, CallOK
<1>6. records \in Seq(RecType)
  BY DEF KeptInv, BookTypes
<1>7. /\ records' \in Seq(RecType) /\ Len(records') = Len(records) + 1
      /\ Len(records) \in Nat /\ DOMAIN records = 1..Len(records)
      /\ DOMAIN records' = 1..(Len(records) + 1)
      /\ records'[Len(records) + 1] = o.rec
      /\ \A n \in 1..Len(records) : records'[n] = records[n]
  BY <1>5, <1>6
<1>8. held' = Released(c)
  BY DEF Commit
<1>9. BookTypes'
  <2>1. inv' \in [Invoices -> InvType]
    BY <1>1 DEF KeptInv, BookTypes
  <2>2. SeriesOf[i] \in Series
    BY <1>1 DEF Series
  <2>3. counter' \in [Series -> Nat]
    BY <1>1, <2>2 DEF KeptInv, BookTypes
  <2>4. held' \in [LockIds -> Calls \cup {NoCall}]
    BY <1>8, ReleasedDesk
  <2> QED BY <1>7, <2>1, <2>3, <2>4 DEF BookTypes
<1>10. PICK new : /\ call' = [call EXCEPT ![c] = new]
                  /\ ~Owes(new.todo) /\ ~Brings(new)
                  /\ DeskOK(c, new, held)'
  <2>1. CASE Tail(o.todo) = <<>>
    <3>1. call' = [call EXCEPT ![c] = Idle]
      BY <1>0, <2>1 DEF Commit
    <3>2. DeskOK(c, Idle, held)'
      <4>1. Idle' = Idle
        BY DEF Idle, NoRecord
      <4>2. Idle.todo = <<>> /\ Idle.kind = "none" /\ Idle.number = 0 /\ Idle.rec = NoRecord
        BY DEF Idle
      <4>3. NoRecord \in RecType
        BY DEF NoRecord, RecType
      <4> QED BY <4>1, <4>2, <4>3, TodosEnds DEF DeskOK, DeskTyped, OfNew, OfIssued, RowKept
    <3> QED BY <3>1, <3>2, TodosEnds DEF Brings, Idle
  <2>2. CASE Tail(o.todo) # <<>>
    <3> DEFINE old == [o EXCEPT !.rec = NoRecord]
    <3>1. /\ CallShape(old) /\ old.todo = o.todo /\ old.kind = o.kind /\ old.inv = i
          /\ old.number = o.number /\ old.rec = NoRecord
      BY <1>0, <1>3 DEF CallShape
    <3>2. Continue(c, old)
      BY <1>0, <2>2 DEF Commit
    <3> HIDE DEF old
    <3>3. PICK x : /\ call' = [call EXCEPT ![c] = x] /\ x.todo = Tail(o.todo)
                   /\ x.kind = o.kind /\ x.inv = i /\ x.number = o.number
                   /\ x.rec = NoRecord
      BY <3>1, <3>2, ContinueShape
    <3>4. /\ ~Owes(x.todo) /\ x.todo \in Todos(x.kind) /\ x.kind \notin Fresh \cup Ends
      BY <1>1, <2>2, <3>3, TodosGoOn
    <3>5. x.todo = <<"kick">>
      BY <2>2, <3>3, <3>4 DEF Owes
    <3>6. x.kind # "rectify"
      BY <3>4 DEF Fresh
    <3>7. o.number = 0
      BY <1>1, <1>3, <3>3, <3>4 DEF DeskOK, OfIssued
    <3>8. NoRecord \in RecType
      BY DEF NoRecord, RecType
    <3>9. inv'[i].status # "absent"
      BY <1>1, <3>3, <3>4
    <3>10. DeskTyped(x)
      BY <1>1, <3>3, <3>4, <3>7, <3>8 DEF DeskTyped
    <3>11. x.todo \notin Generated
      BY <3>5, TodosEnds
    <3>12. DeskOK(c, x, held)'
      BY <3>3, <3>4, <3>6, <3>7, <3>9, <3>10, <3>11 DEF DeskOK, DeskTyped, OfNew, OfIssued, RowKept
    <3>13. ~Brings(x)
      BY <3>4 DEF Brings
    <3> QED BY <3>3, <3>4, <3>12, <3>13
  <2> QED BY <2>1, <2>2
<1>11. \A d \in Calls : call'[d] = IF d = c THEN new ELSE call[d]
  BY <1>10 DEF KeptInv, BooksInv, LineInv, Shapes
<1>12. ASSUME NEW d \in Calls PROVE DeskOK(d, call[d], held)'
  <2>1. CASE d = c
    BY <1>10, <1>11, <2>1 DEF DeskOK, DeskTyped, OfNew, OfIssued, RowKept, RowIn
  <2>2. CASE d # c
    BY <2>2, CommitSpares
  <2> QED BY <2>1, <2>2
<1>13. OneBrings'
  BY <1>10, <1>11 DEF KeptInv, OneBrings, Brings
<1>14. Room'
  <2>1. PICK m, n : m = Cardinality(Owing) /\ n = Cardinality(Owing')
    OBVIOUS
  <2>2. /\ m \in Nat /\ n \in Nat
        /\ n = m + (IF Owes(new.todo) THEN 1 ELSE 0) - (IF Owes(call[c].todo) THEN 1 ELSE 0)
    BY <1>10, <2>1, OwingMoves
  <2>3. Owes(call[c].todo)
    BY <1>0, <1>1, TodosEnds
  <2>4. n = m - 1
    BY <1>10, <2>2, <2>3
  <2>5. Len(records) + m <= MaxRecords /\ MaxRecords \in Nat
    BY <2>1, CallsAssumption DEF KeptInv, Room
  <2>6. Len(records') + n <= MaxRecords
    BY <1>7, <2>2, <2>4, <2>5
  <2> QED BY <2>1, <2>6 DEF Room
<1>15. Counted'
  BY CommitCounts
<1>16. OfTheBook'
  <2>1. ASSUME NEW n \in DOMAIN records'
        PROVE  /\ records'[n].inv \in Invoices /\ records'[n].kind # "none"
               /\ inv'[records'[n].inv].status # "absent"
               /\ records'[n].kind = "anulacion" => inv'[records'[n].inv].status = "cancelled"
    <3>1. CASE n \in DOMAIN records
      <4>1. PICK j : j = records[n].inv /\ records'[n] = records[n]
        BY <1>7, <3>1
      <4>2. /\ j \in Invoices /\ records[n].kind # "none" /\ inv[j].status # "absent"
            /\ records[n].kind = "anulacion" => inv[j].status = "cancelled"
        BY <3>1, <4>1 DEF KeptInv, OfTheBook
      <4> QED BY <1>1, <1>2, <4>1, <4>2
    <3>2. CASE n \notin DOMAIN records
      <4>1. n = Len(records) + 1
        BY <1>7, <3>2
      <4>2. inv'[i].status # "absent"
        BY <1>1
      <4>3. o.rec.kind = "anulacion" => inv'[i].status = "cancelled"
        BY <1>1, <1>5 DEF RecordKind, RequestKinds, Fresh, Ends
      <4> QED BY <1>1, <1>5, <1>7, <4>1, <4>2, <4>3
    <3> QED BY <3>1, <3>2
  <2> QED BY <2>1 DEF OfTheBook
<1> QED BY <1>4, <1>9, <1>12, <1>13, <1>14, <1>15, <1>16 DEF KeptInv

LEMMA CallDesk ==
    ASSUME KeptInv, NEW c \in Calls,
           Request(c) \/ Proceed(c) \/ Refuse(c) \/ BreakDeadlock(c)
    PROVE  KeptInv'
<1>1. CASE Refuse(c) \/ BreakDeadlock(c)
  BY <1>1, RollbackDesk DEF Refuse, BreakDeadlock
<1> QED BY <1>1, RequestDesk, AcquireDesk, GenerateDesk, CommitDesk, KickDesk DEF Proceed

(* What the dispatcher writes is a record's status and what its invoice    *)
(* shows of it.                                                            *)
LEMMA QueueSpares ==
    ASSUME KeptInv, BooksInv', UNCHANGED <<call, held, counter>>,
           records' \in Seq(RecType), DOMAIN records' = DOMAIN records,
           \A n \in DOMAIN records : /\ records'[n].inv = records[n].inv
                                     /\ records'[n].kind = records[n].kind,
           inv' \in [Invoices -> InvType],
           \A i \in Invoices : /\ inv'[i].status = inv[i].status
                               /\ inv'[i].number = inv[i].number
    PROVE  KeptInv'
<1>1. \A i \in Invoices : LiveRectifications(i)' = LiveRectifications(i)
                          /\ (Invoiced(i)' <=> Invoiced(i))
  BY DEF LiveRectifications, Invoiced
<1>2. ASSUME NEW c \in Calls PROVE DeskOK(c, call[c], held)'
  <2>1. PICK x : x = call[c] /\ call'[c] = x
    OBVIOUS
  <2>2. DeskOK(c, x, held)
    BY <2>1 DEF KeptInv
  <2>3. DeskTyped(x)
    BY <2>2 DEF DeskOK
  <2>4. x.todo # <<>> => /\ x.inv \in Invoices
                         /\ x.kind = "rectify" => Rectifies[x.inv] \in Invoices
    BY <2>2, RowsAreLocked DEF DeskOK, DeskTyped, RowIn
  <2>5. OfNew(x)'
    BY <1>1, <2>2, <2>4 DEF DeskOK, OfNew
  <2>6. OfIssued(x)'
    BY <2>2, <2>4 DEF DeskOK, OfIssued
  <2>7. RowKept(c, x, held)'
    BY <1>1, <2>2, <2>4 DEF DeskOK, RowKept
  <2>8. DeskOK(c, x, held)'
    BY <2>2, <2>3, <2>5, <2>6, <2>7 DEF DeskOK, DeskTyped
  <2> QED BY <2>1, <2>8 DEF DeskOK, DeskTyped, OfNew, OfIssued, RowKept, RowIn
<1>3. BookTypes' /\ OneBrings'
  BY DEF KeptInv, BookTypes, OneBrings
<1>4. Room'
  <2>1. Len(records') = Len(records)
    BY DEF KeptInv, BookTypes
  <2> QED BY <2>1 DEF KeptInv, Room, Owing
<1>5. Counted'
  <2>1. ASSUME NEW s \in Series
        PROVE  {i \in Invoices : inv'[i].number # 0 /\ SeriesOf[i] = s}
                 = {i \in Invoices : inv[i].number # 0 /\ SeriesOf[i] = s}
    OBVIOUS
  <2> QED BY <2>1 DEF KeptInv, Counted
<1>6. OfTheBook'
  BY DEF KeptInv, OfTheBook
<1> QED BY <1>2, <1>3, <1>4, <1>5, <1>6 DEF KeptInv

-----------------------------------------------------------------------------
(* A submission.                                                           *)

Holdings == {"nothing", "alta", "annulled"}
Registered == {"accepted", "errors"}
Duplicates == {"duplicate", "duplicateErrors", "duplicateAnnulled"}
Answers == {"accepted", "errors", "rejected"} \cup Duplicates

World(batch) == [aeat : [Invoices -> Holdings],
                 stored : [Numbers -> Registered \cup {"none"}],
                 answer : [batch -> Answers \cup {"none"}]]

(* The AEAT on one record: it has it already, rejects it, or registers it  *)
(* if the record is right in what it says is held.                         *)
LEMMA Registers ==
    ASSUME NEW batch, NEW w \in World(batch), NEW n \in batch, n \in Numbers,
           NEW opinion \in Opinions, records[n].inv \in Invoices,
           NEW v, v = Register(w, n, opinion)
    PROVE  /\ v \in World(batch)
           /\ \A m \in batch \ {n} : v.answer[m] = w.answer[m]
           /\ \/ /\ w.stored[n] # "none" /\ v.answer[n] \in Duplicates
                 /\ v.stored = w.stored /\ v.aeat = w.aeat
              \/ /\ w.stored[n] = "none" /\ v.answer[n] = "rejected"
                 /\ v.stored = w.stored /\ v.aeat = w.aeat
              \/ /\ w.stored[n] = "none" /\ v.answer[n] \in Registered
                 /\ w.aeat[records[n].inv] = records[n].expects
                 /\ v.stored = [w.stored EXCEPT ![n] = v.answer[n]]
                 /\ v.aeat = [w.aeat EXCEPT ![records[n].inv] =
                                IF records[n].kind = "alta" THEN "alta" ELSE "annulled"]
<1>1. PICK A, S, ans : w = [aeat |-> A, stored |-> S, answer |-> ans]
                       /\ A \in [Invoices -> Holdings]
                       /\ S \in [Numbers -> Registered \cup {"none"}]
                       /\ ans \in [batch -> Answers \cup {"none"}]
  BY DEF World
<1>2. w.aeat = A /\ w.stored = S /\ w.answer = ans
  BY <1>1
<1>3. \A a : [w EXCEPT !.answer[n] = a]
                = [aeat |-> A, stored |-> S, answer |-> [ans EXCEPT ![n] = a]]
  BY <1>1
<1>4. CASE S[n] # "none"
  <2>1. PICK a \in Duplicates : v = [w EXCEPT !.answer[n] = a]
    BY <1>2, <1>4 DEF Register, Duplicates
  <2>2. v = [aeat |-> A, stored |-> S, answer |-> [ans EXCEPT ![n] = a]]
    BY <1>3, <2>1
  <2>3. [ans EXCEPT ![n] = a] \in [batch -> Answers \cup {"none"}]
    BY <1>1 DEF Answers
  <2> QED BY <1>1, <1>2, <1>4, <2>2, <2>3 DEF World
<1>5. CASE S[n] = "none" /\ (opinion = "rejected" \/ A[records[n].inv] # records[n].expects)
  <2>1. v = [w EXCEPT !.answer[n] = "rejected"]
    BY <1>2, <1>5 DEF Register
  <2>2. v = [aeat |-> A, stored |-> S, answer |-> [ans EXCEPT ![n] = "rejected"]]
    BY <1>3, <2>1
  <2>3. [ans EXCEPT ![n] = "rejected"] \in [batch -> Answers \cup {"none"}]
    BY <1>1 DEF Answers
  <2> QED BY <1>1, <1>2, <1>5, <2>2, <2>3 DEF World
<1>6. CASE S[n] = "none" /\ opinion # "rejected" /\ A[records[n].inv] = records[n].expects
  <2>1. PICK A2 : A2 = [A EXCEPT ![records[n].inv] =
                           IF records[n].kind = "alta" THEN "alta" ELSE "annulled"]
    OBVIOUS
  <2>2. v = [aeat |-> A2, stored |-> [S EXCEPT ![n] = opinion],
             answer |-> [ans EXCEPT ![n] = opinion]]
    BY <1>2, <1>6, <2>1 DEF Register
  <2>3. opinion \in Registered
    BY <1>6 DEF Opinions, Registered
  <2>4. A2 \in [Invoices -> Holdings]
    BY <1>1, <2>1 DEF Holdings
  <2>5. [S EXCEPT ![n] = opinion] \in [Numbers -> Registered \cup {"none"}]
    BY <1>1, <2>3
  <2>6. [ans EXCEPT ![n] = opinion] \in [batch -> Answers \cup {"none"}]
    BY <1>1, <2>3 DEF Answers, Registered
  <2>7. v \in World(batch)
    BY <2>2, <2>4, <2>5, <2>6 DEF World
  <2>8. /\ v.aeat = A2 /\ v.stored = [S EXCEPT ![n] = opinion]
        /\ v.answer = [ans EXCEPT ![n] = opinion]
    BY <2>2
  <2>9. v.answer[n] = opinion
    BY <1>1, <2>8
  <2>10. \A m \in batch \ {n} : v.answer[m] = w.answer[m]
    BY <1>1, <1>2, <2>8
  <2> QED BY <1>2, <1>6, <2>1, <2>3, <2>7, <2>8, <2>9, <2>10
<1> QED BY <1>4, <1>5, <1>6

(* What holds of the AEAT before a submission, and with each record it     *)
(* registers, holds after it.                                              *)
LEMMA ProcessedIs ==
    ASSUME NEW batch \in SUBSET Numbers, NEW opinion, NEW Good,
           [aeat |-> aeat, stored |-> stored, answer |-> [n \in batch |-> "none"]]
               \in Good[{}],
           \A s \in SUBSET batch : \A n \in s : \A w \in Good[s \ {n}] :
               Register(w, n, opinion[n]) \in Good[s]
    PROVE  Processed(batch, opinion) \in Good[batch]
<1> DEFINE base == [aeat |-> aeat, stored |-> stored, answer |-> [n \in batch |-> "none"]]
           W == UNION {Good[s] : s \in SUBSET batch}
           Asks(g) == g = [s \in SUBSET batch |->
                             IF s = {} THEN base
                             ELSE Register(g[s \ {Max(s)}], Max(s), opinion[Max(s)])]
           step == [p \in (SUBSET batch) \X W |->
                       Register(p[2], Max(p[1]), opinion[Max(p[1])])]
           top == [s \in SUBSET batch |-> Max(s)]
<1>1. IsFiniteSet(batch)
  <2>1. IsFiniteSet(1..MaxRecords)
    BY CallsAssumption, FS_Interval
  <2> QED BY <2>1, FS_Subset DEF Numbers
<1>2. \A s \in SUBSET batch : s # {} => Max(s) \in s
  <2>1. ASSUME NEW s \in SUBSET batch, s # {} PROVE Max(s) \in s
    <3>1. s \in SUBSET Nat
      BY CallsAssumption DEF Numbers
    <3>2. IsFiniteSet(s)
      BY <1>1, FS_Subset
    <3> QED BY <2>1, <3>1, <3>2, HasMaximum
  <2> QED BY <2>1
<1>3. Processed(batch, opinion) = (CHOOSE g : Asks(g))[batch]
  BY DEF Processed, MapThenFoldSet
<1>4. \A s \in SUBSET batch, w \in W : step[<<s, w>>] = Register(w, Max(s), opinion[Max(s)])
  OBVIOUS
<1>5. Chooses(top, batch) /\ \A s \in SUBSET batch : top[s] = Max(s)
  BY <1>2 DEF Chooses
<1>6. \A s \in SUBSET batch : Good[s] \subseteq W
  OBVIOUS
<1>7. base \in Good[{}]
  OBVIOUS
<1>8. \A s \in SUBSET batch : s # {} => \A w \in Good[s \ {Max(s)}] :
         Register(w, Max(s), opinion[Max(s)]) \in Good[s]
  BY <1>2
<1> HIDE DEF base, W, step, top
<1>9. ASSUME NEW g, NEW T \in SUBSET batch, \A U \in SUBSET T : U # T => g[U] \in Good[U],
             T = {} => g[T] = base,
             T # {} /\ g[T \ {Max(T)}] \in Good[T \ {Max(T)}] =>
                 g[T] = Register(g[T \ {Max(T)}], Max(T), opinion[Max(T)])
      PROVE  g[T] \in Good[T]
  <2>1. CASE T = {}
    BY <1>7, <1>9, <2>1
  <2>2. CASE T # {}
    <3>1. PICK U : U = T \ {Max(T)}
      OBVIOUS
    <3>2. U \in SUBSET T /\ U # T
      BY <1>2, <2>2, <3>1
    <3>3. g[U] \in Good[U]
      BY <1>9, <3>2
    <3>4. g[T] = Register(g[U], Max(T), opinion[Max(T)])
      BY <1>9, <2>2, <3>1, <3>3
    <3> QED BY <1>8, <2>2, <3>1, <3>3, <3>4
  <2> QED BY <2>1, <2>2
<1>10. PICK f : Folding(f, step, base, top, batch)
  BY <1>1, <1>5, FoldExists
<1>11. \A s \in SUBSET batch : f[s] = IF s = {} THEN base ELSE step[<<s, f[s \ {Max(s)}]>>]
  BY <1>5, <1>10 DEF Folding
<1>12. \A T \in SUBSET batch : f[T] \in Good[T]
  <2> DEFINE A == {T \in SUBSET batch : f[T] \in Good[T]}
  <2>1. ASSUME NEW T \in SUBSET batch, \A U \in SUBSET T : U # T => U \in A
        PROVE  T \in A
    <3>1. \A U \in SUBSET T : U # T => f[U] \in Good[U]
      BY <2>1
    <3>2. T = {} => f[T] = base
      BY <1>11
    <3>3. ASSUME T # {}, f[T \ {Max(T)}] \in Good[T \ {Max(T)}]
          PROVE  f[T] = Register(f[T \ {Max(T)}], Max(T), opinion[Max(T)])
      <4>1. PICK U : U = T \ {Max(T)} /\ U \in SUBSET batch
        OBVIOUS
      <4>2. f[U] \in W
        BY <1>6, <3>3, <4>1
      <4> QED BY <1>4, <1>11, <3>3, <4>1, <4>2
    <3> HIDE DEF A
    <3>4. f[T] \in Good[T]
      BY <1>9, <3>1, <3>2, <3>3
    <3> QED BY <3>4 DEF A
  <2>2. A \in SUBSET SUBSET batch
    OBVIOUS
  <2> HIDE DEF A
  <2>3. \A T \in SUBSET batch : T \in A
    BY <1>1, <2>1, <2>2, SubsetInduction
  <2> QED BY <2>3 DEF A
<1>13. Asks(f)
  <2>1. ASSUME NEW s \in SUBSET batch
        PROVE  f[s] = IF s = {} THEN base
                      ELSE Register(f[s \ {Max(s)}], Max(s), opinion[Max(s)])
    <3>1. PICK U : U = s \ {Max(s)} /\ U \in SUBSET batch
      OBVIOUS
    <3>2. f[U] \in W
      BY <1>6, <1>12, <3>1
    <3> QED BY <1>4, <1>11, <3>1, <3>2
  <2>2. f = [s \in SUBSET batch |-> f[s]]
    BY <1>10 DEF Folding
  <2> QED BY <2>1, <2>2
<1>14. PICK g : g = (CHOOSE h : Asks(h)) /\ Asks(g)
  BY <1>13
<1>15. \A s \in SUBSET batch : g[s] = IF s = {} THEN base
                      ELSE Register(g[s \ {Max(s)}], Max(s), opinion[Max(s)])
  BY <1>14
<1>16. \A T \in SUBSET batch : g[T] \in Good[T]
  <2> DEFINE A == {T \in SUBSET batch : g[T] \in Good[T]}
  <2>1. ASSUME NEW T \in SUBSET batch, \A U \in SUBSET T : U # T => U \in A
        PROVE  T \in A
    <3>1. \A U \in SUBSET T : U # T => g[U] \in Good[U]
      BY <2>1
    <3>2. /\ T = {} => g[T] = base
          /\ T # {} => g[T] = Register(g[T \ {Max(T)}], Max(T), opinion[Max(T)])
      BY <1>15
    <3> HIDE DEF A
    <3>3. g[T] \in Good[T]
      BY <1>9, <3>1, <3>2
    <3> QED BY <3>3 DEF A
  <2>2. A \in SUBSET SUBSET batch
    OBVIOUS
  <2> HIDE DEF A
  <2>3. \A T \in SUBSET batch : T \in A
    BY <1>1, <2>1, <2>2, SubsetInduction
  <2> QED BY <2>3 DEF A
<1> HIDE DEF Asks
<1> QED BY <1>3, <1>14, <1>16

\* What the AEAT holds comes of what it registered.
Sound(held_, registered) ==
    /\ \A n \in DOMAIN records :
          registered[n] # "none" => held_[records[n].inv] # "nothing"
    /\ \A i \in Invoices : held_[i] = "alta" =>
          \E n \in DOMAIN records : /\ records[n].inv = i /\ records[n].kind = "alta"
                                    /\ registered[n] # "none"

SenderOK(x) ==
    /\ x = [pc |-> x.pc, batch |-> x.batch, answer |-> x.answer, cur |-> x.cur]
    /\ x.pc \in {"idle", "loaded", "apply", "look", "show"}
    /\ x.batch \subseteq DOMAIN records
    /\ x.pc \in {"apply", "look", "show"} => x.answer \in [x.batch -> Answers]

QueueInv ==
    /\ due \in BOOLEAN /\ failing \in BOOLEAN
    /\ aeat \in [Invoices -> Holdings]
    /\ stored \in [Numbers -> Registered \cup {"none"}]
    /\ \A n \in Numbers \ DOMAIN records : stored[n] = "none"
    /\ Sound(aeat, stored)
    /\ sender = [s \in Senders |-> sender[s]]
    /\ \A s \in Senders : SenderOK(sender[s])

\* What the AEAT may hold of an invoice after a submission.
Told(i, h) == \/ h = aeat[i]
              \/ aeat[i] = "nothing" /\ h = "alta" /\ inv[i].status # "absent"
              \/ h = "annulled" /\ inv[i].status = "cancelled"

\* A submission's records up to now answered as they were registered.
Registering(batch, w, s) ==
    /\ w \in World(batch)
    /\ \A n \in s : \/ w.answer[n] \in Registered \cup Duplicates /\ w.stored[n] # "none"
                    \/ w.answer[n] = "rejected" /\ w.stored[n] = "none"
    /\ \A n \in Numbers : /\ n \notin s => w.stored[n] = stored[n]
                          /\ stored[n] # "none" => w.stored[n] # "none"
    /\ \A i \in Invoices : Told(i, w.aeat[i])
    /\ Sound(w.aeat, w.stored)

LEMMA RecordsFit ==
    ASSUME KeptInv
    PROVE  /\ DOMAIN records = 1..Len(records) /\ Len(records) \in Nat
           /\ Len(records) <= MaxRecords /\ DOMAIN records \subseteq Numbers
           /\ DOMAIN records \subseteq Nat /\ IsFiniteSet(DOMAIN records)
<1>1. DOMAIN records = 1..Len(records) /\ Len(records) \in Nat
  BY DEF KeptInv, BookTypes
<1>2. Cardinality(Owing) \in Nat
  <2>1. IsFiniteSet(Owing)
    BY CallsAssumption, FS_Subset DEF Owing
  <2> QED BY <2>1, FS_CardinalityType
<1>3. Len(records) <= MaxRecords
  BY <1>1, <1>2, CallsAssumption DEF KeptInv, Room
<1>4. IsFiniteSet(1..Len(records))
  BY <1>1, FS_Interval
<1>5. MaxRecords \in Nat
  BY CallsAssumption
<1> QED BY <1>1, <1>3, <1>4, <1>5 DEF Numbers

LEMMA SubmissionIs ==
    ASSUME KeptInv, QueueInv, NEW batch \in SUBSET DOMAIN records,
           NEW opinion \in [batch -> Opinions]
    PROVE  Registering(batch, Processed(batch, opinion), batch)
<1> DEFINE Good == [s \in SUBSET batch |-> {w \in World(batch) : Registering(batch, w, s)}]
           base == [aeat |-> aeat, stored |-> stored, answer |-> [n \in batch |-> "none"]]
<1>1. batch \in SUBSET Numbers
  BY RecordsFit
<1>2. base \in Good[{}]
  <2>1. base \in World(batch) /\ base.aeat = aeat /\ base.stored = stored
    BY DEF QueueInv, World
  <2> HIDE DEF base
  <2> QED BY <2>1 DEF Registering, QueueInv, Told
<1>3. ASSUME NEW s \in SUBSET batch, NEW n \in s, NEW w \in Good[s \ {n}]
      PROVE  Register(w, n, opinion[n]) \in Good[s]
  <2>1. w \in World(batch) /\ Registering(batch, w, s \ {n})
    OBVIOUS
  <2> HIDE DEF Good
  <2>2. PICK i, k : i = records[n].inv /\ k = records[n].kind
    OBVIOUS
  <2>3. /\ n \in DOMAIN records /\ n \in Numbers /\ n \in batch /\ i \in Invoices
        /\ k # "none" /\ inv[i].status # "absent"
        /\ k = "anulacion" => inv[i].status = "cancelled"
        /\ k \in {"alta", "anulacion"} /\ records[n].expects \in {"nothing", "alta"}
    <3>1. records[n] \in RecType
      BY DEF KeptInv, BookTypes
    <3> QED BY <1>1, <2>2, <3>1 DEF KeptInv, OfTheBook, RecType
  <2>4. PICK v : v = Register(w, n, opinion[n])
    OBVIOUS
  <2>5. opinion[n] \in Opinions
    BY <2>3
  <2>6. /\ v \in World(batch)
        /\ \A m \in batch \ {n} : v.answer[m] = w.answer[m]
        /\ \/ /\ w.stored[n] # "none" /\ v.answer[n] \in Duplicates
              /\ v.stored = w.stored /\ v.aeat = w.aeat
           \/ /\ w.stored[n] = "none" /\ v.answer[n] = "rejected"
              /\ v.stored = w.stored /\ v.aeat = w.aeat
           \/ /\ w.stored[n] = "none" /\ v.answer[n] \in Registered
              /\ w.aeat[i] = records[n].expects
              /\ v.stored = [w.stored EXCEPT ![n] = v.answer[n]]
              /\ v.aeat = [w.aeat EXCEPT ![i] = IF k = "alta" THEN "alta" ELSE "annulled"]
    BY <2>1, <2>2, <2>3, <2>4, <2>5, Registers
  <2>7. /\ w.stored \in [Numbers -> Registered \cup {"none"}]
        /\ w.aeat \in [Invoices -> Holdings]
    BY <2>1 DEF World
  <2>8. "none" \notin Registered
    BY DEF Registered
  <2>9. CASE v.stored = w.stored /\ v.aeat = w.aeat
    <3>1. \A m \in s : \/ v.answer[m] \in Registered \cup Duplicates /\ v.stored[m] # "none"
                       \/ v.answer[m] = "rejected" /\ v.stored[m] = "none"
      <4>1. \/ w.stored[n] # "none" /\ v.answer[n] \in Duplicates
            \/ w.stored[n] = "none" /\ v.answer[n] = "rejected"
        <5>1. ASSUME w.stored[n] = "none", v.answer[n] \in Registered,
                     v.stored = [w.stored EXCEPT ![n] = v.answer[n]]
              PROVE  FALSE
          BY <2>3, <2>7, <2>8, <2>9, <5>1
        <5> QED BY <2>6, <5>1
      <4> QED BY <2>1, <2>6, <2>9, <4>1 DEF Registering
    <3>2. Registering(batch, v, s)
      BY <2>1, <2>6, <2>9, <3>1 DEF Registering
    <3> QED BY <2>4, <2>6, <3>2 DEF Good
  <2>10. CASE /\ w.stored[n] = "none" /\ v.answer[n] \in Registered
              /\ w.aeat[i] = records[n].expects
              /\ v.stored = [w.stored EXCEPT ![n] = v.answer[n]]
              /\ v.aeat = [w.aeat EXCEPT ![i] = IF k = "alta" THEN "alta" ELSE "annulled"]
    <3>1. /\ v.stored[n] # "none"
          /\ \A m \in Numbers \ {n} : v.stored[m] = w.stored[m]
      BY <2>3, <2>7, <2>8, <2>10
    <3>2. /\ v.aeat[i] = IF k = "alta" THEN "alta" ELSE "annulled"
          /\ \A j \in Invoices \ {i} : v.aeat[j] = w.aeat[j]
      BY <2>3, <2>7, <2>10
    <3>3. \A m \in s : \/ v.answer[m] \in Registered \cup Duplicates /\ v.stored[m] # "none"
                       \/ v.answer[m] = "rejected" /\ v.stored[m] = "none"
      BY <1>1, <2>1, <2>6, <2>10, <3>1 DEF Registering
    <3>4. \A m \in Numbers : /\ m \notin s => v.stored[m] = stored[m]
                             /\ stored[m] # "none" => v.stored[m] # "none"
      BY <2>1, <3>1 DEF Registering
    <3>5. \A j \in Invoices : Told(j, v.aeat[j])
      <4>1. Told(i, v.aeat[i])
        <5>1. Told(i, w.aeat[i])
          BY <2>1, <2>3 DEF Registering
        <5> QED BY <2>3, <2>10, <3>2, <5>1 DEF Told
      <4> QED BY <2>1, <3>2, <4>1 DEF Registering
    <3>6. Sound(v.aeat, v.stored)
      <4>1. Sound(w.aeat, w.stored) /\ DOMAIN records \subseteq Numbers
        BY <2>1, RecordsFit DEF Registering
      <4>2. ASSUME NEW m \in DOMAIN records, v.stored[m] # "none"
            PROVE  v.aeat[records[m].inv] # "nothing"
        <5>1. records[m].inv \in Invoices
          BY DEF KeptInv, OfTheBook
        <5> QED BY <2>2, <3>1, <3>2, <4>1, <4>2, <5>1 DEF Sound
      <4>3. ASSUME NEW j \in Invoices, v.aeat[j] = "alta"
            PROVE  \E m \in DOMAIN records : /\ records[m].inv = j /\ records[m].kind = "alta"
                                             /\ v.stored[m] # "none"
        <5>1. CASE j = i
          BY <2>2, <2>3, <3>1, <3>2, <4>3, <5>1
        <5>2. CASE j # i
          BY <3>1, <3>2, <4>1, <4>3, <5>2 DEF Sound
        <5> QED BY <5>1, <5>2
      <4> QED BY <4>2, <4>3 DEF Sound
    <3>7. Registering(batch, v, s)
      BY <2>6, <3>3, <3>4, <3>5, <3>6 DEF Registering
    <3> QED BY <2>4, <2>6, <3>7 DEF Good
  <2> QED BY <2>6, <2>9, <2>10
<1> HIDE DEF Good, base
<1>4. base = [aeat |-> aeat, stored |-> stored, answer |-> [n \in batch |-> "none"]]
  BY DEF base
<1>5. Processed(batch, opinion) \in Good[batch]
  BY <1>1, <1>2, <1>3, <1>4, ProcessedIs
<1> QED BY <1>5 DEF Good

LEMMA QueueKept ==
    ASSUME KeptInv, QueueInv, DOMAIN records' = DOMAIN records,
           \A n \in DOMAIN records : /\ records'[n].inv = records[n].inv
                                     /\ records'[n].kind = records[n].kind,
           due' \in BOOLEAN, failing' \in BOOLEAN,
           NEW s \in Senders, NEW x, sender' = [sender EXCEPT ![s] = x], SenderOK(x),
           aeat' \in [Invoices -> Holdings],
           stored' \in [Numbers -> Registered \cup {"none"}],
           \A n \in Numbers \ DOMAIN records : stored'[n] = "none",
           Sound(aeat', stored')
    PROVE  QueueInv'
<1>1. \A t \in Senders : sender'[t] = IF t = s THEN x ELSE sender[t]
  BY DEF QueueInv
<1>2. sender' = [t \in Senders |-> sender'[t]]
  BY DEF QueueInv
<1>3. \A t \in Senders : SenderOK(sender[t])'
  BY <1>1 DEF QueueInv, SenderOK
<1>4. Sound(aeat, stored)'
  BY DEF Sound
<1> QED BY <1>2, <1>3, <1>4 DEF QueueInv

\* It goes on with the agency's side as it is.
LEMMA QueueGoesOn ==
    ASSUME KeptInv, QueueInv, UNCHANGED agency, DOMAIN records' = DOMAIN records,
           \A n \in DOMAIN records : /\ records'[n].inv = records[n].inv
                                     /\ records'[n].kind = records[n].kind,
           due' \in BOOLEAN, failing' \in BOOLEAN,
           NEW s \in Senders, NEW x, sender' = [sender EXCEPT ![s] = x], SenderOK(x)
    PROVE  QueueInv'
<1>1. aeat' = aeat /\ stored' = stored
  BY DEF agency
<1> QED BY <1>1, QueueKept DEF QueueInv

LEMMA RestingOK == SenderOK(Resting)
<1>1. Resting = [pc |-> "idle", batch |-> {}, answer |-> <<>>, cur |-> 0]
  BY DEF Resting
<1> QED BY <1>1 DEF SenderOK

(* What a call does of the queue is to add to it.                          *)
LEMMA CallAdds ==
    ASSUME KeptInv, NEW c \in Calls,
           Request(c) \/ Proceed(c) \/ Refuse(c) \/ BreakDeadlock(c)
    PROVE  /\ UNCHANGED <<failing, sender, agency>> /\ (due' = due \/ due' = (due \/ failing))
           /\ \A n \in DOMAIN records : n \in DOMAIN records' /\ records'[n] = records[n]
<1>1. CASE Commit(c)
  <2>1. records' = Append(records, call[c].rec) /\ UNCHANGED <<queue, agency>>
    BY <1>1 DEF Commit
  <2>2. records \in Seq(RecType) /\ call[c].rec \in RecType
    BY DEF KeptInv, BookTypes, DeskOK, DeskTyped
  <2> QED BY <2>1, <2>2 DEF queue
<1>2. CASE Kick(c)
  BY <1>2 DEF Kick, bookRows
<1>3. CASE Rollback(c)
  BY <1>3 DEF Rollback, bookRows, queue
<1>4. CASE Request(c)
  <2>1. PICK kind, i, todo : Begin(c, kind, i, todo)
    BY <1>4 DEF Request, StartIssue, StartRectify, StartCancel, StartResend
  <2> QED BY <2>1 DEF Begin, bookRows, queue
<1>5. CASE Acquire(c)
  BY <1>3, <1>5 DEF Acquire, bookRows, queue
<1>6. CASE Generate(c)
  BY <1>3, <1>6 DEF Generate, bookRows, queue
<1> QED BY <1>1, <1>2, <1>3, <1>4, <1>5, <1>6 DEF Proceed, Refuse, BreakDeadlock

LEMMA CallQueue ==
    ASSUME KeptInv, QueueInv, KeptInv', NEW c \in Calls,
           Request(c) \/ Proceed(c) \/ Refuse(c) \/ BreakDeadlock(c)
    PROVE  QueueInv'
<1>1. /\ UNCHANGED <<failing, sender, agency>> /\ (due' = due \/ due' = (due \/ failing))
      /\ \A n \in DOMAIN records : n \in DOMAIN records' /\ records'[n] = records[n]
  BY CallAdds
<1>2. aeat' = aeat /\ stored' = stored
  BY <1>1 DEF agency
<1>3. DOMAIN records' \subseteq Numbers
  <2>1. records' \in Seq(RecType)
    BY DEF KeptInv, BookTypes
  <2>2. PICK m : m = Cardinality(Owing')
    OBVIOUS
  <2>3. m \in Nat
    <3>1. Owing' \in SUBSET Calls
      BY DEF Owing
    <3>2. IsFiniteSet(Owing')
      BY <3>1, CallsAssumption, FS_Subset
    <3> QED BY <2>2, <3>2, FS_CardinalityType
  <2>4. Len(records') + m <= MaxRecords
    BY <2>2 DEF KeptInv, Room
  <2>5. MaxRecords \in Nat
    BY CallsAssumption
  <2> QED BY <2>1, <2>3, <2>4, <2>5 DEF Numbers
<1>4. Sound(aeat, stored)'
  <2>1. ASSUME NEW n \in DOMAIN records', stored[n] # "none"
        PROVE  aeat[records'[n].inv] # "nothing"
    <3>1. n \in DOMAIN records
      BY <1>3, <2>1 DEF QueueInv
    <3> QED BY <1>1, <2>1, <3>1 DEF QueueInv, Sound
  <2>2. ASSUME NEW i \in Invoices, aeat[i] = "alta"
        PROVE  \E n \in DOMAIN records' : /\ records'[n].inv = i /\ records'[n].kind = "alta"
                                          /\ stored[n] # "none"
    <3>1. PICK n \in DOMAIN records : /\ records[n].inv = i /\ records[n].kind = "alta"
                                      /\ stored[n] # "none"
      BY <2>2 DEF QueueInv, Sound
    <3> QED BY <1>1, <3>1
  <2> QED BY <1>2, <2>1, <2>2 DEF Sound
<1>5. \A s \in Senders : SenderOK(sender[s])'
  BY <1>1 DEF QueueInv, SenderOK
<1>6. due' \in BOOLEAN
  BY <1>1 DEF QueueInv
<1> QED BY <1>1, <1>2, <1>4, <1>5, <1>6 DEF QueueInv

(* The oldest of the queue is one of it.                                   *)
LEMMA NextIsOfBatch ==
    ASSUME KeptInv, QueueInv, NEW s \in Senders, Apply(s)
    PROVE  LET n == Min(sender[s].batch)
               st == RecordStatus(sender[s].answer[n])
           IN  /\ n \in sender[s].batch /\ n \in DOMAIN records
               /\ sender[s].answer[n] \in Answers
               /\ st \in {"accepted", "errors", "rejected"}
               /\ records' \in Seq(RecType) /\ DOMAIN records' = DOMAIN records
               /\ \A m \in DOMAIN records :
                     /\ m # n => records'[m] = records[m]
                     /\ m = n => /\ records'[m].inv = records[m].inv
                                 /\ records'[m].kind = records[m].kind
                                 /\ records'[m].expects = records[m].expects
                                 /\ records'[m].status = st
<1>0. PICK x, n, st : /\ x = sender[s] /\ n = Min(x.batch)
                      /\ st = RecordStatus(x.answer[n])
  OBVIOUS
<1>1. SenderOK(x) /\ x.pc = "apply" /\ x.batch # {}
  BY <1>0 DEF QueueInv, Apply
<1>2. n \in x.batch
  <2>1. x.batch \in SUBSET Nat
    BY <1>1, RecordsFit DEF SenderOK
  <2>2. IsFiniteSet(x.batch)
    BY <1>1, RecordsFit, FS_Subset DEF SenderOK
  <2> QED BY <1>0, <1>1, <2>1, <2>2, HasMinimum
<1>3. x.answer[n] \in Answers /\ n \in DOMAIN records
  BY <1>1, <1>2 DEF SenderOK
<1>4. st \in {"accepted", "errors", "rejected"}
  BY <1>0, <1>3 DEF RecordStatus, Answers, Duplicates
<1>5. records' = [records EXCEPT ![n].status = st]
  BY <1>0 DEF Apply
<1>6. PICK r : r = records[n] /\ r \in RecType
  BY <1>3 DEF KeptInv, BookTypes
<1> DEFINE new == [r EXCEPT !.status = st]
<1>7. /\ new \in RecType /\ new.inv = r.inv /\ new.kind = r.kind
      /\ new.expects = r.expects /\ new.status = st
  BY <1>4, <1>6 DEF RecType
<1>8. records' = [records EXCEPT ![n] = new]
  BY <1>5, <1>6
<1> HIDE DEF new
<1>9. records \in Seq(RecType) /\ DOMAIN records = 1..Len(records) /\ Len(records) \in Nat
  BY RecordsFit DEF KeptInv, BookTypes
<1>10. records' = [m \in 1..Len(records) |-> IF m = n THEN new ELSE records[m]]
  BY <1>8, <1>9
<1>11. \A m \in 1..Len(records) : (IF m = n THEN new ELSE records[m]) \in RecType
  BY <1>7, <1>9
<1>12. records' \in Seq(RecType) /\ DOMAIN records' = DOMAIN records
  BY <1>9, <1>10, <1>11
<1> QED BY <1>0, <1>2, <1>3, <1>4, <1>6, <1>7, <1>9, <1>10, <1>12

(* The sender's own state, at each of its steps.                           *)
LEMMA SenderSteps ==
    ASSUME KeptInv, QueueInv, NEW s \in Senders,
           \/ Submit(s) \/ NotSent(s) \/ AnswerLost(s) \/ Answered(s) \/ Die(s)
    PROVE  \E x : /\ sender' = [sender EXCEPT ![s] = x] /\ SenderOK(x)
                  /\ due' \in BOOLEAN /\ failing' \in BOOLEAN
                  /\ Claim(s) => x.batch \subseteq Pending /\ x.pc = "loaded"
                  /\ ~Claim(s) => x.batch \subseteq sender[s].batch
<1>1. PICK pc, b, a, k : /\ sender[s] = [pc |-> pc, batch |-> b, answer |-> a, cur |-> k]
                         /\ SenderOK(sender[s])
  BY DEF QueueInv, SenderOK
<1>2. sender[s].pc = pc /\ sender[s].batch = b /\ sender[s].answer = a /\ sender[s].cur = k
  BY <1>1
<1>3. /\ pc \in {"idle", "loaded", "apply", "look", "show"} /\ b \subseteq DOMAIN records
      /\ pc \in {"apply", "look", "show"} => a \in [b -> Answers]
  BY <1>1, <1>2 DEF SenderOK
<1>4. due \in BOOLEAN /\ failing \in BOOLEAN
  BY DEF QueueInv
<1>0. sender = [t \in Senders |-> sender[t]]
  BY DEF QueueInv
<1>5. CASE Claim(s)
  <2> DEFINE x == [pc |-> "loaded", batch |-> Batch, answer |-> a, cur |-> k]
  <2>1. sender' = [sender EXCEPT ![s].pc = "loaded", ![s].batch = Batch]
    BY <1>5 DEF Claim
  <2>2. sender' = [sender EXCEPT ![s] = x]
    <3> DEFINE y == [pc |-> "loaded", batch |-> b, answer |-> a, cur |-> k]
    <3>1. [sender[s] EXCEPT !.pc = "loaded"] = y /\ [y EXCEPT !.batch = Batch] = x
      BY <1>1
    <3>2. [sender EXCEPT ![s].pc = "loaded"] = [sender EXCEPT ![s] = y]
      BY <3>1
    <3>3. [sender EXCEPT ![s] = y][s] = y
      BY <1>0
    <3>4. sender' = [[sender EXCEPT ![s] = y] EXCEPT ![s].batch = Batch]
      BY <3>2, <2>1
    <3>5. sender' = [[sender EXCEPT ![s] = y] EXCEPT ![s] = x]
      BY <3>1, <3>3, <3>4
    <3> HIDE DEF x, y
    <3> QED BY <3>5, <1>0
  <2>3. Batch \subseteq Pending /\ Pending \subseteq DOMAIN records
    BY DEF Batch, Pending
  <2>4. SenderOK(x) /\ x.batch = Batch /\ x.pc = "loaded"
    BY <2>3 DEF SenderOK
  <2>5. due' \in BOOLEAN /\ failing' \in BOOLEAN
    BY <1>4, <1>5 DEF Claim
  <2> HIDE DEF x
  <2> QED BY <1>5, <2>2, <2>3, <2>4, <2>5
<1>6. ASSUME ~Claim(s), sender' = [sender EXCEPT ![s] = Resting],
             due' \in BOOLEAN, failing' \in BOOLEAN
      PROVE  \E x : /\ sender' = [sender EXCEPT ![s] = x] /\ SenderOK(x)
                    /\ due' \in BOOLEAN /\ failing' \in BOOLEAN
                    /\ ~Claim(s) => x.batch \subseteq sender[s].batch
  <2>1. SenderOK(Resting) /\ Resting.batch = {}
    BY RestingOK DEF Resting
  <2> QED BY <1>6, <2>1
<1>7. CASE ~Claim(s) /\ (NotSent(s) \/ AnswerLost(s) \/ Done(s) \/ Die(s))
  <2>1. sender' = [sender EXCEPT ![s] = Resting] /\ due' \in BOOLEAN /\ failing' \in BOOLEAN
    BY <1>4, <1>7 DEF NotSent, AnswerLost, Done, Die, Fail
  <2> QED BY <1>6, <1>7, <2>1
<1>8. CASE ~Claim(s) /\ Answered(s)
  <2>1. PICK opinion \in [b -> Opinions] :
          sender' = [sender EXCEPT ![s].pc = "apply",
                                   ![s].answer = Processed(b, opinion).answer]
    BY <1>2, <1>8 DEF Answered
  <2>2. PICK w : w = Processed(b, opinion)
    OBVIOUS
  <2>3. Registering(b, w, b)
    BY <1>3, <2>2, SubmissionIs
  <2>4. w.answer \in [b -> Answers]
    <3>1. w.answer \in [b -> Answers \cup {"none"}]
      BY <2>3 DEF Registering, World
    <3>2. \A n \in b : w.answer[n] \in Answers
      BY <2>3 DEF Registering, Answers, Registered
    <3> QED BY <3>1, <3>2
  <2> DEFINE x == [pc |-> "apply", batch |-> b, answer |-> w.answer, cur |-> k]
  <2>8. sender' = [sender EXCEPT ![s].pc = "apply", ![s].answer = w.answer]
    BY <2>1, <2>2
  <2>5. sender' = [sender EXCEPT ![s] = x]
    <3> DEFINE y == [pc |-> "apply", batch |-> b, answer |-> a, cur |-> k]
    <3>1. [sender[s] EXCEPT !.pc = "apply"] = y /\ [y EXCEPT !.answer = w.answer] = x
      BY <1>1
    <3>2. [sender EXCEPT ![s].pc = "apply"] = [sender EXCEPT ![s] = y]
      BY <3>1
    <3>3. [sender EXCEPT ![s] = y][s] = y
      BY <1>0
    <3>4. sender' = [[sender EXCEPT ![s] = y] EXCEPT ![s].answer = w.answer]
      BY <3>2, <2>8
    <3>5. sender' = [[sender EXCEPT ![s] = y] EXCEPT ![s] = x]
      BY <3>1, <3>3, <3>4
    <3> HIDE DEF x, y
    <3> QED BY <3>5, <1>0
  <2>6. SenderOK(x) /\ x.batch = b
    BY <1>3, <2>4 DEF SenderOK
  <2>7. due' \in BOOLEAN /\ failing' \in BOOLEAN
    BY <1>4, <1>8 DEF Answered
  <2> HIDE DEF x
  <2> QED BY <1>2, <1>8, <2>5, <2>6, <2>7
<1>9. CASE ~Claim(s) /\ Apply(s)
  <2>1. PICK n : n = Min(b)
    OBVIOUS
  <2> DEFINE x == [pc |-> "look", batch |-> b \ {n}, cur |-> n,
                   answer |-> Restrict(a, b \ {n})]
  <2>2. sender' = [sender EXCEPT ![s] = x]
    BY <1>2, <1>9, <2>1 DEF Apply, QueueInv
  <2>3. a \in [b -> Answers]
    BY <1>2, <1>3, <1>9 DEF Apply
  <2>4. Restrict(a, b \ {n}) \in [b \ {n} -> Answers]
    BY <2>3 DEF Restrict
  <2>5. SenderOK(x) /\ x.batch = b \ {n}
    BY <1>3, <2>4 DEF SenderOK
  <2>6. due' \in BOOLEAN /\ failing' \in BOOLEAN
    BY <1>4, <1>9 DEF Apply
  <2> HIDE DEF x
  <2> QED BY <1>2, <1>9, <2>2, <2>5, <2>6
<1>10. CASE ~Claim(s) /\ LookForNewest(s)
  <2>1. pc = "look" /\ due' \in BOOLEAN /\ failing' \in BOOLEAN
    BY <1>2, <1>4, <1>10 DEF LookForNewest
  <2>2. \/ sender' = [sender EXCEPT ![s].pc = "show"]
        \/ sender' = [sender EXCEPT ![s].pc = "apply", ![s].cur = 0]
    BY <1>10 DEF LookForNewest
  <2>3. CASE sender' = [sender EXCEPT ![s].pc = "show"]
    <3> DEFINE x == [pc |-> "show", batch |-> b, answer |-> a, cur |-> k]
    <3>3. [sender[s] EXCEPT !.pc = "show"] = x
      BY <1>1
    <3>1. sender' = [sender EXCEPT ![s] = x]
      BY <2>3, <3>3
    <3>2. SenderOK(x) /\ x.batch = b
      BY <1>3, <2>1 DEF SenderOK
    <3> HIDE DEF x
    <3> QED BY <1>2, <1>10, <2>1, <3>1, <3>2
  <2>4. CASE sender' = [sender EXCEPT ![s].pc = "apply", ![s].cur = 0]
    <3> DEFINE x == [pc |-> "apply", batch |-> b, answer |-> a, cur |-> 0]
    <3>1. sender' = [sender EXCEPT ![s] = x]
      <4> DEFINE y == [pc |-> "apply", batch |-> b, answer |-> a, cur |-> k]
      <4>1. [sender[s] EXCEPT !.pc = "apply"] = y /\ [y EXCEPT !.cur = 0] = x
        BY <1>1
      <4>2. [sender EXCEPT ![s].pc = "apply"] = [sender EXCEPT ![s] = y]
        BY <4>1
      <4>3. [sender EXCEPT ![s] = y][s] = y
        BY <1>0
      <4>4. sender' = [[sender EXCEPT ![s] = y] EXCEPT ![s].cur = 0]
        BY <4>2, <2>4
      <4>5. sender' = [[sender EXCEPT ![s] = y] EXCEPT ![s] = x]
        BY <4>1, <4>3, <4>4
      <4> HIDE DEF x, y
      <4> QED BY <4>5, <1>0
    <3>2. SenderOK(x) /\ x.batch = b
      BY <1>3, <2>1 DEF SenderOK
    <3> HIDE DEF x
    <3> QED BY <1>2, <1>10, <2>1, <3>1, <3>2
  <2> QED BY <2>2, <2>3, <2>4
<1>11. CASE ~Claim(s) /\ Reflect(s)
  <2> DEFINE x == [pc |-> "apply", batch |-> b, answer |-> a, cur |-> 0]
  <2>1. pc = "show" /\ due' \in BOOLEAN /\ failing' \in BOOLEAN
    BY <1>2, <1>4, <1>11 DEF Reflect
  <2>2. sender' = [sender EXCEPT ![s] = x]
    <3> DEFINE y == [pc |-> "apply", batch |-> b, answer |-> a, cur |-> k]
    <3>1. [sender[s] EXCEPT !.pc = "apply"] = y /\ [y EXCEPT !.cur = 0] = x
      BY <1>1
    <3>2. [sender EXCEPT ![s].pc = "apply"] = [sender EXCEPT ![s] = y]
      BY <3>1
    <3>3. [sender EXCEPT ![s] = y][s] = y
      BY <1>0
    <3>4. sender' = [[sender EXCEPT ![s] = y] EXCEPT ![s].cur = 0]
      BY <3>2, <1>11 DEF Reflect
    <3>5. sender' = [[sender EXCEPT ![s] = y] EXCEPT ![s] = x]
      BY <3>1, <3>3, <3>4
    <3> HIDE DEF x, y
    <3> QED BY <3>5, <1>0
  <2>3. SenderOK(x) /\ x.batch = b
    BY <1>3, <2>1 DEF SenderOK
  <2> HIDE DEF x
  <2> QED BY <1>2, <1>11, <2>1, <2>2, <2>3
<1> QED BY <1>5, <1>7, <1>8, <1>9, <1>10, <1>11 DEF Submit

\* What a step of a sender writes of the records and the invoices.
LEMMA SenderWrites ==
    ASSUME KeptInv, QueueInv, NEW s \in Senders,
           \/ Submit(s) \/ NotSent(s) \/ AnswerLost(s) \/ Answered(s) \/ Die(s)
    PROVE  /\ UNCHANGED <<call, held, counter>>
           /\ records' \in Seq(RecType) /\ DOMAIN records' = DOMAIN records
           /\ \A n \in DOMAIN records : /\ records'[n].inv = records[n].inv
                                        /\ records'[n].kind = records[n].kind
                                        /\ records'[n].expects = records[n].expects
           /\ ~Apply(s) => records' = records
           /\ inv' \in [Invoices -> InvType]
           /\ \A i \in Invoices : /\ inv'[i].status = inv[i].status
                                  /\ inv'[i].number = inv[i].number
<1>1. inv \in [Invoices -> InvType] /\ records \in Seq(RecType)
  BY DEF KeptInv, BookTypes
<1>2. CASE Apply(s)
  <2>1. UNCHANGED <<call, held, counter, inv>>
    BY <1>2 DEF Apply, locks
  <2> QED BY <1>1, <1>2, <2>1, NextIsOfBatch
<1>3. CASE Reflect(s) /\ ~Apply(s)
  <2>1. UNCHANGED <<call, held, counter, records>>
    BY <1>3 DEF Reflect, locks
  <2>5. PICK f \in {"accepted", "rejected"} : \E j : inv' = [inv EXCEPT ![j].fiscal = f]
    BY <1>3 DEF Reflect, Shown
  <2>2. PICK j : inv' = [inv EXCEPT ![j].fiscal = f]
    BY <2>5
  <2>3. j \in Invoices => /\ [inv[j] EXCEPT !.fiscal = f] \in InvType
                          /\ [inv[j] EXCEPT !.fiscal = f].status = inv[j].status
                          /\ [inv[j] EXCEPT !.fiscal = f].number = inv[j].number
    BY <1>1 DEF InvType
  <2>4. /\ inv' \in [Invoices -> InvType]
        /\ \A i \in Invoices : /\ inv'[i].status = inv[i].status
                               /\ inv'[i].number = inv[i].number
    BY <1>1, <2>2, <2>3
  <2> QED BY <1>1, <1>3, <2>1, <2>4
<1>4. CASE ~Apply(s) /\ ~Reflect(s)
  <2>1. UNCHANGED <<call, held, counter, records, inv>>
    BY <1>4 DEF Submit, Claim, LookForNewest, Done, NotSent, AnswerLost, Answered, Die,
                Fail, bookRows, locks
  <2> QED BY <1>1, <2>1
<1> QED BY <1>2, <1>3, <1>4

\* What the AEAT has registered after it.
LEMMA SenderTells ==
    ASSUME KeptInv, QueueInv, NEW s \in Senders,
           \/ Submit(s) \/ NotSent(s) \/ AnswerLost(s) \/ Answered(s) \/ Die(s)
    PROVE  \/ UNCHANGED agency /\ ~Answered(s)
           \/ \E w : /\ Registering(sender[s].batch, w, sender[s].batch)
                     /\ sender[s].pc = "loaded" /\ records' = records
                     /\ aeat' = w.aeat /\ stored' = w.stored
                     /\ Answered(s) =>
                          sender' = [sender EXCEPT ![s].pc = "apply",
                                                   ![s].answer = w.answer]
                     /\ ~Answered(s) => sender' = [sender EXCEPT ![s] = Resting]
<1>1. sender[s].batch \in SUBSET DOMAIN records
  BY DEF QueueInv, SenderOK
<1>2. CASE Answered(s)
  <2>3. PICK opinion \in [sender[s].batch -> Opinions] : \E w :
          /\ w = Processed(sender[s].batch, opinion)
          /\ aeat' = w.aeat /\ stored' = w.stored
          /\ sender' = [sender EXCEPT ![s].pc = "apply", ![s].answer = w.answer]
    BY <1>2 DEF Answered
  <2>1. PICK w :
          /\ w = Processed(sender[s].batch, opinion)
          /\ aeat' = w.aeat /\ stored' = w.stored
          /\ sender' = [sender EXCEPT ![s].pc = "apply", ![s].answer = w.answer]
    BY <2>3
  <2>2. Registering(sender[s].batch, w, sender[s].batch)
    BY <1>1, <2>1, SubmissionIs
  <2> QED BY <1>2, <2>1, <2>2 DEF Answered, bookRows
<1>3. CASE AnswerLost(s) /\ ~Answered(s)
  <2>3. PICK opinion \in [sender[s].batch -> Opinions] : \E w :
          /\ w = Processed(sender[s].batch, opinion)
          /\ aeat' = w.aeat /\ stored' = w.stored
    BY <1>3 DEF AnswerLost
  <2>1. PICK w :
          /\ w = Processed(sender[s].batch, opinion)
          /\ aeat' = w.aeat /\ stored' = w.stored
    BY <2>3
  <2>2. Registering(sender[s].batch, w, sender[s].batch)
    BY <1>1, <2>1, SubmissionIs
  <2> QED BY <1>3, <2>1, <2>2 DEF AnswerLost, Fail, bookRows
<1>4. CASE ~Answered(s) /\ ~AnswerLost(s)
  BY <1>4 DEF Submit, Claim, Apply, LookForNewest, Reflect, Done, NotSent, Die, Fail
<1> QED BY <1>2, <1>3, <1>4

LEMMA SenderQueue ==
    ASSUME KeptInv, QueueInv, NEW s \in Senders,
           \/ Submit(s) \/ NotSent(s) \/ AnswerLost(s) \/ Answered(s) \/ Die(s)
    PROVE  QueueInv'
<1>1. PICK x : /\ sender' = [sender EXCEPT ![s] = x] /\ SenderOK(x)
               /\ due' \in BOOLEAN /\ failing' \in BOOLEAN
  BY SenderSteps
<1>2. /\ DOMAIN records' = DOMAIN records
      /\ \A n \in DOMAIN records : /\ records'[n].inv = records[n].inv
                                   /\ records'[n].kind = records[n].kind
  BY SenderWrites
<1>3. CASE UNCHANGED agency
  BY <1>1, <1>2, <1>3, QueueGoesOn
<1>4. CASE \E w : /\ Registering(sender[s].batch, w, sender[s].batch)
                  /\ aeat' = w.aeat /\ stored' = w.stored
  <2>1. PICK w : /\ Registering(sender[s].batch, w, sender[s].batch)
                 /\ aeat' = w.aeat /\ stored' = w.stored
    BY <1>4
  <2>2. /\ aeat' \in [Invoices -> Holdings]
        /\ stored' \in [Numbers -> Registered \cup {"none"}]
    BY <2>1 DEF Registering, World
  <2>3. sender[s].batch \subseteq DOMAIN records
    BY DEF QueueInv, SenderOK
  <2>4. \A n \in Numbers \ DOMAIN records : stored'[n] = "none"
    BY <2>1, <2>3 DEF Registering, QueueInv
  <2>5. Sound(aeat', stored')
    BY <2>1 DEF Registering
  <2> QED BY <1>1, <1>2, <2>2, <2>4, <2>5, QueueKept
<1> QED BY <1>3, <1>4, SenderTells

-----------------------------------------------------------------------------
(* KeptInv and QueueInv are inductive.                                     *)

BookInv == KeptInv /\ QueueInv

LEMMA BookStep ==
    ASSUME BookInv, [Next]_vars PROVE BookInv'
<1>1. KeptInv /\ QueueInv /\ BooksInv'
  BY BooksStep DEF BookInv, KeptInv
<1>2. CASE \E c \in Calls : Request(c) \/ Proceed(c) \/ Refuse(c) \/ BreakDeadlock(c)
  <2>1. PICK c \in Calls : Request(c) \/ Proceed(c) \/ Refuse(c) \/ BreakDeadlock(c)
    BY <1>2
  <2>2. KeptInv'
    BY <1>1, <2>1, CallDesk
  <2> QED BY <1>1, <2>1, <2>2, CallQueue DEF BookInv
<1>3. CASE \E s \in Senders : Submit(s) \/ NotSent(s) \/ AnswerLost(s) \/ Answered(s) \/ Die(s)
  <2>1. PICK s \in Senders :
          Submit(s) \/ NotSent(s) \/ AnswerLost(s) \/ Answered(s) \/ Die(s)
    BY <1>3
  <2>2. KeptInv'
    BY <1>1, <2>1, SenderWrites, QueueSpares
  <2> QED BY <1>1, <2>1, <2>2, SenderQueue DEF BookInv
<1>4. CASE WaitEnds \/ UNCHANGED vars
  <2>1. /\ UNCHANGED <<inv, records, counter, call, held, sender, aeat, stored>>
        /\ due' \in BOOLEAN /\ failing' \in BOOLEAN
    BY <1>1, <1>4 DEF WaitEnds, vars, bookRows, locks, queue, agency, QueueInv
  <2>2. KeptInv'
    <3>1. records' \in Seq(RecType) /\ inv' \in [Invoices -> InvType]
      BY <1>1, <2>1 DEF KeptInv, BookTypes
    <3> QED BY <1>1, <2>1, <3>1, QueueSpares
  <2>3. QueueInv'
    BY <1>1, <2>1 DEF QueueInv, SenderOK, Sound
  <2> QED BY <2>2, <2>3 DEF BookInv
<1> QED BY <1>2, <1>3, <1>4 DEF Next

LEMMA BookInits == Init => BookInv
<1> SUFFICES ASSUME Init PROVE BookInv
  OBVIOUS
<1>1. BooksInv
  BY BooksInit
<1>2. \A c \in Calls : call[c] = Idle
  BY DEF Init
<1>3. records = <<>> /\ DOMAIN records = {}
  BY DEF Init
<1>4. BookTypes
  BY DEF Init, BookTypes, InvType
<1>5. \A c \in Calls : DeskOK(c, call[c], held)
  BY <1>2, IdleDesk
<1>6. OneBrings /\ Owing = {}
  BY <1>2, TodosEnds DEF OneBrings, Brings, Owing, Idle
<1>7. Room
  BY <1>3, <1>6, CallsAssumption, FS_EmptySet DEF Room
<1>8. Counted
  <2>1. \A s \in Series : {i \in Invoices : inv[i].number # 0 /\ SeriesOf[i] = s} = {}
    BY DEF Init
  <2> QED BY <2>1, FS_EmptySet DEF Init, Counted
<1>9. OfTheBook
  BY <1>3 DEF OfTheBook
<1>10. QueueInv
  <2>1. Sound(aeat, stored)
    BY <1>3 DEF Init, Sound
  <2> QED BY <2>1, RestingOK DEF Init, QueueInv, Holdings, Registered
<1> QED BY <1>1, <1>4, <1>5, <1>6, <1>7, <1>8, <1>9, <1>10 DEF BookInv, KeptInv

(* BookInv is inductive: two calls never bring the same invoice, what a     *)
(* call saw of its row is kept by the row's lock, its number by the        *)
(* salon's turn, and the AEAT holds what it registered of a queue whose    *)
(* records are all of invoices of the book.                                *)
THEOREM BookHolds == Spec => []BookInv
<1>1. BookInv /\ [Next]_vars => BookInv'
  BY BookStep
<1> QED BY BookInits, <1>1, PTL DEF Spec

(* Every variable keeps its shape, and no more records are written than    *)
(* the calls begun had room for (StartIssue, StartCancel, StartResend).    *)
THEOREM TypesHold == Spec => []TypeOK
<1>1. BookInv => TypeOK
  <2> SUFFICES ASSUME KeptInv, QueueInv PROVE TypeOK
    BY DEF BookInv
  <2>1. Len(records) <= MaxRecords
    BY RecordsFit
  <2> QED BY <2>1 DEF KeptInv, BookTypes, InvType, QueueInv, SenderOK, Holdings, TypeOK
<1> QED BY BookHolds, <1>1, PTL

-----------------------------------------------------------------------------
(* The book InvoiceBook promises: every step is one of its own, or no step  *)
(* of it.                                                                  *)

\* What the book shows is what the invoices are, and what the AEAT holds.
LEMMA BookShows ==
    /\ \A i \in Invoices : /\ Book!LiveRectifications(i) = LiveRectifications(i)
                           /\ Book!NumberedIn(SeriesOf[i]) =
                                {j \in Invoices : inv[j].number # 0 /\ SeriesOf[j] = SeriesOf[i]}
BY DEF Book!LiveRectifications, Book!NumberedIn, LiveRectifications

LEMMA BookStands ==
    ASSUME aeat' = aeat,
           \A i \in Invoices : /\ inv'[i].status = inv[i].status
                               /\ inv'[i].number = inv[i].number
    PROVE  UNCHANGED Book!bookVars
<1>1. /\ [i \in Invoices |-> inv'[i].status] = [i \in Invoices |-> inv[i].status]
      /\ [i \in Invoices |-> inv'[i].number] = [i \in Invoices |-> inv[i].number]
  OBVIOUS
<1> QED BY <1>1 DEF Book!bookVars

LEMMA CommitIsOfBook ==
    ASSUME KeptInv, NEW c \in Calls, Commit(c) PROVE [Book!BookNext]_(Book!bookVars)
<1>0. PICK o, i, k : o = call[c] /\ i = o.inv /\ k = o.kind
  OBVIOUS
<1>1. /\ i \in Invoices /\ k \in RequestKinds /\ o.todo # <<>> /\ o.todo \in Generated
      /\ inv' = [inv EXCEPT ![i] = inv'[i]] /\ inv'[i] \in InvType
      /\ k \in Fresh =>
            /\ inv[i].status = "absent" /\ inv'[i].status = "issued"
            /\ inv[i].number = 0 /\ inv'[i].number = counter[SeriesOf[i]] + 1
            /\ ~Invoiced(i)
            /\ Rectifies[i] # NoInvoice => k = "rectify"
      /\ k \notin Fresh => inv'[i].number = inv[i].number
      /\ k \in Ends => inv[i].status = "issued" /\ inv'[i].status = "cancelled"
      /\ k \notin Fresh \cup Ends => inv'[i].status = inv[i].status
  BY <1>0, CommitWrites
<1>2. aeat' = aeat
  BY DEF Commit, agency
<1>3. \A j \in Invoices : j # i => inv'[j] = inv[j]
  BY <1>1 DEF KeptInv, BookTypes
<1>4. DeskOK(c, o, held)
  BY <1>0 DEF KeptInv
<1>5. CASE k \in Fresh
  <2>1. \A j \in Invoices \ {i} : SourceOf[j] = SourceOf[i] => inv[j].status # "issued"
    BY <1>1, <1>5 DEF Invoiced
  <2>2. Rectifies[i] # NoInvoice => inv[Rectifies[i]].status = "issued"
                                    /\ Rectifies[i] \in Invoices
    <3>1. SUFFICES ASSUME Rectifies[i] # NoInvoice
                   PROVE  inv[Rectifies[i]].status = "issued" /\ Rectifies[i] \in Invoices
      OBVIOUS
    <3>2. k = "rectify" /\ o.todo \notin RowLeft
      BY <1>1, <1>5, <3>1 DEF Generated, RowLeft
    <3> QED BY <1>0, <1>1, <1>4, <3>1, <3>2, InvoicesAssumption DEF DeskOK, RowKept
  <2>3. inv'[i].number = Cardinality(Book!NumberedIn(SeriesOf[i])) + 1
    <3>1. PICK A : A = {j \in Invoices : inv[j].number # 0 /\ SeriesOf[j] = SeriesOf[i]}
      OBVIOUS
    <3>2. counter[SeriesOf[i]] = Cardinality(A)
      BY <1>1, <3>1 DEF KeptInv, Counted, Series
    <3>3. Book!NumberedIn(SeriesOf[i]) = A
      BY <1>1, <3>1 DEF Book!NumberedIn
    <3> QED BY <1>1, <1>5, <3>2, <3>3
  <2>4. [j \in Invoices |-> inv'[j].status] =
           [[j \in Invoices |-> inv[j].status] EXCEPT ![i] = "issued"]
    BY <1>1, <1>3, <1>5
  <2>5. \A S : Book!Cardinality(S) = Cardinality(S)
    BY Zenon DEF Book!Cardinality, Cardinality
  <2>6. [j \in Invoices |-> inv'[j].number] =
           [[j \in Invoices |-> inv[j].number] EXCEPT ![i] =
              Book!Cardinality(Book!NumberedIn(SeriesOf[i])) + 1]
    <3>1. PICK n : n = Cardinality(Book!NumberedIn(SeriesOf[i])) + 1
      OBVIOUS
    <3>2. [j \in Invoices |-> inv'[j].number] =
             [[j \in Invoices |-> inv[j].number] EXCEPT ![i] = n]
      BY <1>1, <1>3, <2>3, <3>1
    <3> QED BY <2>5, <3>1, <3>2
  <2>7. /\ [j \in Invoices |-> inv[j].status][i] = "absent"
        /\ Rectifies[i] # NoInvoice =>
              [j \in Invoices |-> inv[j].status][Rectifies[i]] = "issued"
        /\ \A j \in Invoices \ {i} : SourceOf[j] = SourceOf[i] =>
              [h \in Invoices |-> inv[h].status][j] # "issued"
    BY <1>1, <1>5, <2>1, <2>2
  <2>8. Book!Issue(i)
    BY <1>2, <2>4, <2>6, <2>7 DEF Book!Issue
  <2> QED BY <1>1, <2>8 DEF Book!BookNext
<1>6. CASE k \in Ends
  <2>1. k \notin Fresh /\ o.todo \notin RowLeft
    BY <1>1, <1>6 DEF Ends, Fresh, Generated, RowLeft
  <2>2. LiveRectifications(i) = {}
    BY <1>0, <1>1, <1>4, <1>6, <2>1 DEF DeskOK, RowKept
  <2>3. Book!LiveRectifications(i) = {}
    BY <1>1, <2>2, BookShows
  <2>4. [j \in Invoices |-> inv'[j].status] =
           [[j \in Invoices |-> inv[j].status] EXCEPT ![i] = "cancelled"]
    BY <1>1, <1>3, <1>6
  <2>5. [j \in Invoices |-> inv'[j].number] = [j \in Invoices |-> inv[j].number]
    BY <1>1, <1>3, <2>1
  <2>6. Book!Cancel(i)
    BY <1>1, <1>2, <1>6, <2>3, <2>4, <2>5 DEF Book!Cancel
  <2> QED BY <1>1, <2>6 DEF Book!BookNext
<1>7. CASE k \notin Fresh \cup Ends
  <2>1. \A j \in Invoices : inv'[j].status = inv[j].status /\ inv'[j].number = inv[j].number
    BY <1>1, <1>3, <1>7
  <2> QED BY <1>2, <2>1, BookStands
<1> QED BY <1>5, <1>6, <1>7

LEMMA SenderIsOfBook ==
    ASSUME KeptInv, QueueInv, NEW s \in Senders,
           \/ Submit(s) \/ NotSent(s) \/ AnswerLost(s) \/ Answered(s) \/ Die(s)
    PROVE  [Book!BookNext]_(Book!bookVars)
<1>1. \A i \in Invoices : /\ inv'[i].status = inv[i].status
                          /\ inv'[i].number = inv[i].number
  BY SenderWrites
<1>2. CASE UNCHANGED agency
  BY <1>1, <1>2, BookStands DEF agency
<1>3. CASE \E w : Registering(sender[s].batch, w, sender[s].batch) /\ aeat' = w.aeat
  <2>1. PICK w : Registering(sender[s].batch, w, sender[s].batch) /\ aeat' = w.aeat
    BY <1>3
  <2>2. aeat' \in [Invoices -> {"nothing", "alta", "annulled"}]
    BY <2>1 DEF Registering, World, Holdings
  <2>3. \A i \in Invoices :
           \/ aeat'[i] = aeat[i]
           \/ aeat[i] = "nothing" /\ aeat'[i] = "alta" /\ inv[i].status # "absent"
           \/ aeat'[i] = "annulled" /\ inv[i].status = "cancelled"
    BY <2>1 DEF Registering, Told
  <2>4. /\ [i \in Invoices |-> inv'[i].status] = [i \in Invoices |-> inv[i].status]
        /\ [i \in Invoices |-> inv'[i].number] = [i \in Invoices |-> inv[i].number]
    BY <1>1
  <2>5. Book!Tell
    BY <2>2, <2>3, <2>4 DEF Book!Tell
  <2> QED BY <2>5 DEF Book!BookNext
<1> QED BY <1>2, <1>3, SenderTells

LEMMA StepIsOfBook ==
    ASSUME BookInv, [Next]_vars PROVE [Book!BookNext]_(Book!bookVars)
<1>1. KeptInv /\ QueueInv
  BY DEF BookInv
<1>2. ASSUME UNCHANGED <<inv, aeat>> PROVE UNCHANGED Book!bookVars
  BY <1>2, BookStands
<1>3. ASSUME NEW c \in Calls, Request(c) \/ Proceed(c) \/ Refuse(c) \/ BreakDeadlock(c)
      PROVE  [Book!BookNext]_(Book!bookVars)
  <2>1. CASE Commit(c)
    BY <1>1, <2>1, CommitIsOfBook
  <2>2. CASE ~Commit(c)
    <3>1. aeat' = aeat
      BY <1>1, <1>3, CallAdds DEF agency
    <3>2. inv' = inv
      <4>1. CASE Request(c)
        <5>1. PICK kind, i, todo : Begin(c, kind, i, todo)
          BY <4>1 DEF Request, StartIssue, StartRectify, StartCancel, StartResend
        <5> QED BY <5>1 DEF Begin, bookRows
      <4>2. CASE ~Request(c)
        BY <1>3, <2>2, <4>2 DEF Proceed, Refuse, BreakDeadlock, Acquire, Generate, Kick,
                                Rollback, bookRows
      <4> QED BY <4>1, <4>2
    <3> QED BY <1>2, <3>1, <3>2
  <2> QED BY <2>1, <2>2
<1>4. ASSUME NEW s \in Senders,
             \/ Submit(s) \/ NotSent(s) \/ AnswerLost(s) \/ Answered(s) \/ Die(s)
      PROVE  [Book!BookNext]_(Book!bookVars)
  BY <1>1, <1>4, SenderIsOfBook
<1>5. CASE WaitEnds \/ UNCHANGED vars
  BY <1>2, <1>5 DEF WaitEnds, vars, bookRows, agency
<1> QED BY <1>3, <1>4, <1>5 DEF Next

(* Fiscal implements InvoiceBook: numbers run without gaps, a visit has    *)
(* one live invoice at most, nothing is cancelled under a live             *)
(* rectificativa, and the AEAT is told of nothing that was not issued, nor *)
(* of an annulment nobody asked for - whatever is refused, lost or dies.   *)
THEOREM BookIsKept == Spec => BookKept
<1>1. Init => Book!BookInit
  BY DEF Init, Book!BookInit
<1>2. BookInv /\ [Next]_vars => [Book!BookNext]_(Book!bookVars)
  BY StepIsOfBook
<1> QED BY <1>1, <1>2, BookHolds, PTL DEF Spec, BookKept, Book!BookSpec

-----------------------------------------------------------------------------
(* What the salon is shown of its records, and what they tell the AEAT,    *)
(* when the records of one submission are not in another's: a backend of   *)
(* one process, or one where nobody asks for a record to be sent again     *)
(* (Kick opens the queue in the middle of a submission).                   *)
OneProcess == \A s, t \in Senders : s = t
NobodyResends == \A c \in Calls : Kinds[c] \cap {"correct", "again"} = {}

\* A call that is busy makes a request it may make.
OfTheirKinds == \A c \in Calls : call[c].todo # <<>> => call[c].kind \in Kinds[c]

AtWork(s) == sender[s].pc # "idle"

\* One sender is at work at most, and none while the queue may be claimed.
OneAtWork == /\ \A s, t \in Senders : AtWork(s) /\ AtWork(t) => s = t
             /\ due => OneProcess \/ \A s \in Senders : ~AtWork(s)

\* What it has to write down are records that wait, answered as registered.
InHand(s) ==
    AtWork(s) =>
      /\ sender[s].batch \subseteq Pending
      /\ sender[s].pc # "loaded" =>
            \A n \in sender[s].batch :
               \/ sender[s].answer[n] \in Registered \cup Duplicates /\ stored[n] # "none"
               \/ sender[s].answer[n] = "rejected" /\ stored[n] = "none"

\* A record r after those of its invoice in B: an alta follows altas the AEAT
\* did not take as they were; and r says of them what came of them.
Fits(r, B) ==
    /\ r.kind = "alta" => \A m \in B : /\ records[m].kind = "alta"
                                       /\ records[m].status \in {"errors", "rejected"}
    /\ r.expects = "nothing" =>
          \A m \in B : records[m].kind = "alta" => records[m].status = "rejected"
    /\ r.expects = "alta" /\ r.kind = "alta" => \E m \in B : records[m].status = "errors"

Earlier(n) == {m \in RecordsOf(records[n].inv) : m < n}

TellingInv ==
    /\ OfTheirKinds /\ OneAtWork /\ \A s \in Senders : InHand(s)
    /\ LocalMatchesAeat
    /\ \A n \in DOMAIN records : Fits(records[n], Earlier(n))
    /\ \A c \in Calls : call[c].todo \in Generated =>
          call[c].rec.status = "pending" /\ Fits(call[c].rec, RecordsOf(call[c].inv))

-----------------------------------------------------------------------------

\* A step of a call, seen from its desk.
LEMMA CallMoves ==
    ASSUME KeptInv, NEW c \in Calls,
           Request(c) \/ Proceed(c) \/ Refuse(c) \/ BreakDeadlock(c)
    PROVE  \E x : /\ call' = [call EXCEPT ![c] = x]
                  /\ x.todo # <<>> =>
                        x.kind \in Kinds[c] \/ (x.kind = call[c].kind /\ call[c].todo # <<>>)
                  /\ x.todo \in Generated =>
                        /\ ~Commit(c) /\ x.inv = call[c].inv
                        /\ \/ call[c].todo \in Generated /\ x.rec = call[c].rec
                           \/ Generate(c) /\ Recordable(c) /\ x.rec = RecordFor(c)
<1>0. PICK o : o = call[c]
  OBVIOUS
<1>1. CallShape(o) /\ o.todo \in InTurn \cup Before
  BY <1>0 DEF KeptInv, BooksInv, LineInv, Shapes
<1>2. CASE call' = [call EXCEPT ![c] = Idle]
  <2>1. Idle.todo = <<>> /\ Idle.todo \notin Generated
    BY TodosEnds DEF Idle
  <2> QED BY <1>2, <2>1
<1>3. CASE Request(c)
  <2>1. PICK kind, i, todo : Begin(c, kind, i, todo) /\ todo \in Before
    BY <1>3 DEF Request, StartIssue, StartRectify, StartCancel, StartResend, Before
  <2> DEFINE x == [kind |-> kind, inv |-> i, todo |-> todo, number |-> 0,
                   rec |-> NoRecord]
  <2>2. call' = [call EXCEPT ![c] = x] /\ kind \in Kinds[c]
    BY <2>1 DEF Begin
  <2>3. x.todo \notin Generated /\ x.kind = kind
    BY <2>1, NotYet DEF InTurn
  <2> HIDE DEF x
  <2> QED BY <2>2, <2>3
<1>4. CASE Acquire(c) /\ ~Rollback(c)
  <2>1. PICK s \in {"chain", "row", "number"} :
          /\ Doing(c, s)
          /\ Continue(c, IF s = "number"
                  THEN [o EXCEPT !.number = counter[SeriesOf[o.inv]] + 1] ELSE o)
          /\ UNCHANGED bookRows
    BY <1>0, <1>4 DEF Acquire
  <2> DEFINE new == IF s = "number"
                    THEN [o EXCEPT !.number = counter[SeriesOf[o.inv]] + 1] ELSE o
  <2>2. /\ CallShape(new) /\ new.todo = o.todo /\ new.rec = o.rec
        /\ new.kind = o.kind /\ new.inv = o.inv
    BY <1>1 DEF CallShape
  <2>3. Continue(c, new)
    BY <2>1
  <2> HIDE DEF new
  <2>4. PICK x : /\ call' = [call EXCEPT ![c] = x]
                 /\ x.todo = Tail(o.todo) /\ x.rec = o.rec
                 /\ x.kind = o.kind /\ x.inv = o.inv
    BY <2>2, <2>3, ContinueShape
  <2>5. o.todo # <<>> /\ Head(o.todo) \in {"chain", "row", "number"}
    BY <1>0, <2>1 DEF Doing
  <2>6. Tail(o.todo) \in Generated => o.todo \in Generated
    BY <1>1, <2>5, TodoSteps
  <2>7. ~Commit(c)
    BY <1>0, <2>5 DEF Commit, Doing
  <2> QED BY <1>0, <2>4, <2>5, <2>6, <2>7
<1>5. CASE Generate(c) /\ Recordable(c)
  <2> DEFINE new == [o EXCEPT !.rec = RecordFor(c)]
  <2>1. /\ CallShape(new) /\ new.todo = o.todo /\ new.rec = RecordFor(c)
        /\ new.kind = o.kind /\ new.inv = o.inv
    BY <1>1 DEF CallShape
  <2>2. Continue(c, new)
    BY <1>0, <1>5 DEF Generate
  <2> HIDE DEF new
  <2>3. PICK x : /\ call' = [call EXCEPT ![c] = x]
                 /\ x.todo = Tail(o.todo) /\ x.rec = RecordFor(c)
                 /\ x.kind = o.kind /\ x.inv = o.inv
    BY <2>1, <2>2, ContinueShape
  <2>4. o.todo # <<>> /\ ~Commit(c)
    BY <1>0, <1>5 DEF Generate, Commit, Doing
  <2> QED BY <1>0, <1>5, <2>3, <2>4
<1>6. CASE Commit(c) /\ Tail(o.todo) # <<>>
  <2> DEFINE old == [o EXCEPT !.rec = NoRecord]
  <2>1. CallShape(old) /\ old.todo = o.todo /\ old.kind = o.kind
    BY <1>1 DEF CallShape
  <2>2. Continue(c, old)
    BY <1>0, <1>6 DEF Commit
  <2> HIDE DEF old
  <2>3. PICK x : /\ call' = [call EXCEPT ![c] = x] /\ x.todo = Tail(o.todo)
                 /\ x.kind = o.kind
    BY <2>1, <2>2, ContinueShape
  <2>4. o.todo # <<>> /\ Head(o.todo) = "commit"
    BY <1>0, <1>6 DEF Commit, Doing
  <2>5. Tail(o.todo) \notin Generated
    BY <1>1, <1>6, <2>4, TodoSteps, TodosEnds
  <2> QED BY <1>0, <2>3, <2>4, <2>5
<1> QED BY <1>0, <1>2, <1>3, <1>4, <1>5, <1>6
        DEF Proceed, Acquire, Generate, Commit, Kick, Refuse, BreakDeadlock, Rollback

\* A record that was answered is not answered again.
LEMMA AnsweredOnce ==
    ASSUME BookInv, TellingInv, [Next]_vars, NEW n \in DOMAIN records
    PROVE  /\ n \in DOMAIN records' /\ records'[n].inv = records[n].inv
           /\ records'[n].kind = records[n].kind
           /\ records'[n].expects = records[n].expects
           /\ records[n].status # "pending" => records'[n].status = records[n].status
<1>1. KeptInv /\ QueueInv
  BY DEF BookInv
<1>2. ASSUME NEW c \in Calls, Request(c) \/ Proceed(c) \/ Refuse(c) \/ BreakDeadlock(c)
      PROVE  n \in DOMAIN records' /\ records'[n] = records[n]
  BY <1>1, <1>2, CallAdds
<1>3. ASSUME NEW s \in Senders, Apply(s), records[n].status # "pending"
      PROVE  records'[n] = records[n]
  <2>1. sender[s].batch \subseteq Pending
    BY <1>3 DEF TellingInv, InHand, AtWork, Apply
  <2>2. n \notin sender[s].batch
    BY <1>3, <2>1 DEF Pending
  <2> QED BY <1>1, <1>3, <2>2, NextIsOfBatch
<1>4. ASSUME NEW s \in Senders,
             \/ Submit(s) \/ NotSent(s) \/ AnswerLost(s) \/ Answered(s) \/ Die(s)
      PROVE  /\ DOMAIN records' = DOMAIN records /\ records'[n].inv = records[n].inv
             /\ records'[n].kind = records[n].kind
             /\ records'[n].expects = records[n].expects
             /\ ~Apply(s) => records' = records
  BY <1>1, <1>4, SenderWrites
<1>5. CASE WaitEnds \/ UNCHANGED vars
  BY <1>5 DEF WaitEnds, vars, bookRows
<1> QED BY <1>2, <1>3, <1>4, <1>5 DEF Next

LEMMA FitsOn ==
    ASSUME BookInv, TellingInv, [Next]_vars, NEW r, NEW B \in SUBSET DOMAIN records, Fits(r, B)
    PROVE  Fits(r, B)'
<1>1. \A m \in B : /\ records'[m].kind = records[m].kind
                   /\ records[m].status # "pending" => records'[m].status = records[m].status
  BY AnsweredOnce
<1> QED BY <1>1 DEF Fits

\* A call that commits nothing writes nothing.
LEMMA CallWrites ==
    ASSUME NEW c \in Calls, Request(c) \/ Proceed(c) \/ Refuse(c) \/ BreakDeadlock(c),
           ~Commit(c)
    PROVE  UNCHANGED bookRows
<1>1. CASE Request(c)
  <2>1. PICK kind, i, todo : Begin(c, kind, i, todo)
    BY <1>1 DEF Request, StartIssue, StartRectify, StartCancel, StartResend
  <2> QED BY <2>1 DEF Begin
<1>2. CASE ~Request(c)
  BY <1>2 DEF Proceed, Refuse, BreakDeadlock, Acquire, Generate, Kick, Rollback
<1> QED BY <1>1, <1>2

(* Under the salon's turn the record a call generates fits those before    *)
(* it: a new invoice has none, a correction follows one that the AEAT      *)
(* rejected or took with errors, and what it says of an alta is what the   *)
(* invoice's records say.                                                  *)
LEMMA GeneratedFits ==
    ASSUME BookInv, TellingInv, NEW c \in Calls, Generate(c), Recordable(c)
    PROVE  /\ RecordFor(c).status = "pending"
           /\ Fits(RecordFor(c), RecordsOf(call[c].inv))
<1>0. PICK o, i, k : o = call[c] /\ i = o.inv /\ k = o.kind
  OBVIOUS
<1>1. o.todo # <<>> /\ Head(o.todo) = "record"
  BY <1>0 DEF Generate, Doing
<1>2. DeskOK(c, o, held) /\ k \in RequestKinds /\ i \in Invoices
  BY <1>0, <1>1 DEF BookInv, KeptInv, DeskOK, DeskTyped
<1>3. PICK r, sure : /\ r = RecordFor(c) /\ r.status = "pending"
                     /\ r.kind = IF k \in {"issue", "rectify", "correct"} THEN "alta"
                                 ELSE "anulacion"
                     /\ r.expects = IF k \notin Fresh /\ (sure \/ HoldsAlta(i))
                                    THEN "alta" ELSE "nothing"
                     /\ sure <=> k \notin Fresh /\ Newest(i).status # "rejected"
                                 /\ k = "correct"
  <2>1. PICK sure : sure = (k \notin Fresh /\ Newest(i).status # "rejected"
                            /\ k = "correct")
    OBVIOUS
  <2>2. RecordFor(c) =
          [kind |-> IF k \in {"issue", "rectify", "correct"} THEN "alta" ELSE "anulacion",
           inv |-> i, previous |-> Len(records), status |-> "pending",
           expects |-> IF k \notin Fresh /\ (sure \/ HoldsAlta(i)) THEN "alta"
                                                                ELSE "nothing"]
    BY <1>0, <2>1, Zenon DEF RecordFor, Fresh
  <2>3. PICK r : r = RecordFor(c)
    OBVIOUS
  <2>4. /\ r.status = "pending"
        /\ r.kind = IF k \in {"issue", "rectify", "correct"} THEN "alta" ELSE "anulacion"
        /\ r.expects = IF k \notin Fresh /\ (sure \/ HoldsAlta(i)) THEN "alta"
                                                                 ELSE "nothing"
    BY <2>2, <2>3
  <2>5. sure <=> k \notin Fresh /\ Newest(i).status # "rejected" /\ k = "correct"
    BY <2>1
  <2> QED BY <2>3, <2>4, <2>5
<1>4. CASE k \in Fresh
  <2>1. inv[i].status = "absent"
    BY <1>0, <1>1, <1>2, <1>4 DEF DeskOK, OfNew
  <2>2. RecordsOf(i) = {}
    BY <2>1 DEF BookInv, KeptInv, OfTheBook, RecordsOf
  <2>3. r.expects = "nothing"
    BY <1>3, <1>4
  <2> QED BY <1>0, <1>3, <2>2, <2>3 DEF Fits
<1>5. CASE k \notin Fresh
  <2>1. RecordsOf(i) \subseteq DOMAIN records /\ RecordsOf(i) \subseteq Nat
    BY RecordsFit DEF BookInv, RecordsOf
  <2>2. inv[i].status # "absent"
    BY <1>0, <1>1, <1>2, <1>5 DEF DeskOK, OfIssued
  <2>3. PICK n \in RecordsOf(i) : \A m \in RecordsOf(i) : m <= n
    BY <1>2, <2>2 DEF BookInv, KeptInv, BooksInv, Recorded, HasNewest
  <2>4. Newest(i) = records[n]
    BY <2>1, <2>3, MaxIs DEF Newest
  <2>5. \A m \in RecordsOf(i) : m # n => m \in Earlier(n)
    BY <2>1, <2>3 DEF Earlier, RecordsOf
  <2>6. Fits(records[n], Earlier(n))
    BY <2>1, <2>3 DEF TellingInv
  <2>7. \A m \in RecordsOf(i) : records[m] \in RecType
    BY <2>1 DEF BookInv, KeptInv, BookTypes
  <2>8. r.expects = "nothing" =>
           \A m \in RecordsOf(i) : records[m].kind = "alta" => records[m].status = "rejected"
    BY <1>3, <1>5 DEF HoldsAlta
  <2>9. ASSUME r.kind = "alta"
        PROVE  /\ \A m \in RecordsOf(i) : /\ records[m].kind = "alta"
                                          /\ records[m].status \in {"errors", "rejected"}
               /\ r.expects = "alta" => \E m \in RecordsOf(i) : records[m].status = "errors"
    <3>1. k = "correct"
      BY <1>3, <1>5, <2>9 DEF Fresh
    <3>2. records[n].kind = "alta" /\ records[n].status \in {"errors", "rejected"}
      BY <1>0, <2>4, <3>1 DEF Recordable
    <3>3. \A m \in RecordsOf(i) : /\ records[m].kind = "alta"
                                  /\ records[m].status \in {"errors", "rejected"}
      BY <2>5, <2>6, <3>2 DEF Fits
    <3>4. ASSUME r.expects = "alta" PROVE \E m \in RecordsOf(i) : records[m].status = "errors"
      <4>1. sure \/ HoldsAlta(i)
        BY <1>3, <3>4
      <4>2. CASE sure
        BY <1>3, <2>3, <2>4, <3>2, <4>2
      <4>3. CASE HoldsAlta(i)
        BY <3>3, <4>3 DEF HoldsAlta
      <4> QED BY <4>1, <4>2, <4>3
    <3> QED BY <3>3, <3>4
  <2>10. Fits(r, RecordsOf(i))
    BY <2>8, <2>9 DEF Fits
  <2> QED BY <1>0, <1>3, <2>10
<1> QED BY <1>4, <1>5

\* A step of a sender, seen from its desk.
LEMMA SenderMoves ==
    ASSUME QueueInv, NEW s \in Senders,
           \/ Submit(s) \/ NotSent(s) \/ AnswerLost(s) \/ Answered(s) \/ Die(s)
    PROVE  /\ due' = due \/ due' = FALSE
           /\ \A t \in Senders \ {s} : sender'[t] = sender[t]
           /\ Claim(s) => due /\ due' = FALSE
           /\ ~Claim(s) => AtWork(s)
           /\ \/ ~AtWork(s)'
              \/ Claim(s) /\ sender'[s].pc = "loaded" /\ sender'[s].batch \subseteq Pending
              \/ /\ Answered(s) /\ sender[s].pc = "loaded"
                 /\ sender'[s].batch = sender[s].batch
              \/ /\ ~Answered(s) /\ ~Claim(s) /\ sender[s].pc # "loaded"
                 /\ sender'[s].pc # "loaded"
                 /\ sender'[s].batch \subseteq sender[s].batch
                 /\ Apply(s) => Min(sender[s].batch) \notin sender'[s].batch
                 /\ \A n \in sender'[s].batch : sender'[s].answer[n] = sender[s].answer[n]
<1>1. sender = [t \in Senders |-> sender[t]]
  BY DEF QueueInv
<1>2. PICK pc, b, a, k : sender[s] = [pc |-> pc, batch |-> b, answer |-> a, cur |-> k]
  BY DEF QueueInv, SenderOK
<1>3. Batch \subseteq Pending
  BY DEF Batch
<1>4. CASE Claim(s)
  <2>1. sender[s].pc = "idle"
    BY <1>4 DEF Claim
  <2>2. ~Answered(s)
    BY <2>1 DEF Answered
  <2>3. sender' = [sender EXCEPT ![s].pc = "loaded", ![s].batch = Batch]
    BY <1>4 DEF Claim
  <2>4. /\ sender'[s].pc = "loaded" /\ sender'[s].batch = Batch
        /\ \A t \in Senders \ {s} : sender'[t] = sender[t]
    BY <1>1, <1>2, <2>3
  <2> QED BY <1>3, <1>4, <2>4 DEF Claim, Claimable
<1>5. CASE ~Claim(s) /\ (NotSent(s) \/ AnswerLost(s) \/ Done(s) \/ Die(s))
  <2>1. sender' = [sender EXCEPT ![s] = Resting] /\ (due' = due \/ due' = FALSE)
    BY <1>5 DEF NotSent, AnswerLost, Done, Die, Fail
  <2>2. sender'[s].pc = "idle" /\ \A t \in Senders \ {s} : sender'[t] = sender[t]
    BY <1>1, <2>1 DEF Resting
  <2>3. AtWork(s)
    BY <1>5 DEF NotSent, AnswerLost, Done, Die, AtWork
  <2> QED BY <1>5, <2>1, <2>2, <2>3 DEF AtWork
<1>6. CASE ~Claim(s) /\ Answered(s)
  <2>1. PICK ans : sender' = [sender EXCEPT ![s].pc = "apply", ![s].answer = ans]
    BY <1>6 DEF Answered
  <2>2. /\ sender'[s].batch = sender[s].batch
        /\ \A t \in Senders \ {s} : sender'[t] = sender[t]
    BY <1>1, <1>2, <2>1
  <2> QED BY <1>6, <2>2 DEF Answered, AtWork
<1>7. CASE ~Claim(s) /\ Apply(s)
  <2>1. PICK n : n = Min(sender[s].batch)
    OBVIOUS
  <2>2. sender' = [sender EXCEPT ![s] =
                     [pc |-> "look", batch |-> b \ {n}, cur |-> n,
                      answer |-> Restrict(a, b \ {n})]]
    BY <1>1, <1>2, <1>7, <2>1 DEF Apply
  <2>3. /\ sender'[s].pc = "look" /\ sender'[s].batch = b \ {n}
        /\ sender'[s].answer = Restrict(a, b \ {n})
        /\ \A t \in Senders \ {s} : sender'[t] = sender[t]
    BY <1>1, <2>2
  <2>4. \A m \in b \ {n} : sender'[s].answer[m] = a[m]
    BY <2>3 DEF Restrict
  <2>5. sender[s].pc = "apply" /\ due' = due
    BY <1>7 DEF Apply
  <2>6. ~Answered(s) /\ AtWork(s)
    BY <2>5 DEF Answered, AtWork
  <2> QED BY <1>2, <1>7, <2>1, <2>3, <2>4, <2>5, <2>6
<1>8. CASE ~Claim(s) /\ (LookForNewest(s) \/ Reflect(s))
  <2>1. sender[s].pc \in {"look", "show"} /\ due' = due
    BY <1>8 DEF LookForNewest, Reflect
  <2>2. \/ sender' = [sender EXCEPT ![s].pc = "show"]
        \/ sender' = [sender EXCEPT ![s].pc = "apply", ![s].cur = 0]
    BY <1>8 DEF LookForNewest, Reflect
  <2>3. /\ sender'[s].pc \in {"show", "apply"} /\ sender'[s].batch = b /\ sender'[s].answer = a
        /\ \A t \in Senders \ {s} : sender'[t] = sender[t]
    BY <1>1, <1>2, <2>2
  <2>4. ~Answered(s) /\ ~Apply(s) /\ AtWork(s)
    BY <2>1 DEF Answered, Apply, AtWork
  <2> QED BY <1>2, <1>8, <2>1, <2>3, <2>4
<1> QED BY <1>4, <1>5, <1>6, <1>7, <1>8 DEF Submit

\* The records and what calls have generated of them go on fitting.
LEMMA RecordsFollow ==
    ASSUME BookInv, TellingInv, [Next]_vars
    PROVE  /\ \A n \in DOMAIN records' : Fits(records[n], Earlier(n))'
           /\ \A c \in Calls : call'[c].todo \in Generated =>
                 call'[c].rec.status = "pending" /\ Fits(call[c].rec, RecordsOf(call[c].inv))'
<1>1. KeptInv /\ QueueInv /\ records \in Seq(RecType)
      /\ DOMAIN records = 1..Len(records) /\ Len(records) \in Nat
  BY RecordsFit DEF BookInv, KeptInv, BookTypes
<1>2. \A n \in DOMAIN records :
         /\ n \in DOMAIN records' /\ records'[n].inv = records[n].inv
         /\ records'[n].kind = records[n].kind
         /\ records'[n].expects = records[n].expects
  BY AnsweredOnce
<1>3. \A i : RecordsOf(i) \subseteq RecordsOf(i)' /\ RecordsOf(i) \subseteq DOMAIN records
  BY <1>2 DEF RecordsOf
<1>4. ASSUME NEW r, NEW q, NEW B \in SUBSET DOMAIN records, Fits(r, B),
             q.kind = r.kind, q.expects = r.expects
      PROVE  Fits(q, B)'
  <2>1. Fits(q, B)
    BY <1>4 DEF Fits
  <2> QED BY <2>1, FitsOn
<1>5. CASE \E c \in Calls : Commit(c)
  <2>0. PICK c \in Calls : Commit(c)
    BY <1>5
  <2>1. PICK o, i, r : o = call[c] /\ i = o.inv /\ r = o.rec
    OBVIOUS
  <2>2. records' = Append(records, r)
    BY <2>0, <2>1 DEF Commit
  <2>3. o.todo \in Generated /\ o.todo # <<>> /\ r \in RecType
    <3>1. o.todo \in Generated /\ o.todo # <<>>
      BY <1>1, <2>0, <2>1, CommitWrites
    <3> QED BY <1>1, <2>1, <3>1 DEF KeptInv, DeskOK, DeskTyped
  <2>4. r.inv = i /\ i \in Invoices
    BY <1>1, <2>1, <2>3 DEF KeptInv, BooksInv, CallOK
  <2>5. PICK last : last = Len(records) + 1
    OBVIOUS
  <2>6. /\ DOMAIN records' = DOMAIN records \cup {last} /\ last \notin DOMAIN records
        /\ records'[last] = r /\ \A n \in DOMAIN records : records'[n] = records[n] /\ n < last
    <3>1. /\ Len(records') = Len(records) + 1 /\ DOMAIN records' = 1..Len(records')
          /\ records'[Len(records) + 1] = r
          /\ \A n \in 1..Len(records) : records'[n] = records[n]
      BY <1>1, <2>2, <2>3
    <3> QED BY <1>1, <2>5, <3>1
  <2>7. ASSUME NEW n \in DOMAIN records PROVE Fits(records[n], Earlier(n))'
    <3>1. PICK B, q : B = Earlier(n) /\ q = records[n] /\ records'[n] = q
      BY <2>6
    <3>2. Earlier(n)' = B
      <4>1. ~(last < n)
        BY <1>1, <2>5
      <4>2. \A m : m \in Earlier(n)' <=>
                     m \in DOMAIN records' /\ records'[m].inv = q.inv /\ m < n
        BY <3>1 DEF Earlier, RecordsOf
      <4>3. \A m : m \in B <=> m \in DOMAIN records /\ records[m].inv = q.inv /\ m < n
        BY <3>1 DEF Earlier, RecordsOf
      <4>4. \A m : m \in Earlier(n)' <=> m \in B
        BY <2>6, <4>1, <4>2, <4>3
      <4> QED BY <4>4
    <3>3. B \in SUBSET DOMAIN records /\ Fits(q, B)
      BY <3>1 DEF TellingInv, Earlier, RecordsOf
    <3>4. Fits(q, B)'
      BY <1>4, <3>3
    <3> QED BY <3>1, <3>2, <3>4 DEF Fits
  <2>8. Fits(records[last], Earlier(last))'
    <3>1. PICK B : B = RecordsOf(i)
      OBVIOUS
    <3>2. Earlier(last)' = B
      <4>1. ~(last < last) /\ records'[last].inv = i
        BY <1>1, <2>4, <2>5, <2>6
      <4>2. \A m : m \in Earlier(last)' <=>
                     m \in DOMAIN records' /\ records'[m].inv = i /\ m < last
        BY <4>1 DEF Earlier, RecordsOf
      <4>3. \A m : m \in B <=> m \in DOMAIN records /\ records[m].inv = i
        BY <3>1 DEF RecordsOf
      <4>4. \A m : m \in Earlier(last)' <=> m \in B
        BY <2>6, <4>1, <4>2, <4>3
      <4> QED BY <4>4
    <3>3. B \in SUBSET DOMAIN records /\ Fits(r, B)
      BY <1>3, <2>1, <2>3, <3>1 DEF TellingInv
    <3>4. Fits(r, B)'
      BY <1>4, <3>3
    <3> QED BY <2>6, <3>2, <3>4 DEF Fits
  <2>9. \A d \in Calls : call'[d].todo \notin Generated
    <3>1. PICK x : call' = [call EXCEPT ![c] = x] /\ x.todo \notin Generated
      BY <1>1, <2>0, CallMoves DEF Proceed
    <3>2. \A d \in Calls : d # c => call[d].todo \notin InTurn
      BY <1>1, <2>1, <2>3 DEF KeptInv, BooksInv, LineInv, TurnHeld, InTurn
    <3>3. call = [d \in Calls |-> call[d]]
      BY <1>1 DEF KeptInv, BooksInv, LineInv, Shapes
    <3> QED BY <3>1, <3>2, <3>3 DEF InTurn
  <2> QED BY <2>6, <2>7, <2>8, <2>9
<1>6. CASE \A c \in Calls : ~Commit(c)
  <2>1. DOMAIN records' = DOMAIN records
    <3>1. ASSUME NEW c \in Calls, Request(c) \/ Proceed(c) \/ Refuse(c) \/ BreakDeadlock(c)
          PROVE  records' = records
      BY <1>6, <3>1, CallWrites DEF bookRows
    <3>2. CASE \E s \in Senders :
                 Submit(s) \/ NotSent(s) \/ AnswerLost(s) \/ Answered(s) \/ Die(s)
      BY <1>1, <3>2, SenderWrites
    <3>3. CASE WaitEnds \/ UNCHANGED vars
      BY <3>3 DEF WaitEnds, vars, bookRows
    <3> QED BY <3>1, <3>2, <3>3 DEF Next
  <2>2. \A i : RecordsOf(i)' = RecordsOf(i)
    BY <1>2, <2>1 DEF RecordsOf
  <2>3. ASSUME NEW n \in DOMAIN records PROVE Fits(records[n], Earlier(n))'
    <3>1. PICK B, q, p : B = Earlier(n) /\ q = records[n] /\ p = records'[n]
      OBVIOUS
    <3>2. Earlier(n)' = B
      BY <1>2, <2>2, <3>1 DEF Earlier
    <3>3. B \in SUBSET DOMAIN records /\ Fits(q, B)
      BY <3>1 DEF TellingInv, Earlier, RecordsOf
    <3>4. Fits(p, B)'
      BY <1>2, <1>4, <3>1, <3>3
    <3> QED BY <3>1, <3>2, <3>4 DEF Fits
  <2>4. ASSUME NEW d \in Calls, call'[d].todo \in Generated
        PROVE  call'[d].rec.status = "pending" /\ Fits(call[d].rec, RecordsOf(call[d].inv))'
    <3>1. PICK x, i, B, q : x = call'[d] /\ i = x.inv /\ B = RecordsOf(i) /\ q = x.rec
      OBVIOUS
    <3>2. q.status = "pending" /\ Fits(q, B)
      <4>1. CASE call'[d] = call[d]
        BY <2>4, <3>1, <4>1 DEF TellingInv
      <4>2. CASE /\ Request(d) \/ Proceed(d) \/ Refuse(d) \/ BreakDeadlock(d)
        <5>1. PICK y : /\ call' = [call EXCEPT ![d] = y]
                       /\ y.todo \in Generated =>
                             /\ y.inv = call[d].inv
                             /\ \/ call[d].todo \in Generated /\ y.rec = call[d].rec
                                \/ Generate(d) /\ Recordable(d) /\ y.rec = RecordFor(d)
          BY <1>1, <4>2, CallMoves
        <5>2. x = y
          BY <1>1, <3>1, <5>1 DEF KeptInv, BooksInv, LineInv, Shapes
        <5>3. CASE call[d].todo \in Generated /\ y.rec = call[d].rec
          BY <2>4, <3>1, <5>1, <5>2, <5>3 DEF TellingInv
        <5>4. CASE Generate(d) /\ Recordable(d) /\ y.rec = RecordFor(d)
          <6>1. RecordFor(d).status = "pending" /\ Fits(RecordFor(d), RecordsOf(call[d].inv))
            BY <5>4, GeneratedFits
          <6> QED BY <2>4, <3>1, <5>1, <5>2, <5>4, <6>1
        <5> QED BY <2>4, <3>1, <5>1, <5>2, <5>3, <5>4
      <4>3. CASE \E c \in Calls \ {d} :
                   Request(c) \/ Proceed(c) \/ Refuse(c) \/ BreakDeadlock(c)
        <5>1. PICK c \in Calls \ {d} : \E y : call' = [call EXCEPT ![c] = y]
          BY <1>1, <4>3, CallMoves
        <5>2. call'[d] = call[d]
          BY <1>1, <5>1 DEF KeptInv, BooksInv, LineInv, Shapes
        <5> QED BY <4>1, <5>2
      <4>4. CASE \E s \in Senders :
                   Submit(s) \/ NotSent(s) \/ AnswerLost(s) \/ Answered(s) \/ Die(s)
        BY <1>1, <4>1, <4>4, SenderWrites
      <4>5. CASE WaitEnds \/ UNCHANGED vars
        BY <4>1, <4>5 DEF WaitEnds, vars, locks
      <4> QED BY <4>2, <4>3, <4>4, <4>5 DEF Next
    <3>3. B \in SUBSET DOMAIN records
      BY <3>1 DEF RecordsOf
    <3>4. Fits(q, B)'
      BY <1>4, <3>2, <3>3
    <3>5. RecordsOf(i)' = B
      BY <2>2, <3>1
    <3> QED BY <3>1, <3>2, <3>4, <3>5 DEF Fits
  <2> QED BY <2>1, <2>3, <2>4
<1> QED BY <1>5, <1>6

\* A call opens the queue again only after a record was asked for again.
LEMMA CallTells ==
    ASSUME BookInv, TellingInv, OneProcess \/ NobodyResends, NEW c \in Calls,
           Request(c) \/ Proceed(c) \/ Refuse(c) \/ BreakDeadlock(c)
    PROVE  OfTheirKinds' /\ OneAtWork' /\ (\A s \in Senders : InHand(s)') /\ LocalMatchesAeat'
<1>1. KeptInv /\ QueueInv
  BY DEF BookInv
<1>2. /\ sender' = sender /\ aeat' = aeat /\ stored' = stored
      /\ due' = due \/ due' = (due \/ failing)
      /\ \A n \in DOMAIN records : n \in DOMAIN records' /\ records'[n] = records[n]
  BY <1>1, CallAdds DEF agency
<1>3. OfTheirKinds'
  <2>1. PICK x : /\ call' = [call EXCEPT ![c] = x]
                 /\ x.todo # <<>> => x.kind \in Kinds[c]
                                     \/ (x.kind = call[c].kind /\ call[c].todo # <<>>)
    BY <1>1, CallMoves
  <2>2. \A d \in Calls : call'[d] = IF d = c THEN x ELSE call[d]
    BY <1>1, <2>1 DEF KeptInv, BooksInv, LineInv, Shapes
  <2> QED BY <2>1, <2>2 DEF TellingInv, OfTheirKinds
<1>4. OneProcess \/ due' = due
  <2>1. CASE Kick(c)
    <3>1. PICK x : x = call[c] /\ x.todo # <<>> /\ Head(x.todo) = "kick"
      BY <2>1 DEF Kick, Doing
    <3>2. x.kind \in RequestKinds /\ x.todo \in Todos(x.kind)
      BY <1>1, <3>1 DEF KeptInv, DeskOK, DeskTyped
    <3>3. x.todo = <<"kick">>
      BY <3>1, <3>2, TodosGoOn
    <3>4. x.kind \in {"correct", "again"}
      BY <3>2, <3>3 DEF Todos, FromChain, RequestKinds, Ends
    <3>5. x.kind \in Kinds[c]
      BY <3>1 DEF TellingInv, OfTheirKinds
    <3> QED BY <3>4, <3>5 DEF NobodyResends
  <2>2. CASE Request(c)
    <3>1. PICK kind, i, todo : Begin(c, kind, i, todo)
      BY <2>2 DEF Request, StartIssue, StartRectify, StartCancel, StartResend
    <3> QED BY <3>1 DEF Begin, queue
  <2>3. CASE ~Kick(c) /\ ~Request(c)
    BY <2>3 DEF Proceed, Refuse, BreakDeadlock, Acquire, Generate, Commit, Rollback, queue
  <2> QED BY <2>1, <2>2, <2>3
<1>5. OneAtWork'
  BY <1>2, <1>4 DEF TellingInv, OneAtWork, AtWork, OneProcess
<1>6. Pending \subseteq Pending'
  BY <1>2 DEF Pending
<1>7. ASSUME NEW s \in Senders PROVE InHand(s)'
  BY <1>2, <1>6 DEF TellingInv, InHand, AtWork
<1>8. LocalMatchesAeat'
  <2>1. CASE Commit(c)
    <3>1. PICK o, r : o = call[c] /\ r = o.rec
      OBVIOUS
    <3>2. o.todo \in Generated
      BY <1>1, <2>1, <3>1, CommitWrites
    <3>3. records' = Append(records, r) /\ r.status = "pending"
      BY <2>1, <3>1, <3>2 DEF Commit, TellingInv
    <3>4. records \in Seq(RecType) /\ r \in RecType
      BY <1>1, <3>1 DEF KeptInv, BookTypes, DeskOK, DeskTyped
    <3>5. \A n \in DOMAIN records' : n \in DOMAIN records \/ records'[n] = r
      BY <3>3, <3>4
    <3> QED BY <1>2, <3>3, <3>5 DEF TellingInv, LocalMatchesAeat
  <2>2. CASE ~Commit(c)
    BY <1>2, <2>2, CallWrites DEF bookRows, TellingInv, LocalMatchesAeat
  <2> QED BY <2>1, <2>2
<1> QED BY <1>3, <1>5, <1>7, <1>8

(* A sender writes down the answers of its own submission, and no other is *)
(* at work meanwhile.                                                      *)
LEMMA SenderAnswers ==
    ASSUME BookInv, TellingInv, NEW s \in Senders,
           \/ Submit(s) \/ NotSent(s) \/ AnswerLost(s) \/ Answered(s) \/ Die(s)
    PROVE  OfTheirKinds' /\ OneAtWork' /\ (\A t \in Senders : InHand(t)') /\ LocalMatchesAeat'
<1>1. KeptInv /\ QueueInv
  BY DEF BookInv
<1>2. /\ due' = due \/ due' = FALSE
      /\ \A t \in Senders \ {s} : sender'[t] = sender[t]
      /\ Claim(s) => due /\ due' = FALSE
      /\ ~Claim(s) => AtWork(s)
  BY <1>1, SenderMoves
<1>3. /\ call' = call /\ DOMAIN records' = DOMAIN records
      /\ ~Apply(s) => records' = records
  BY <1>1, SenderWrites
<1>4. OfTheirKinds'
  BY <1>3 DEF TellingInv, OfTheirKinds
<1>5. \A t \in Senders \ {s} : ~AtWork(t)
  BY <1>2 DEF TellingInv, OneAtWork, OneProcess
<1>6. OneAtWork'
  <2>1. \A t \in Senders \ {s} : ~AtWork(t)'
    BY <1>2, <1>5 DEF AtWork
  <2>2. due' => OneProcess \/ \A t \in Senders : ~AtWork(t)'
    BY <1>2, <2>1 DEF TellingInv, OneAtWork
  <2> QED BY <2>1, <2>2 DEF OneAtWork, OneProcess
<1>7. ASSUME NEW t \in Senders, t # s PROVE InHand(t)'
  BY <1>2, <1>5, <1>7 DEF InHand, AtWork
<1>8. CASE Apply(s)
  <2>1. PICK b, a, n, st : /\ b = sender[s].batch /\ a = sender[s].answer /\ n = Min(b)
                           /\ st = RecordStatus(a[n])
    OBVIOUS
  <2>2. /\ n \in b /\ n \in DOMAIN records /\ st \in {"accepted", "errors", "rejected"}
        /\ \A m \in DOMAIN records : /\ m # n => records'[m] = records[m]
                                     /\ m = n => records'[m].status = st
    BY <1>1, <1>8, <2>1, NextIsOfBatch
  <2>3. /\ sender[s].pc = "apply" /\ aeat' = aeat /\ stored' = stored
        /\ ~Claim(s) /\ ~Answered(s)
    BY <1>8 DEF Apply, agency, Claim, Answered
  <2>4. /\ b \subseteq Pending
        /\ \A m \in b : \/ a[m] \in Registered \cup Duplicates /\ stored[m] # "none"
                        \/ a[m] = "rejected" /\ stored[m] = "none"
    BY <2>1, <2>3 DEF TellingInv, InHand, AtWork
  <2>5. \/ ~AtWork(s)'
        \/ /\ sender'[s].batch \subseteq b /\ n \notin sender'[s].batch
           /\ \A m \in sender'[s].batch : sender'[s].answer[m] = a[m]
    BY <1>1, <1>8, <2>1, <2>3, SenderMoves
  <2>6. InHand(s)'
    <3>1. \A m \in Pending : m # n => m \in Pending'
      BY <1>3, <2>2 DEF Pending
    <3> QED BY <2>3, <2>4, <2>5, <3>1 DEF InHand
  <2>7. /\ st \in {"accepted", "errors"} => stored[n] # "none"
        /\ st = "rejected" => stored[n] = "none"
    <3>1. \/ a[n] \in Registered \cup Duplicates /\ stored[n] # "none"
          \/ a[n] = "rejected" /\ stored[n] = "none"
      BY <2>2, <2>4
    <3>2. a[n] = "rejected" => st = "rejected"
      BY <2>1 DEF RecordStatus
    <3>3. a[n] \in Registered \cup Duplicates => st \in {"accepted", "errors"}
      BY <2>1 DEF RecordStatus, Registered, Duplicates
    <3> QED BY <3>1, <3>2, <3>3
  <2>8. LocalMatchesAeat'
    BY <1>3, <2>2, <2>3, <2>7 DEF TellingInv, LocalMatchesAeat
  <2> QED BY <1>4, <1>6, <1>7, <2>6, <2>8
<1>9. CASE ~Apply(s) /\ UNCHANGED agency /\ ~Answered(s)
  <2>1. records' = records /\ stored' = stored /\ Pending' = Pending
    BY <1>3, <1>9 DEF agency, Pending
  <2>2. \/ ~AtWork(s)'
        \/ Claim(s) /\ sender'[s].pc = "loaded" /\ sender'[s].batch \subseteq Pending
        \/ /\ AtWork(s) /\ sender[s].pc # "loaded" /\ sender'[s].pc # "loaded"
           /\ sender'[s].batch \subseteq sender[s].batch
           /\ \A n \in sender'[s].batch : sender'[s].answer[n] = sender[s].answer[n]
    BY <1>1, <1>9, SenderMoves
  <2>3. InHand(s)'
    BY <2>1, <2>2 DEF TellingInv, InHand
  <2>4. LocalMatchesAeat'
    BY <2>1 DEF TellingInv, LocalMatchesAeat
  <2> QED BY <1>4, <1>6, <1>7, <2>3, <2>4
<1>10. CASE ~Apply(s) /\ ~(UNCHANGED agency /\ ~Answered(s))
  <2>1. PICK w : /\ Registering(sender[s].batch, w, sender[s].batch)
                 /\ sender[s].pc = "loaded" /\ records' = records
                 /\ aeat' = w.aeat /\ stored' = w.stored
                 /\ Answered(s) => sender' = [sender EXCEPT ![s].pc = "apply",
                                                            ![s].answer = w.answer]
                 /\ ~Answered(s) => sender' = [sender EXCEPT ![s] = Resting]
    BY <1>1, <1>10, SenderTells
  <2>2. PICK b : b = sender[s].batch /\ b \subseteq Pending /\ Pending' = Pending
    BY <2>1 DEF TellingInv, InHand, AtWork, Pending
  <2>3. /\ \A n \in b : \/ w.answer[n] \in Registered \cup Duplicates /\ stored'[n] # "none"
                        \/ w.answer[n] = "rejected" /\ stored'[n] = "none"
        /\ \A n \in Numbers : n \notin b => stored'[n] = stored[n]
    BY <2>1, <2>2 DEF Registering
  <2>4. InHand(s)'
    <3>1. sender = [t \in Senders |-> sender[t]]
      BY <1>1 DEF QueueInv
    <3>2. CASE Answered(s)
      <4>1. sender' = [sender EXCEPT ![s].pc = "apply", ![s].answer = w.answer]
        BY <2>1, <3>2
      <4>2. PICK pc, b2, a, k : sender[s] = [pc |-> pc, batch |-> b2, answer |-> a, cur |-> k]
        BY <1>1 DEF QueueInv, SenderOK
      <4>3. sender'[s].batch = b /\ sender'[s].answer = w.answer
        BY <2>2, <3>1, <4>1, <4>2
      <4> QED BY <2>2, <2>3, <4>3 DEF InHand
    <3>3. CASE ~Answered(s)
      <4>1. sender'[s] = Resting
        BY <2>1, <3>1, <3>3
      <4>2. ~AtWork(s)'
        BY <4>1 DEF AtWork, Resting
      <4> QED BY <4>2 DEF InHand
    <3> QED BY <3>2, <3>3
  <2>5. LocalMatchesAeat'
    <3>1. ASSUME NEW n \in DOMAIN records, records[n].status # "pending"
          PROVE  stored'[n] = stored[n]
      <4>1. n \notin b
        BY <2>2, <3>1 DEF Pending
      <4> QED BY <1>1, <2>3, <4>1, RecordsFit
    <3> QED BY <2>1, <3>1 DEF TellingInv, LocalMatchesAeat
  <2> QED BY <1>4, <1>6, <1>7, <2>4, <2>5
<1> QED BY <1>8, <1>9, <1>10

LEMMA TellingStep ==
    ASSUME OneProcess \/ NobodyResends, BookInv, TellingInv, [Next]_vars
    PROVE  TellingInv'
<1>1. OfTheirKinds' /\ OneAtWork' /\ (\A s \in Senders : InHand(s)') /\ LocalMatchesAeat'
  <2>1. CASE \E c \in Calls : Request(c) \/ Proceed(c) \/ Refuse(c) \/ BreakDeadlock(c)
    BY <2>1, CallTells
  <2>2. CASE \E s \in Senders :
               Submit(s) \/ NotSent(s) \/ AnswerLost(s) \/ Answered(s) \/ Die(s)
    BY <2>2, SenderAnswers
  <2>3. CASE WaitEnds
    <3>1. /\ UNCHANGED <<call, sender, records, stored>>
          /\ \A s \in Senders : ~AtWork(s)
      BY <2>3 DEF WaitEnds, bookRows, locks, agency, AtWork
    <3> QED BY <3>1 DEF TellingInv, OfTheirKinds, OneAtWork, InHand, AtWork,
                        LocalMatchesAeat, Pending, OneProcess
  <2>4. CASE UNCHANGED vars
    <3>1. UNCHANGED <<call, sender, records, stored, due>>
      BY <2>4 DEF vars, bookRows, locks, queue, agency
    <3> QED BY <3>1 DEF TellingInv, OfTheirKinds, OneAtWork, InHand, AtWork,
                        LocalMatchesAeat, Pending, OneProcess
  <2> QED BY <2>1, <2>2, <2>3, <2>4 DEF Next
<1> QED BY <1>1, RecordsFollow DEF TellingInv

LEMMA TellingInit == Init => TellingInv
<1> SUFFICES ASSUME Init PROVE TellingInv
  OBVIOUS
<1>1. \A c \in Calls : call[c].todo = <<>>
  BY DEF Init, Idle
<1>2. \A s \in Senders : ~AtWork(s)
  BY DEF Init, AtWork, Resting
<1>3. DOMAIN records = {}
  BY DEF Init
<1> QED BY <1>1, <1>2, <1>3, TodosEnds
        DEF TellingInv, OfTheirKinds, OneAtWork, InHand, LocalMatchesAeat

LEMMA TellingHolds ==
    ASSUME OneProcess \/ NobodyResends PROVE Spec => [](BookInv /\ TellingInv)
<1>1. BookInv /\ TellingInv /\ [Next]_vars => BookInv' /\ TellingInv'
  BY BookStep, TellingStep
<1> QED BY <1>1, BookInits, TellingInit, PTL DEF Spec

(* What the salon is shown of a record is what the AEAT did with it,       *)
(* though answers are lost, processes die in the middle of a submission    *)
(* and records are sent again - where one process sends, or none is asked  *)
(* for again by hand.                                                      *)
THEOREM ShownIsRegistered ==
    ASSUME OneProcess \/ NobodyResends PROVE Spec => []LocalMatchesAeat
<1>1. TellingInv => LocalMatchesAeat
  BY DEF TellingInv
<1> QED BY <1>1, TellingHolds, PTL

(* A record that is the next of its invoice to be sent says of it what the *)
(* AEAT holds, under the same condition: "none before it" is said only     *)
(* when every alta was rejected, and a correction follows one that was     *)
(* registered with errors.                                                 *)
THEOREM TheTruthIsTold ==
    ASSUME OneProcess \/ NobodyResends PROVE Spec => []RecordsTellTheTruth
<1>1. BookInv /\ TellingInv => RecordsTellTheTruth
  <2> SUFFICES ASSUME BookInv, TellingInv, NEW n \in Pending, stored[n] = "none"
               PROVE  LET r == records[n] IN
                      /\ r.expects = "nothing" => aeat[r.inv] # "alta"
                      /\ r.expects = "alta" /\ r.kind = "alta" => aeat[r.inv] # "nothing"
    BY DEF RecordsTellTheTruth
  <2>1. PICK r, i : r = records[n] /\ i = r.inv
    OBVIOUS
  <2>2. n \in DOMAIN records /\ r.status = "pending" /\ i \in Invoices
        /\ DOMAIN records \subseteq Nat
    BY <2>1, RecordsFit DEF Pending, BookInv, KeptInv, OfTheBook
  <2>3. Fits(r, Earlier(n)) /\ Sound(aeat, stored) /\ LocalMatchesAeat
    BY <2>1, <2>2 DEF TellingInv, BookInv, QueueInv
  <2>4. ASSUME r.expects = "nothing", aeat[i] = "alta" PROVE FALSE
    <3>1. PICK m \in DOMAIN records : /\ records[m].inv = i /\ records[m].kind = "alta"
                                      /\ stored[m] # "none"
      BY <2>2, <2>3, <2>4 DEF Sound
    <3>2. CASE m < n
      <4>1. m \in Earlier(n)
        BY <2>1, <3>1, <3>2 DEF Earlier, RecordsOf
      <4> QED BY <2>3, <2>4, <3>1, <4>1 DEF Fits, LocalMatchesAeat
    <3>3. CASE n < m
      <4>1. n \in Earlier(m)
        BY <2>1, <2>2, <3>1, <3>3 DEF Earlier, RecordsOf
      <4>2. Fits(records[m], Earlier(m))
        BY DEF TellingInv
      <4> QED BY <2>1, <2>2, <3>1, <4>1, <4>2 DEF Fits
    <3> QED BY <2>2, <3>1, <3>2, <3>3
  <2>5. ASSUME r.expects = "alta", r.kind = "alta", aeat[i] = "nothing" PROVE FALSE
    <3>1. PICK m \in Earlier(n) : records[m].status = "errors"
      BY <2>3, <2>5 DEF Fits
    <3>2. m \in DOMAIN records /\ records[m].inv = i
      BY <2>1, <3>1 DEF Earlier, RecordsOf
    <3> QED BY <2>3, <2>5, <3>1, <3>2 DEF LocalMatchesAeat, Sound
  <2> QED BY <2>1, <2>4, <2>5
<1> QED BY <1>1, TellingHolds, PTL
=============================================================================
