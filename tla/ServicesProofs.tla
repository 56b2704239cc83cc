---------------------------- MODULE ServicesProofs ----------------------------
(***************************************************************************)
(* Proofs about the services beside the workflow service, each for any     *)
(* number of its actors: the rounds of an organisation task (OrgTasks),    *)
(* the channel messages of the gateway (GatewayIngress), the quotas        *)
(* (ResourceQuota), the review of skills (SkillReview) and the facts with  *)
(* their graph (FactRetrieval).                                            *)
(***************************************************************************)
EXTENDS OrgTasks, GatewayIngress, ResourceQuota, SkillReview, FactRetrieval,
        FiniteSetTheorems, SequenceTheorems, TLAPS

-----------------------------------------------------------------------------
(* The rounds of an organisation task *)

TaskRow == [status: {"none", "pending", "notified", "completed"}, answers: Nat]

AssignCall ==
    [pc: {"still", "checking", "ended"}, todo: SUBSET Users]
        \cup [pc: {"inserting"}, todo: SUBSET Users, user: Users]

SubmitCall == [pc: {"still", "ended"}] \cup [pc: {"writing"}, row: Rows]

TaskTypeOK ==
    /\ exists \in BOOLEAN
    /\ row \in [Rows -> TaskRow]
    /\ assign \in [Rounds -> AssignCall]
    /\ notify \in [Rounds -> [pc: {"still", "sending"}, todo: SUBSET Rows]]
    /\ submit \in [Submits -> SubmitCall]
    /\ deleting \in {"no", "rows", "task"}
    /\ reopened \subseteq Rows /\ contested \subseteq Rows

Writing(s, r) == submit[s].pc = "writing" /\ submit[s].row = r

\* What the next answer of a row can find.
AnswersRaced ==
    \A r \in Rows :
        /\ row[r].status = "none" => row[r].answers = 0
        /\ row[r].answers > 0 /\ row[r].status # "completed" => r \in reopened
        /\ \A s \in Submits : Writing(s, r) =>
              /\ row[r].answers > 0 => r \in reopened \cup contested
              /\ \A o \in Submits : Writing(o, r) /\ o # s => r \in contested

\* A round inserts a row for a user once.
InsertedOnce ==
    \A c \in Rounds : \A u \in Users :
        assign[c].pc = "still" \/ (Assigning(c) /\ u \in assign[c].todo)
            => row[<<c, u>>].status = "none"

InsertsTodo == \A c \in Rounds : assign[c].pc = "inserting" => assign[c].user \in assign[c].todo

\* Assign calls that are under way at once have overlapped.
OverlapsSeen ==
    \A c, o \in Rounds : c # o /\ Assigning(c) /\ Assigning(o) => {c, o} \in together

\* What opened a row of the user after the check and before the insert.
ChecksHold ==
    \A c, o \in Rounds :
        assign[c].pc = "inserting" /\ o # c /\ Open(<<o, assign[c].user>>)
            => {c, o} \in together \/ <<o, assign[c].user>> \in reopened

TaskInductive ==
    /\ TaskTypeOK
    /\ AnswersRaced
    /\ InsertedOnce
    /\ InsertsTodo
    /\ OverlapsSeen
    /\ ChecksHold
    /\ RoundsAgree

LEMMA InitTask == TaskInit => TaskInductive
  <1> SUFFICES ASSUME TaskInit PROVE TaskInductive
    OBVIOUS
  <1> USE DEF TaskInit
  <1>1. TaskTypeOK
    BY DEF TaskTypeOK, TaskRow, NoRow, Still, AssignCall, SubmitCall
  <1>2. /\ \A r \in Rows : row[r].status = "none" /\ row[r].answers = 0
        /\ \A s \in Submits : submit[s].pc = "still"
        /\ \A c \in Rounds : assign[c].pc = "still"
    BY DEF NoRow, Still
  <1>3. AnswersRaced /\ RoundsAgree
    BY <1>2 DEF AnswersRaced, Writing, RoundsAgree, AnsweredOnce, AskedOnce, Open
  <1>4. InsertedOnce /\ InsertsTodo /\ OverlapsSeen /\ ChecksHold
    BY <1>2 DEF InsertedOnce, InsertsTodo, OverlapsSeen, ChecksHold, Assigning, Rows
  <1> QED
    BY <1>1, <1>3, <1>4 DEF TaskInductive

\* A call of each kind is a record of its kind.
LEMMA AssignType ==
    ASSUME TaskTypeOK, NEW c \in Rounds
    PROVE  /\ assign[c].pc \in {"still", "checking", "inserting", "ended"}
           /\ assign[c].todo \subseteq Users
           /\ assign[c].pc = "inserting" => assign[c].user \in Users
  <1>1. assign[c] \in AssignCall
    BY DEF TaskTypeOK
  <1> QED
    BY <1>1 DEF AssignCall

LEMMA SubmitType ==
    ASSUME TaskTypeOK, NEW s \in Submits, submit[s].pc = "writing"
    PROVE  submit[s].row \in Rows /\ submit[s] = [pc |-> "writing", row |-> submit[s].row]
  <1>1. submit[s] \in SubmitCall
    BY DEF TaskTypeOK
  <1> QED
    BY <1>1 DEF SubmitCall

LEMMA RowOfRound ==
    ASSUME NEW c \in Rounds, NEW u \in Users
    PROVE  <<c, u>> \in Rows /\ \A r \in Rows : r = <<r[1], r[2]>> /\ r[1] \in Rounds /\ r[2] \in Users
  BY DEF Rows

\* A step that concerns no assign call and opens no row but reopened ones.
LEMMA AssignQuiet ==
    ASSUME TaskInductive, UNCHANGED <<assign, together>>, reopened \subseteq reopened',
           \A r \in Rows : row[r].status = "none" => row'[r].status = "none",
           \A r \in Rows : Open(r)' => Open(r) \/ r \in reopened'
    PROVE  InsertedOnce' /\ InsertsTodo' /\ OverlapsSeen' /\ ChecksHold' /\ AskedOnce'
  <1>1. InsertedOnce' /\ InsertsTodo' /\ OverlapsSeen'
    BY DEF TaskInductive, InsertedOnce, InsertsTodo, OverlapsSeen, Assigning, Rows
  <1>2. ChecksHold'
    <2> SUFFICES ASSUME NEW c \in Rounds, NEW o \in Rounds, assign[c].pc = "inserting", o # c,
                        Open(<<o, assign[c].user>>)'
                 PROVE  {c, o} \in together \/ <<o, assign[c].user>> \in reopened'
      BY DEF ChecksHold, Open
    <2>1. <<o, assign[c].user>> \in Rows
      BY AssignType DEF TaskInductive, Rows
    <2> QED
      BY <2>1 DEF TaskInductive, ChecksHold
  <1>3. AskedOnce'
    <2> SUFFICES ASSUME NEW r1 \in Rows, NEW r2 \in Rows, Open(r1)', Open(r2)', r1 # r2,
                        r1[2] = r2[2]
                 PROVE  {r1[1], r2[1]} \in together \/ reopened' \cap {r1, r2} # {}
      BY DEF AskedOnce
    <2>1. CASE r1 \in reopened' \/ r2 \in reopened'
      BY <2>1
    <2>2. CASE Open(r1) /\ Open(r2)
      <3>1. {r1[1], r2[1]} \in together \/ reopened \cap {r1, r2} # {}
        BY <2>2 DEF TaskInductive, RoundsAgree, AskedOnce
      <3> QED
        BY <3>1
    <2> QED
      BY <2>1, <2>2
  <1> QED
    BY <1>1, <1>2, <1>3

\* A step that concerns no submit call and adds no answer.
LEMMA SubmitQuiet ==
    ASSUME TaskInductive, TaskTypeOK', UNCHANGED <<submit, contested>>, reopened \subseteq reopened',
           \A r \in Rows : \/ row'[r].answers = 0
                           \/ /\ row'[r].answers = row[r].answers
                              /\ row[r].status # "none" /\ row'[r].status # "none"
                              /\ row'[r].status = row[r].status \/ row[r].status # "completed"
                                 \/ r \in reopened'
    PROVE  AnswersRaced' /\ AnsweredOnce'
  <1>1. \A r \in Rows : row[r].answers \in Nat /\ row'[r].answers \in Nat
    BY DEF TaskInductive, TaskTypeOK, TaskRow
  <1>2. \A s \in Submits : \A r \in Rows : Writing(s, r)' <=> Writing(s, r)
    BY DEF Writing
  <1> QED
    BY <1>1, <1>2 DEF TaskInductive, AnswersRaced, RoundsAgree, AnsweredOnce

LEMMA NextTask == TaskInductive /\ [TaskNext]_taskVars => TaskInductive'
  <1> SUFFICES ASSUME TaskInductive, [TaskNext]_taskVars PROVE TaskInductive'
    OBVIOUS
  <1>0. /\ TaskTypeOK /\ AnswersRaced /\ InsertedOnce /\ InsertsTodo /\ OverlapsSeen
        /\ ChecksHold /\ AnsweredOnce /\ AskedOnce
    BY DEF TaskInductive, RoundsAgree
  <1>rows. \A r \in Rows : row[r] \in TaskRow
    BY <1>0 DEF TaskTypeOK
  \* The steps of assign.
  <1>1. ASSUME NEW c \in Rounds, AssignStart(c) PROVE TaskInductive'
    <2>1. /\ assign' = [assign EXCEPT ![c] = [pc |-> "checking", todo |-> Users]]
          /\ together' = together \cup {{c, o} : o \in {o \in Rounds : Assigning(o)}}
          /\ assign[c].pc = "still"
          /\ UNCHANGED <<exists, row, notify, submit, deleting, reopened, contested>>
      BY <1>1 DEF AssignStart
    <2>2. \A o \in Rounds : assign'[o] = IF o = c THEN [pc |-> "checking", todo |-> Users]
                                         ELSE assign[o]
      BY <1>0, <2>1 DEF TaskTypeOK
    <2>3. TaskTypeOK'
      BY <1>0, <2>1 DEF TaskTypeOK, AssignCall
    <2>4. AnswersRaced' /\ AnsweredOnce'
      BY <1>0, <2>1 DEF AnswersRaced, Writing, AnsweredOnce
    <2>5. InsertedOnce' /\ InsertsTodo'
      BY <1>0, <2>1, <2>2 DEF InsertedOnce, InsertsTodo, Assigning
    <2>6. OverlapsSeen'
      <3> SUFFICES ASSUME NEW a \in Rounds, NEW o \in Rounds, a # o, Assigning(a)', Assigning(o)'
                   PROVE  {a, o} \in together'
        BY DEF OverlapsSeen
      <3>1. CASE a # c /\ o # c
        BY <1>0, <2>1, <2>2, <3>1 DEF OverlapsSeen, Assigning
      <3>2. CASE a = c
        <4>1. Assigning(o)
          BY <2>2, <3>2 DEF Assigning
        <4> QED
          BY <2>1, <3>2, <4>1
      <3>3. CASE o = c
        <4>1. Assigning(a)
          BY <2>2, <3>3 DEF Assigning
        <4>2. {c, a} \in together'
          BY <2>1, <4>1
        <4>3. {c, a} = {a, c}
          OBVIOUS
        <4> QED
          BY <3>3, <4>2, <4>3
      <3> QED
        BY <3>1, <3>2, <3>3
    <2>7. ChecksHold'
      BY <1>0, <2>1, <2>2 DEF ChecksHold, Open
    <2>8. AskedOnce'
      BY <1>0, <2>1 DEF AskedOnce, Open
    <2> QED
      BY <2>3, <2>4, <2>5, <2>6, <2>7, <2>8 DEF TaskInductive, RoundsAgree
  <1>2. ASSUME NEW c \in Rounds, NEW u \in Users, AssignCheck(c, u) PROVE TaskInductive'
    <2>1. /\ assign[c].pc = "checking" /\ u \in assign[c].todo
          /\ UNCHANGED <<exists, row, notify, submit, deleting, reopened, contested, together>>
      BY <1>2 DEF AssignCheck
    <2>2. assign' = [assign EXCEPT ![c] =
                    IF Asked(u)
                    THEN [assign[c] EXCEPT !.todo = assign[c].todo \ {u}]
                    ELSE [pc |-> "inserting", todo |-> assign[c].todo, user |-> u]]
      BY <1>2 DEF AssignCheck
    <2> DEFINE next == assign'[c]
    <2>3. /\ next.pc \in {"checking", "inserting"} /\ next.todo \subseteq assign[c].todo
          /\ next \in AssignCall
          /\ next.pc = "inserting" => next.user = u /\ u \in next.todo /\ ~Asked(u)
      <3>1. assign[c] \in AssignCall
        BY <1>0 DEF TaskTypeOK
      <3>2. assign[c] \in [pc: {"still", "checking", "ended"}, todo: SUBSET Users]
        BY <2>1, <3>1 DEF AssignCall
      <3>3. next = IF Asked(u) THEN [assign[c] EXCEPT !.todo = assign[c].todo \ {u}]
                   ELSE [pc |-> "inserting", todo |-> assign[c].todo, user |-> u]
        BY <1>0, <2>2 DEF TaskTypeOK
      <3>4. CASE Asked(u)
        BY <2>1, <3>2, <3>3, <3>4 DEF AssignCall
      <3>5. CASE ~Asked(u)
        BY <2>1, <3>2, <3>3, <3>5 DEF AssignCall
      <3> QED
        BY <3>4, <3>5
    <2>4. \A o \in Rounds : o # c => assign'[o] = assign[o]
      BY <1>0, <2>2 DEF TaskTypeOK
    <2>5. assign' \in [Rounds -> AssignCall]
      BY <1>0, <2>2, <2>3, <2>4 DEF TaskTypeOK
    <2>6. TaskTypeOK'
      BY <1>0, <2>1, <2>5 DEF TaskTypeOK
    <2>7. AnswersRaced' /\ AnsweredOnce'
      BY <1>0, <2>1 DEF AnswersRaced, Writing, AnsweredOnce
    <2>8. \A o \in Rounds : Assigning(o)' <=> Assigning(o)
      BY <2>1, <2>3, <2>4 DEF Assigning
    <2>9. InsertedOnce'
      <3> SUFFICES ASSUME NEW o \in Rounds, NEW v \in Users,
                          assign'[o].pc = "still" \/ (Assigning(o)' /\ v \in assign'[o].todo)
                   PROVE  row[<<o, v>>].status = "none"
        BY <2>1 DEF InsertedOnce
      <3> QED
        BY <1>0, <2>3, <2>4, <2>8 DEF InsertedOnce
    <2>10. InsertsTodo' /\ OverlapsSeen'
      BY <1>0, <2>1, <2>3, <2>4, <2>8 DEF InsertsTodo, OverlapsSeen
    <2>11. ChecksHold'
      <3> SUFFICES ASSUME NEW a \in Rounds, NEW o \in Rounds, assign'[a].pc = "inserting", o # a,
                          Open(<<o, assign'[a].user>>)
                   PROVE  {a, o} \in together \/ <<o, assign'[a].user>> \in reopened
        BY <2>1 DEF ChecksHold, Open
      <3>1. CASE a = c
        BY <2>3, <3>1 DEF Asked
      <3>2. CASE a # c
        BY <1>0, <2>4, <3>2 DEF ChecksHold
      <3> QED
        BY <3>1, <3>2
    <2>12. AskedOnce'
      BY <1>0, <2>1 DEF AskedOnce, Open
    <2> QED
      BY <2>6, <2>7, <2>9, <2>10, <2>11, <2>12 DEF TaskInductive, RoundsAgree
  <1>3. ASSUME NEW c \in Rounds, AssignInsert(c), exists PROVE TaskInductive'
    <2> DEFINE u == assign[c].user
    <2> DEFINE left == assign[c].todo \ {u}
    <2>1. /\ assign[c].pc = "inserting" /\ u \in Users /\ u \in assign[c].todo
          /\ assign[c].todo \subseteq Users
          /\ row' = [row EXCEPT ![<<c, u>>] = [status |-> "pending", answers |-> 0]]
          /\ assign' = [assign EXCEPT ![c] = [pc |-> "checking", todo |-> left]]
          /\ UNCHANGED <<exists, notify, submit, deleting, reopened, contested, together>>
      BY <1>0, <1>3, AssignType DEF AssignInsert, InsertsTodo, TaskTypeOK
    <2> HIDE DEF u
    <2>2. <<c, u>> \in Rows
      BY <2>1 DEF Rows
    <2>3. \A r \in Rows : row'[r] = IF r = <<c, u>> THEN [status |-> "pending", answers |-> 0]
                                    ELSE row[r]
      BY <1>0, <2>1, <2>2 DEF TaskTypeOK
    <2>4. \A o \in Rounds : assign'[o] = IF o = c THEN [pc |-> "checking", todo |-> left]
                                         ELSE assign[o]
      BY <1>0, <2>1 DEF TaskTypeOK
    <2>5. TaskTypeOK'
      <3>1. row' \in [Rows -> TaskRow]
        BY <1>0, <2>1 DEF TaskTypeOK, TaskRow
      <3>2. assign' \in [Rounds -> AssignCall]
        BY <1>0, <2>1 DEF TaskTypeOK, AssignCall
      <3> QED
        BY <1>0, <2>1, <3>1, <3>2 DEF TaskTypeOK
    <2>6. AnswersRaced' /\ AnsweredOnce'
      <3>1. \A s \in Submits : \A r \in Rows : Writing(s, r)' <=> Writing(s, r)
        BY <2>1 DEF Writing
      <3> QED
        BY <1>0, <2>1, <2>3, <3>1 DEF AnswersRaced, AnsweredOnce
    <2>7. \A o \in Rounds : Assigning(o)' <=> Assigning(o)
      BY <2>1, <2>4 DEF Assigning
    <2>8. InsertedOnce'
      <3> SUFFICES ASSUME NEW o \in Rounds, NEW v \in Users,
                          assign'[o].pc = "still" \/ (Assigning(o)' /\ v \in assign'[o].todo)
                   PROVE  row'[<<o, v>>].status = "none"
        BY DEF InsertedOnce
      <3>1. <<o, v>> # <<c, u>>
        BY <2>4
      <3>2. row[<<o, v>>].status = "none"
        BY <1>0, <2>1, <2>4, <2>7 DEF InsertedOnce, Assigning
      <3> QED
        BY <2>3, <3>1, <3>2 DEF Rows
    <2>9. InsertsTodo' /\ OverlapsSeen'
      BY <1>0, <2>1, <2>4, <2>7 DEF InsertsTodo, OverlapsSeen
    <2>10. ASSUME NEW o \in Rounds, o # c, Open(<<o, u>>)
           PROVE  {c, o} \in together \/ <<o, u>> \in reopened
      BY <1>0, <2>1, <2>10 DEF ChecksHold, u
    <2>11. ChecksHold'
      <3> SUFFICES ASSUME NEW a \in Rounds, NEW o \in Rounds, assign'[a].pc = "inserting", o # a,
                          Open(<<o, assign[a].user>>)'
                   PROVE  {a, o} \in together \/ <<o, assign'[a].user>> \in reopened
        BY <2>1 DEF ChecksHold, Open
      <3>1. a # c /\ assign'[a] = assign[a] /\ assign[a].user \in Users
        BY <1>0, <2>4, AssignType
      <3>2. CASE o = c
        BY <1>0, <2>1, <3>1, <3>2 DEF OverlapsSeen, Assigning
      <3>3. CASE o # c
        <4>1. <<o, assign[a].user>> \in Rows /\ <<o, assign[a].user>> # <<c, u>>
          BY <3>1, <3>3 DEF Rows
        <4>2. row'[<<o, assign[a].user>>] = row[<<o, assign[a].user>>]
          BY <2>3, <4>1
        <4>3. Open(<<o, assign[a].user>>)
          BY <3>1, <4>2 DEF Open
        <4> QED
          BY <1>0, <3>1, <4>3 DEF ChecksHold
      <3> QED
        BY <3>2, <3>3
    <2>12. AskedOnce'
      <3> SUFFICES ASSUME NEW r1 \in Rows, NEW r2 \in Rows, Open(r1)', Open(r2)', r1 # r2,
                          r1[2] = r2[2]
                   PROVE  {r1[1], r2[1]} \in together \/ reopened \cap {r1, r2} # {}
        BY <2>1 DEF AskedOnce
      <3>0. \A r \in Rows : r = <<r[1], r[2]>> /\ r[1] \in Rounds
        BY DEF Rows
      <3>1. CASE r1 # <<c, u>> /\ r2 # <<c, u>>
        BY <1>0, <2>3, <3>1 DEF AskedOnce, Open
      <3>2. CASE r1 = <<c, u>>
        <4>1. r2 = <<r2[1], u>> /\ r2[1] \in Rounds /\ r2[1] # c /\ Open(r2) /\ r1[1] = c
          BY <2>3, <3>0, <3>2 DEF Open
        <4> QED
          BY <2>10, <4>1
      <3>3. CASE r2 = <<c, u>>
        <4>1. r1 = <<r1[1], u>> /\ r1[1] \in Rounds /\ r1[1] # c /\ Open(r1) /\ r2[1] = c
          BY <2>3, <3>0, <3>3 DEF Open
        <4>2. {c, r1[1]} = {r1[1], c}
          OBVIOUS
        <4> QED
          BY <2>10, <4>1, <4>2
      <3> QED
        BY <3>1, <3>2, <3>3
    <2> QED
      BY <2>5, <2>6, <2>8, <2>9, <2>11, <2>12 DEF TaskInductive, RoundsAgree
  <1>4. ASSUME NEW c \in Rounds, AssignEnd(c) \/ (AssignInsert(c) /\ ~exists)
        PROVE  TaskInductive'
    <2>1. /\ assign' = [assign EXCEPT ![c] = [pc |-> "ended", todo |-> {}]]
          /\ UNCHANGED <<exists, row, notify, submit, deleting, reopened, contested, together>>
      BY <1>4 DEF AssignEnd, AssignInsert
    <2>2. \A o \in Rounds : assign'[o] = IF o = c THEN [pc |-> "ended", todo |-> {}] ELSE assign[o]
      BY <1>0, <2>1 DEF TaskTypeOK
    <2>3. TaskTypeOK'
      BY <1>0, <2>1 DEF TaskTypeOK, AssignCall
    <2>4. AnswersRaced' /\ AnsweredOnce' /\ AskedOnce'
      BY <1>0, <2>1 DEF AnswersRaced, Writing, AnsweredOnce, AskedOnce, Open
    <2>5. InsertedOnce' /\ InsertsTodo' /\ OverlapsSeen' /\ ChecksHold'
      BY <1>0, <2>1, <2>2 DEF InsertedOnce, InsertsTodo, OverlapsSeen, ChecksHold, Assigning, Open
    <2> QED
      BY <2>3, <2>4, <2>5 DEF TaskInductive, RoundsAgree
  \* The steps of notify and submit.
  <1>5. ASSUME NEW c \in Rounds, NotifyStart(c) PROVE TaskInductive'
    <2>1. UNCHANGED <<exists, row, assign, submit, deleting, reopened, contested, together>>
      BY <1>5 DEF NotifyStart
    <2>2. TaskTypeOK'
      BY <1>0, <1>5 DEF NotifyStart, TaskTypeOK
    <2> QED
      BY <1>0, <2>1, <2>2 DEF TaskInductive, RoundsAgree, AnswersRaced, Writing, AnsweredOnce,
         AskedOnce, Open, InsertedOnce, InsertsTodo, OverlapsSeen, ChecksHold, Assigning
  <1>6. ASSUME NEW c \in Rounds, NEW r \in Rows, NotifyMark(c, r) PROVE TaskInductive'
    <2>1. /\ UNCHANGED <<exists, assign, submit, deleting, contested, together>>
          /\ notify' = [notify EXCEPT ![c].todo = @ \ {r}]
      BY <1>6 DEF NotifyMark
    <2>2. notify' \in [Rounds -> [pc: {"still", "sending"}, todo: SUBSET Rows]]
      BY <1>0, <2>1 DEF TaskTypeOK
    <2>3. CASE row[r].status = "none"
      <3>1. UNCHANGED <<row, reopened>>
        BY <1>6, <2>3 DEF NotifyMark
      <3>2. TaskTypeOK'
        BY <1>0, <2>1, <2>2, <3>1 DEF TaskTypeOK
      <3> QED
        BY <1>0, <2>1, <3>1, <3>2 DEF TaskInductive, RoundsAgree, AnswersRaced, Writing,
           AnsweredOnce, AskedOnce, Open, InsertedOnce, InsertsTodo, OverlapsSeen, ChecksHold,
           Assigning
    <2>4. CASE row[r].status # "none"
      <3>1. /\ row' = [row EXCEPT ![r] = [row[r] EXCEPT !.status = "notified"]]
            /\ reopened' = IF row[r].status = "completed" THEN reopened \cup {r} ELSE reopened
        BY <1>0, <1>6, <2>4 DEF NotifyMark, TaskTypeOK
      <3>2. /\ [row[r] EXCEPT !.status = "notified"] \in TaskRow
            /\ [row[r] EXCEPT !.status = "notified"].status = "notified"
            /\ [row[r] EXCEPT !.status = "notified"].answers = row[r].answers
        BY <1>rows DEF TaskRow
      <3>3. TaskTypeOK'
        BY <1>0, <2>1, <2>2, <3>1, <3>2 DEF TaskTypeOK
      <3>4. \A q \in Rows : /\ q # r => row'[q] = row[q]
                            /\ q = r => row'[q].status = "notified" /\ row'[q].answers = row[r].answers
        BY <1>0, <3>1, <3>2 DEF TaskTypeOK
      <3>5. /\ reopened \subseteq reopened'
            /\ \A q \in Rows : row[q].status = "none" => row'[q].status = "none"
            /\ \A q \in Rows : Open(q)' => Open(q) \/ q \in reopened'
        BY <1>rows, <2>4, <3>1, <3>4 DEF Open, TaskRow
      <3>6. InsertedOnce' /\ InsertsTodo' /\ OverlapsSeen' /\ ChecksHold' /\ AskedOnce'
        BY <2>1, <3>5, AssignQuiet
      <3>7. \A q \in Rows : \/ row'[q].answers = 0
                            \/ /\ row'[q].answers = row[q].answers
                               /\ row[q].status # "none" /\ row'[q].status # "none"
                               /\ row'[q].status = row[q].status \/ row[q].status # "completed"
                                  \/ q \in reopened'
        BY <1>0, <2>4, <3>1, <3>4 DEF AnswersRaced
      <3>8. AnswersRaced' /\ AnsweredOnce'
        BY <2>1, <3>3, <3>5, <3>7, SubmitQuiet
      <3> QED
        BY <3>3, <3>6, <3>8 DEF TaskInductive, RoundsAgree
    <2> QED
      BY <2>3, <2>4
  <1>7. ASSUME NEW s \in Submits, NEW r \in Rows, SubmitRead(s, r) PROVE TaskInductive'
    <2>1. /\ submit[s].pc = "still" /\ row[r].status \notin {"none", "completed"}
          /\ submit' = [submit EXCEPT ![s] = [pc |-> "writing", row |-> r]]
          /\ contested' = IF \E o \in Submits : submit[o] = [pc |-> "writing", row |-> r]
                          THEN contested \cup {r} ELSE contested
          /\ UNCHANGED <<exists, row, assign, notify, deleting, reopened, together>>
      BY <1>7 DEF SubmitRead, TakesAnswer
    <2>2. TaskTypeOK'
      BY <1>0, <2>1 DEF TaskTypeOK, SubmitCall
    <2>3. InsertedOnce' /\ InsertsTodo' /\ OverlapsSeen' /\ ChecksHold' /\ AskedOnce'
      BY <2>1, AssignQuiet DEF Open
    <2>4. AnsweredOnce'
      BY <1>0, <2>1 DEF AnsweredOnce
    <2>5. AnswersRaced'
      <3>1. \A o \in Submits : submit'[o] = IF o = s THEN [pc |-> "writing", row |-> r] ELSE submit[o]
        BY <1>0, <2>1 DEF TaskTypeOK
      <3>2. \A o \in Submits : o # s => \A q \in Rows : Writing(o, q)' <=> Writing(o, q)
        BY <3>1 DEF Writing
      <3>3. \A q \in Rows : Writing(s, q)' <=> q = r
        BY <3>1 DEF Writing
      <3>4. \A o \in Submits : Writing(o, r) => r \in contested'
        BY <1>0, <2>1, SubmitType DEF Writing
      <3>5. row[r].answers > 0 => r \in reopened
        BY <1>0, <2>1 DEF AnswersRaced
      <3> SUFFICES ASSUME NEW q \in Rows
                   PROVE  /\ row[q].status = "none" => row[q].answers = 0
                          /\ row[q].answers > 0 /\ row[q].status # "completed" => q \in reopened
                          /\ \A o \in Submits : Writing(o, q)' =>
                                /\ row[q].answers > 0 => q \in reopened \cup contested'
                                /\ \A p \in Submits : Writing(p, q)' /\ p # o => q \in contested'
        BY <2>1 DEF AnswersRaced
      <3>6. contested \subseteq contested'
        BY <2>1
      <3> QED
        BY <1>0, <3>2, <3>3, <3>4, <3>5, <3>6 DEF AnswersRaced
    <2> QED
      BY <2>2, <2>3, <2>4, <2>5 DEF TaskInductive, RoundsAgree
  <1>8. ASSUME NEW s \in Submits, SubmitWrite(s) PROVE TaskInductive'
    <2>0. PICK r \in Rows : submit[s].row = r
      BY <1>0, <1>8, SubmitType DEF SubmitWrite
    <2>1. /\ submit[s].pc = "writing" /\ submit[s].row = r
          /\ submit' = [submit EXCEPT ![s] = [pc |-> "ended"]]
          /\ row' = IF row[r].status = "none" THEN row
                    ELSE [row EXCEPT ![r] = [status |-> "completed", answers |-> row[r].answers + 1]]
          /\ UNCHANGED <<exists, assign, notify, deleting, reopened, contested, together>>
      BY <1>0, <1>8, <2>0 DEF SubmitWrite, TaskTypeOK
    <2>2. Writing(s, r)
      BY <2>1 DEF Writing
    <2>3. \A o \in Submits : submit'[o] = IF o = s THEN [pc |-> "ended"] ELSE submit[o]
      BY <1>0, <2>1 DEF TaskTypeOK
    <2>4. \A o \in Submits, q \in Rows : Writing(o, q)' => Writing(o, q) /\ o # s
      BY <2>3 DEF Writing
    <2>5. \A q \in Rows : /\ q # r \/ row[r].status = "none" => row'[q] = row[q]
                          /\ q = r /\ row[r].status # "none" =>
                                row'[q] = [status |-> "completed", answers |-> row[r].answers + 1]
      BY <1>0, <2>1 DEF TaskTypeOK
    <2>6. row[r].answers \in Nat
      BY <1>rows, <2>1 DEF TaskRow
    <2>7. TaskTypeOK'
      <3>1. row' \in [Rows -> TaskRow]
        BY <1>0, <2>1, <2>6 DEF TaskTypeOK, TaskRow
      <3>2. submit' \in [Submits -> SubmitCall]
        BY <1>0, <2>1 DEF TaskTypeOK, SubmitCall
      <3> QED
        BY <1>0, <2>1, <3>1, <3>2 DEF TaskTypeOK
    <2>8. InsertedOnce' /\ InsertsTodo' /\ OverlapsSeen' /\ ChecksHold' /\ AskedOnce'
      <3>1. \A q \in Rows : row[q].status = "none" => row'[q].status = "none"
        BY <2>5
      <3>2. \A q \in Rows : Open(q)' => Open(q)
        BY <2>5 DEF Open
      <3> QED
        BY <2>1, <3>1, <3>2, AssignQuiet
    <2>9. AnsweredOnce'
      BY <1>0, <2>1, <2>2, <2>5, <2>6 DEF AnsweredOnce, AnswersRaced
    <2>10. AnswersRaced'
      <3>1. \A o \in Submits : Writing(o, r)' => r \in contested
        <4> SUFFICES ASSUME NEW o \in Submits, Writing(o, r)' PROVE r \in contested
          OBVIOUS
        <4>1. Writing(o, r) /\ o # s
          BY <2>1, <2>4
        <4> QED
          BY <1>0, <2>1, <2>2, <4>1 DEF AnswersRaced
      <3> SUFFICES ASSUME NEW q \in Rows
                   PROVE  /\ row'[q].status = "none" => row'[q].answers = 0
                          /\ row'[q].answers > 0 /\ row'[q].status # "completed" => q \in reopened
                          /\ \A o \in Submits : Writing(o, q)' =>
                                /\ row'[q].answers > 0 => q \in reopened \cup contested
                                /\ \A p \in Submits : Writing(p, q)' /\ p # o => q \in contested
        BY <2>1 DEF AnswersRaced
      <3>2. CASE q # r \/ row[r].status = "none"
        BY <1>0, <2>4, <2>5, <3>2 DEF AnswersRaced
      <3>3. CASE q = r /\ row[r].status # "none"
        <4>1. row'[q].status = "completed"
          BY <2>5, <3>3
        <4>2. \A o \in Submits : Writing(o, q)' => q \in contested
          BY <3>1, <3>3
        <4> QED
          BY <4>1, <4>2
      <3> QED
        BY <3>2, <3>3
    <2> QED
      BY <2>7, <2>8, <2>9, <2>10 DEF TaskInductive, RoundsAgree
  \* The statements of the delete route.
  <1>9. CASE DeleteRows \/ DeleteTask
    <2>1. /\ \A r \in Rows : row'[r] = NoRow
          /\ UNCHANGED <<assign, notify, submit, reopened, contested, together>>
      BY <1>9 DEF DeleteRows, DeleteTask
    <2>2. TaskTypeOK'
      <3>1. exists' \in BOOLEAN /\ deleting' \in {"no", "rows", "task"}
        BY <1>0, <1>9 DEF DeleteRows, DeleteTask, TaskTypeOK
      <3>2. row' = [r \in Rows |-> NoRow] /\ NoRow \in TaskRow
        BY <1>9 DEF DeleteRows, DeleteTask, TaskRow, NoRow
      <3>3. row' \in [Rows -> TaskRow]
        BY <3>2
      <3> QED
        BY <1>0, <2>1, <3>1, <3>3 DEF TaskTypeOK
    <2>3. InsertedOnce' /\ InsertsTodo' /\ OverlapsSeen' /\ ChecksHold' /\ AskedOnce'
      BY <2>1, AssignQuiet DEF Open, NoRow
    <2>4. AnswersRaced' /\ AnsweredOnce'
      BY <2>1, <2>2, SubmitQuiet DEF NoRow
    <2> QED
      BY <2>2, <2>3, <2>4 DEF TaskInductive, RoundsAgree
  <1>10. CASE UNCHANGED taskVars
    BY <1>0, <1>10 DEF taskVars, TaskInductive, TaskTypeOK, RoundsAgree, AnswersRaced, Writing,
       AnsweredOnce, AskedOnce, Open, InsertedOnce, InsertsTodo, OverlapsSeen, ChecksHold, Assigning
  <1> QED
    BY <1>1, <1>2, <1>3, <1>4, <1>5, <1>6, <1>7, <1>8, <1>9, <1>10 DEF TaskNext

\* Rows, answers and calls of a task keep their types.
THEOREM TaskTypeCorrect == TaskSpec => []TaskTypeOK
  <1>1. TaskInductive => TaskTypeOK
    BY DEF TaskInductive
  <1> QED
    BY <1>1, InitTask, NextTask, PTL DEF TaskSpec

\* A user keeps one open row and one answer but where two calls overlapped or
\* a notify call came after the answer.
THEOREM RoundsAgreeAlways == TaskSpec => []RoundsAgree
  <1>1. TaskInductive => RoundsAgree
    BY DEF TaskInductive
  <1> QED
    BY <1>1, InitTask, NextTask, PTL DEF TaskSpec

-----------------------------------------------------------------------------
(* Channel messages *)

HandlerSteps ==
    {"waiting", "received", "dropped", "duplicate", "resolving", "classifying", "planning",
     "dispatching", "replying", "thrown", "done", "lost"}

HandlerRecord ==
    [pc: HandlerSteps, left: Nat, ref: Refs \cup {NoRef}, at: Nat, boot: Nat]

IngressTypeOK ==
    /\ ticks \in Nat /\ lastSweep \in Nat /\ reboots \in Nat
    /\ concurrency \in Int /\ inflight \in Int
    /\ handler \in [Deliveries -> HandlerRecord]
    /\ poll \in [Deliveries -> [ref: Refs \cup {NoRef}, left: Nat]]
    /\ workflow \in [Refs -> {"none", "planned", "running", "succeeded", "failed"}]
    /\ reported \subseteq Deliveries

\* Marks and handlers are of the past.
StampsPast ==
    /\ \A e \in DOMAIN seen : seen[e] \in 0..ticks
    /\ \A d \in Deliveries : handler[d].at <= ticks /\ handler[d].boot <= reboots

\* An event let in is marked since, or a sweep after its time removed the mark.
TakenRemembered ==
    \A d \in Deliveries : Taken(d) /\ handler[d].boot = reboots =>
        \/ EventOf[d] \in DOMAIN seen /\ handler[d].at <= seen[EventOf[d]]
        \/ handler[d].at + DedupeTTL < ticks

\* The references a handler goes through are its own.
RefsOwn ==
    \A d \in Deliveries :
        /\ handler[d].ref # NoRef => handler[d].ref[1] = d
        /\ handler[d].pc = "dispatching" => handler[d].ref # NoRef
        /\ handler[d].pc = "planning" => handler[d].left \in 1..PlanTries

\* A workflow that was started is the one its handler goes on with.
RunsHeld ==
    \A r \in Refs : workflow[r] \in {"running", "succeeded", "failed"} =>
        /\ handler[r[1]].pc \in {"dispatching", "replying", "done", "lost"}
        /\ handler[r[1]].ref = r

\* A handler that is done has left its poll behind.
DonePolled ==
    \A d \in Deliveries :
        /\ handler[d].pc = "lost" => handler[d].boot < reboots
        /\ handler[d].pc = "done" /\ handler[d].boot = reboots /\ handler[d].ref # NoRef =>
              poll[d].ref = handler[d].ref \/ d \in reported

IngressInductive ==
    /\ IngressTypeOK
    /\ StampsPast
    /\ TakenRemembered
    /\ RefsOwn
    /\ RunsHeld
    /\ DonePolled
    /\ HandledOnce

LEMMA InitIngress == IngressInit => IngressInductive
  <1> SUFFICES ASSUME IngressInit PROVE IngressInductive
    OBVIOUS
  <1>1. /\ ticks = 0 /\ seen = <<>> /\ lastSweep = 0 /\ concurrency = 0 /\ inflight = 0
        /\ handler = [d \in Deliveries |-> Fresh] /\ poll = [d \in Deliveries |-> NoPoll]
        /\ workflow = [r \in Refs |-> "none"] /\ reported = {} /\ reboots = 0
    BY DEF IngressInit
  <1>2. Fresh \in HandlerRecord /\ NoPoll \in [ref: Refs \cup {NoRef}, left: Nat]
    BY DEF Fresh, NoPoll, HandlerRecord, HandlerSteps
  <1>3. IngressTypeOK
    BY <1>1, <1>2 DEF IngressTypeOK
  <1>4. \A d \in Deliveries : handler[d] = Fresh /\ ~Taken(d)
    BY <1>1 DEF Taken, Fresh
  <1>5. StampsPast /\ TakenRemembered /\ HandledOnce
    BY <1>1, <1>4 DEF StampsPast, TakenRemembered, HandledOnce, Fresh
  <1>6. RefsOwn /\ DonePolled
    BY <1>4 DEF RefsOwn, DonePolled, Fresh
  <1>7. RunsHeld
    BY <1>1 DEF RunsHeld
  <1> QED
    BY <1>3, <1>5, <1>6, <1>7 DEF IngressInductive

\* The parts of a handler have their types.
LEMMA HandlerType ==
    ASSUME IngressTypeOK, NEW d \in Deliveries
    PROVE  /\ handler[d] \in HandlerRecord
           /\ handler[d].pc \in HandlerSteps /\ handler[d].left \in Nat
           /\ handler[d].ref \in Refs \cup {NoRef}
           /\ handler[d].at \in Nat /\ handler[d].boot \in Nat
  <1>1. handler[d] \in HandlerRecord
    BY DEF IngressTypeOK
  <1> QED
    BY <1>1 DEF HandlerRecord

\* What is remembered of the events outlives a step that lets none in.
LEMMA MarksKept ==
    ASSUME IngressInductive, UNCHANGED <<seen, reboots>>, ticks' \in Nat, ticks' >= ticks,
           \A d \in Deliveries : /\ handler'[d].at = handler[d].at
                                 /\ handler'[d].boot = handler[d].boot
                                 /\ Taken(d)' => Taken(d)
    PROVE  StampsPast' /\ TakenRemembered' /\ HandledOnce'
  <1>1. IngressTypeOK /\ StampsPast /\ TakenRemembered /\ HandledOnce
    BY DEF IngressInductive
  <1>2. \A d \in Deliveries : handler[d].at \in Nat /\ handler[d].boot \in Nat
    BY <1>1, HandlerType
  <1>3. ticks \in Nat /\ reboots \in Nat /\ DedupeTTL \in Nat
    BY <1>1, IngressAssumption DEF IngressTypeOK
  <1>4. StampsPast'
    BY <1>1, <1>2, <1>3 DEF StampsPast
  <1>5. TakenRemembered'
    BY <1>1, <1>2, <1>3 DEF TakenRemembered
  <1>6. HandledOnce'
    BY <1>1 DEF HandledOnce
  <1> QED
    BY <1>4, <1>5, <1>6

Started == {"running", "succeeded", "failed"}

\* A step of one handler between its start and its reply.
LEMMA MessageStep ==
    ASSUME IngressInductive, NEW d \in Deliveries,
           UNCHANGED <<ticks, seen, lastSweep, poll, reported, reboots>>,
           concurrency' \in Int, inflight' \in Int,
           handler' \in [Deliveries -> HandlerRecord],
           \A o \in Deliveries : o # d => handler'[o] = handler[o],
           handler'[d].at = handler[d].at, handler'[d].boot = handler[d].boot,
           Taken(d)' => Taken(d),
           handler'[d].pc \notin {"lost", "done"},
           handler'[d].ref # NoRef => handler'[d].ref[1] = d,
           handler'[d].pc = "dispatching" => handler'[d].ref # NoRef,
           handler'[d].pc = "planning" => handler'[d].left \in 1..PlanTries,
           workflow' \in [Refs -> {"none", "planned", "running", "succeeded", "failed"}],
           \A r \in Refs : workflow'[r] \in Started =>
              \/ r[1] # d /\ workflow[r] \in Started
              \/ /\ r[1] = d
                 /\ handler'[d].pc \in {"dispatching", "replying"}
                 /\ handler'[d].ref = r
    PROVE  IngressInductive'
  <1>1. IngressTypeOK'
    BY DEF IngressInductive, IngressTypeOK
  <1>2. \A o \in Deliveries : /\ handler'[o].at = handler[o].at
                              /\ handler'[o].boot = handler[o].boot
                              /\ Taken(o)' => Taken(o)
    BY DEF Taken
  <1>3. StampsPast' /\ TakenRemembered' /\ HandledOnce'
    BY <1>1, <1>2, MarksKept DEF IngressInductive, IngressTypeOK
  <1>4. RefsOwn'
    BY DEF IngressInductive, RefsOwn
  <1>5. RunsHeld'
    <2> SUFFICES ASSUME NEW r \in Refs, workflow'[r] \in Started
                 PROVE  /\ handler'[r[1]].pc \in {"dispatching", "replying", "done", "lost"}
                        /\ handler'[r[1]].ref = r
      BY DEF RunsHeld, Started
    <2>1. r[1] \in Deliveries
      BY DEF Refs
    <2>2. CASE r[1] # d /\ workflow[r] \in Started
      BY <2>1, <2>2 DEF IngressInductive, RunsHeld, Started
    <2>3. CASE r[1] = d /\ handler'[d].pc \in {"dispatching", "replying"} /\ handler'[d].ref = r
      BY <2>3
    <2> QED
      BY <2>2, <2>3
  <1>6. DonePolled'
    BY DEF IngressInductive, DonePolled
  <1> QED
    BY <1>1, <1>3, <1>4, <1>5, <1>6 DEF IngressInductive

\* No workflow of a handler runs before it dispatches one.
LEMMA NotStarted ==
    ASSUME IngressInductive, NEW d \in Deliveries,
           handler[d].pc \notin {"dispatching", "replying", "done", "lost"}
    PROVE  \A r \in Refs : workflow[r] \in Started => r[1] # d
  BY DEF IngressInductive, RunsHeld, Started

\* A handler that only goes to another place.
LEMMA PlaceStep ==
    ASSUME IngressInductive, NEW d \in Deliveries, NEW p \in HandlerSteps,
           handler' = [handler EXCEPT ![d].pc = p],
           UNCHANGED <<ticks, seen, lastSweep, poll, workflow, reported, reboots>>,
           concurrency' \in Int, inflight' \in Int,
           handler[d].pc \notin {"dispatching", "replying", "done", "lost"},
           p \in {"received", "dropped"} \/ (Taken(d) /\ p \in {"classifying", "thrown", "replying"})
    PROVE  IngressInductive'
  <1>1. handler[d] \in HandlerRecord /\ IngressTypeOK
    BY HandlerType DEF IngressInductive
  <1>2. handler' = [handler EXCEPT ![d] = [handler[d] EXCEPT !.pc = p]]
    BY <1>1 DEF IngressTypeOK
  <1>3. /\ [handler[d] EXCEPT !.pc = p] \in HandlerRecord
        /\ [handler[d] EXCEPT !.pc = p].pc = p
        /\ [handler[d] EXCEPT !.pc = p].ref = handler[d].ref
        /\ [handler[d] EXCEPT !.pc = p].at = handler[d].at
        /\ [handler[d] EXCEPT !.pc = p].boot = handler[d].boot
    BY <1>1 DEF HandlerRecord
  <1>4. /\ handler' \in [Deliveries -> HandlerRecord]
        /\ \A o \in Deliveries : o # d => handler'[o] = handler[o]
        /\ handler'[d].pc = p /\ handler'[d].ref = handler[d].ref
        /\ handler'[d].at = handler[d].at /\ handler'[d].boot = handler[d].boot
    BY <1>1, <1>2, <1>3 DEF IngressTypeOK
  <1>5. Taken(d)' => Taken(d)
    BY <1>4 DEF Taken
  <1>6. handler[d].ref # NoRef => handler[d].ref[1] = d
    BY DEF IngressInductive, RefsOwn
  <1>7. \A r \in Refs : workflow'[r] \in Started => r[1] # d /\ workflow[r] \in Started
    BY NotStarted
  <1>8. workflow' \in [Refs -> {"none", "planned", "running", "succeeded", "failed"}]
    BY <1>1 DEF IngressTypeOK
  <1> QED
    BY <1>4, <1>5, <1>6, <1>7, <1>8, MessageStep

LEMMA TakeStep ==
    ASSUME IngressInductive, NEW d \in Deliveries, TakeEvent(d) PROVE IngressInductive'
  <1> DEFINE e == EventOf[d]
  <1> DEFINE h == handler'[d]
  <1>0. /\ IngressTypeOK /\ StampsPast /\ TakenRemembered /\ RefsOwn /\ RunsHeld /\ DonePolled
        /\ HandledOnce /\ handler[d] \in HandlerRecord
        /\ handler[d].pc \in {"waiting", "received"}
    BY HandlerType DEF IngressInductive, TakeEvent
  <1>1. /\ UNCHANGED <<ticks, inflight, poll, workflow, reported, reboots>>
        /\ CheckAndSet(e)
        /\ concurrency' \in Int
        /\ handler' = [handler EXCEPT ![d] =
                         IF ~Duplicate(e)
                         THEN [handler[d] EXCEPT !.pc = "resolving", !.at = ticks, !.boot = reboots]
                         ELSE [handler[d] EXCEPT !.pc = "duplicate"]]
    BY <1>0 DEF TakeEvent, IngressTypeOK
  <1>2. ticks \in Nat /\ reboots \in Nat /\ DedupeTTL \in Nat \ {0}
    BY <1>0, IngressAssumption DEF IngressTypeOK
  <1>3. /\ Duplicate(e) => h = [handler[d] EXCEPT !.pc = "duplicate"]
        /\ ~Duplicate(e) => h = [handler[d] EXCEPT !.pc = "resolving", !.at = ticks, !.boot = reboots]
        /\ \A o \in Deliveries : o # d => handler'[o] = handler[o]
    BY <1>0, <1>1 DEF IngressTypeOK
  <1>4. /\ h \in HandlerRecord /\ h.ref = handler[d].ref
        /\ Duplicate(e) => h.pc = "duplicate" /\ h.at = handler[d].at /\ h.boot = handler[d].boot
        /\ ~Duplicate(e) => h.pc = "resolving" /\ h.at = ticks /\ h.boot = reboots
    <2>1. CASE Duplicate(e)
      BY <1>0, <1>3, <2>1 DEF HandlerRecord, HandlerSteps
    <2>2. CASE ~Duplicate(e)
      BY <1>0, <1>2, <1>3, <2>2 DEF HandlerRecord, HandlerSteps
    <2> QED
      BY <2>1, <2>2
  <1>5. handler' \in [Deliveries -> HandlerRecord]
    BY <1>0, <1>1, <1>4 DEF IngressTypeOK
  <1> HIDE DEF h
  <1>6. IngressTypeOK'
    <2>1. lastSweep' \in Nat
      BY <1>0, <1>1, <1>2 DEF CheckAndSet, IngressTypeOK
    <2> QED
      BY <1>0, <1>1, <1>5, <2>1 DEF IngressTypeOK
  \* The marks after the step.
  <1>7. /\ \A m \in DOMAIN Swept : m \in DOMAIN seen /\ Swept[m] = seen[m]
        /\ \A m \in DOMAIN seen : m \in DOMAIN Swept \/ seen[m] < ticks - DedupeTTL
    <2>1. CASE SweepDue
      BY <1>0, <1>2, <2>1 DEF Swept, Restrict, StampsPast
    <2>2. CASE ~SweepDue
      BY <2>2 DEF Swept
    <2> QED
      BY <2>1, <2>2
  <1>8. /\ \A m \in DOMAIN seen' : \/ m \in DOMAIN seen /\ seen'[m] = seen[m]
                                   \/ m = e /\ ~Duplicate(e) /\ seen'[m] = ticks
        /\ \A m \in DOMAIN seen : \/ m \in DOMAIN seen' /\ seen'[m] = seen[m]
                                  \/ m = e /\ ~Duplicate(e)
                                  \/ seen[m] < ticks - DedupeTTL
        /\ ~Duplicate(e) => e \in DOMAIN seen' /\ seen'[e] = ticks
    <2>1. CASE Duplicate(e)
      BY <1>1, <1>7, <2>1 DEF CheckAndSet
    <2>2. CASE ~Duplicate(e)
      <3>1. seen' = [m \in DOMAIN Swept \cup {e} |-> IF m = e THEN ticks ELSE Swept[m]]
        BY <1>1, <2>2 DEF CheckAndSet
      <3>2. /\ DOMAIN seen' = {e} \cup DOMAIN Swept
            /\ \A m \in DOMAIN seen' : seen'[m] = IF m = e THEN ticks ELSE Swept[m]
        BY <3>1
      <3> QED
        BY <1>7, <2>2, <3>2
    <2> QED
      BY <2>1, <2>2
  <1>9. \A o \in Deliveries : handler[o].at \in Nat /\ handler[o].boot \in Nat
    BY <1>0, HandlerType
  <1>10. StampsPast'
    <2>1. \A m \in DOMAIN seen' : seen'[m] \in 0..ticks
      BY <1>0, <1>2, <1>8 DEF StampsPast
    <2>2. \A o \in Deliveries : handler'[o].at <= ticks /\ handler'[o].boot <= reboots
      BY <1>0, <1>2, <1>3, <1>4 DEF StampsPast, h
    <2> QED
      BY <1>1, <2>1, <2>2 DEF StampsPast
  \* A delivery taken before.
  <1>11. \A o \in Deliveries : o # d => /\ handler'[o] = handler[o]
                                        /\ Taken(o)' <=> Taken(o)
    BY <1>3 DEF Taken
  <1>12. Taken(d)' => ~Duplicate(e)
    BY <1>4 DEF Taken, h
  <1>13. TakenRemembered'
    <2> SUFFICES ASSUME NEW o \in Deliveries, Taken(o)', handler'[o].boot = reboots
                 PROVE  \/ EventOf[o] \in DOMAIN seen' /\ handler'[o].at <= seen'[EventOf[o]]
                        \/ handler'[o].at + DedupeTTL < ticks
      BY <1>1 DEF TakenRemembered
    <2>1. CASE o = d
      BY <1>2, <1>4, <1>8, <1>12, <2>1 DEF h
    <2>2. CASE o # d
      <3>1. \/ EventOf[o] \in DOMAIN seen /\ handler[o].at <= seen[EventOf[o]]
            \/ handler[o].at + DedupeTTL < ticks
        BY <1>0, <1>11, <2>2 DEF TakenRemembered
      <3>2. handler[o].at <= ticks /\ handler'[o] = handler[o]
        BY <1>0, <1>11, <2>2 DEF StampsPast
      <3>3. \A m \in DOMAIN seen : seen[m] \in 0..ticks
        BY <1>0 DEF StampsPast
      <3> QED
        BY <1>2, <1>8, <1>9, <3>1, <3>2, <3>3
    <2> QED
      BY <2>1, <2>2
  <1>14. HandledOnce'
    <2>1. ASSUME NEW o \in Deliveries, o # d, EventOf[o] = e, Taken(o), handler[o].boot = reboots,
                 ~Duplicate(e)
          PROVE  handler[o].at + DedupeTTL <= ticks
      <3>1. \/ e \in DOMAIN seen /\ handler[o].at <= seen[e]
            \/ handler[o].at + DedupeTTL < ticks
        BY <1>0, <2>1 DEF TakenRemembered
      <3>2. e \notin DOMAIN seen \/ (seen[e] \in 0..ticks /\ ticks - seen[e] >= DedupeTTL)
        BY <1>0, <1>2, <2>1 DEF Duplicate, StampsPast
      <3> QED
        BY <1>2, <1>9, <3>1, <3>2
    <2> SUFFICES ASSUME NEW o1 \in Deliveries, NEW o2 \in Deliveries, Taken(o1)', Taken(o2)',
                        o1 # o2, EventOf[o1] = EventOf[o2], handler'[o1].boot = handler'[o2].boot
                 PROVE  handler'[o1].at - handler'[o2].at \notin (1 - DedupeTTL)..(DedupeTTL - 1)
      BY DEF HandledOnce
    <2>2. CASE o1 # d /\ o2 # d
      BY <1>0, <1>11, <2>2 DEF HandledOnce
    <2>3. CASE o1 = d
      <3>1. handler'[d].at = ticks /\ handler[o2].at + DedupeTTL <= ticks
        BY <1>4, <1>11, <1>12, <2>1, <2>3 DEF h
      <3> QED
        BY <1>2, <1>9, <1>11, <2>3, <3>1
    <2>4. CASE o2 = d
      <3>1. handler'[d].at = ticks /\ handler[o1].at + DedupeTTL <= ticks
        BY <1>4, <1>11, <1>12, <2>1, <2>4 DEF h
      <3> QED
        BY <1>2, <1>9, <1>11, <2>4, <3>1
    <2> QED
      BY <2>2, <2>3, <2>4
  <1>15. h.pc \in {"resolving", "duplicate"}
    BY <1>4
  <1>16. RefsOwn'
    BY <1>0, <1>3, <1>4, <1>15 DEF RefsOwn, h
  <1>17. RunsHeld'
    <2> SUFFICES ASSUME NEW r \in Refs, workflow[r] \in {"running", "succeeded", "failed"}
                 PROVE  /\ handler'[r[1]].pc \in {"dispatching", "replying", "done", "lost"}
                        /\ handler'[r[1]].ref = r
      BY <1>1 DEF RunsHeld
    <2>1. r[1] \in Deliveries /\ r[1] # d
      BY <1>0 DEF RunsHeld, Refs
    <2> QED
      BY <1>0, <1>3, <2>1 DEF RunsHeld
  <1>18. DonePolled'
    BY <1>0, <1>1, <1>3, <1>15 DEF DonePolled, h
  <1> QED
    BY <1>6, <1>10, <1>13, <1>14, <1>16, <1>17, <1>18 DEF IngressInductive

LEMMA NextIngress == IngressInductive /\ [IngressNext]_ingressVars => IngressInductive'
  <1> SUFFICES ASSUME IngressInductive, [IngressNext]_ingressVars PROVE IngressInductive'
    OBVIOUS
  <1>0. /\ IngressTypeOK /\ StampsPast /\ TakenRemembered /\ RefsOwn /\ RunsHeld /\ DonePolled
        /\ HandledOnce
    BY DEF IngressInductive
  <1>typed. /\ concurrency \in Int /\ inflight \in Int /\ ticks \in Nat /\ reboots \in Nat
            /\ PlanTries \in Nat \ {0} /\ DispatchTries \in Nat \ {0} /\ Polls \in Nat \ {0}
    BY <1>0, IngressAssumption DEF IngressTypeOK
  \* The steps that only move a handler on.
  <1>1. ASSUME NEW d \in Deliveries, Receive(d) PROVE IngressInductive'
    BY <1>1, <1>typed, PlaceStep DEF Receive, HandlerSteps
  <1>2. ASSUME NEW d \in Deliveries, DropEvent(d) PROVE IngressInductive'
    BY <1>2, <1>typed, PlaceStep DEF DropEvent, HandlerSteps
  <1>3. ASSUME NEW d \in Deliveries, TakeEvent(d) PROVE IngressInductive'
    BY <1>3, TakeStep
  <1>4. ASSUME NEW d \in Deliveries, LetIn(d) PROVE IngressInductive'
    <2>1. Taken(d) /\ handler[d].pc = "resolving"
      BY <1>4 DEF LetIn, Taken
    <2>2. CASE inflight >= MaxInflight
      BY <1>4, <1>typed, <2>1, <2>2, PlaceStep DEF LetIn, HandlerSteps
    <2>3. CASE ~(inflight >= MaxInflight)
      BY <1>4, <1>typed, <2>1, <2>3, PlaceStep DEF LetIn, HandlerSteps
    <2> QED
      BY <2>2, <2>3
  <1>5. ASSUME NEW d \in Deliveries, Throw(d) PROVE IngressInductive'
    <2>1. Taken(d) /\ handler[d].pc \in {"resolving", "classifying"}
      BY <1>5 DEF Throw, Taken
    <2>2. concurrency' \in Int /\ inflight' \in Int
      BY <1>5, <1>typed DEF Throw
    <2> QED
      BY <1>5, <2>1, <2>2, PlaceStep DEF Throw, HandlerSteps
  \* A handler that ends without a workflow of its own.
  <1>6. ASSUME NEW d \in Deliveries, Return(d, NoRef), handler[d].pc \in {"classifying", "planning"},
               UNCHANGED <<ticks, seen, lastSweep, concurrency, poll, reported, reboots>>,
               workflow' \in [Refs -> {"none", "planned", "running", "succeeded", "failed"}],
               \A r \in Refs : workflow'[r] \in Started => workflow[r] \in Started
        PROVE  IngressInductive'
    <2>1. handler[d] \in HandlerRecord
      BY <1>0, HandlerType
    <2>2. handler' = [handler EXCEPT ![d] = [handler[d] EXCEPT !.pc = "replying", !.ref = NoRef]]
      BY <1>0, <1>6 DEF Return, IngressTypeOK
    <2>3. /\ [handler[d] EXCEPT !.pc = "replying", !.ref = NoRef] \in HandlerRecord
          /\ [handler[d] EXCEPT !.pc = "replying", !.ref = NoRef].pc = "replying"
          /\ [handler[d] EXCEPT !.pc = "replying", !.ref = NoRef].ref = NoRef
          /\ [handler[d] EXCEPT !.pc = "replying", !.ref = NoRef].at = handler[d].at
          /\ [handler[d] EXCEPT !.pc = "replying", !.ref = NoRef].boot = handler[d].boot
      BY <2>1 DEF HandlerRecord, HandlerSteps
    <2>4. /\ handler' \in [Deliveries -> HandlerRecord]
          /\ \A o \in Deliveries : o # d => handler'[o] = handler[o]
          /\ handler'[d].pc = "replying" /\ handler'[d].ref = NoRef
          /\ handler'[d].at = handler[d].at /\ handler'[d].boot = handler[d].boot
      BY <1>0, <2>2, <2>3 DEF IngressTypeOK
    <2>5. Taken(d)' => Taken(d)
      BY <1>6 DEF Taken
    <2>6. \A r \in Refs : workflow'[r] \in Started => r[1] # d /\ workflow[r] \in Started
      BY <1>6, NotStarted
    <2>7. concurrency' \in Int /\ inflight' \in Int
      BY <1>6, <1>typed DEF Return
    <2> QED
      BY <1>6, <2>4, <2>5, <2>6, <2>7, MessageStep
  <1>7. ASSUME NEW d \in Deliveries, Classify(d) PROVE IngressInductive'
    <2>0. /\ handler[d].pc = "classifying"
          /\ UNCHANGED <<ticks, seen, lastSweep, concurrency, poll, workflow, reported, reboots>>
      BY <1>7 DEF Classify
    <2>1. CASE Return(d, NoRef)
      BY <1>0, <1>6, <2>0, <2>1 DEF IngressTypeOK
    <2>2. CASE /\ handler' = [handler EXCEPT ![d].pc = "planning", ![d].left = PlanTries]
               /\ UNCHANGED inflight
      <3>1. handler[d] \in HandlerRecord
        BY <1>0, HandlerType
      <3>2. handler' = [handler EXCEPT ![d] = [handler[d] EXCEPT !.pc = "planning", !.left = PlanTries]]
        BY <1>0, <2>2 DEF IngressTypeOK
      <3>3. /\ [handler[d] EXCEPT !.pc = "planning", !.left = PlanTries] \in HandlerRecord
            /\ [handler[d] EXCEPT !.pc = "planning", !.left = PlanTries].pc = "planning"
            /\ [handler[d] EXCEPT !.pc = "planning", !.left = PlanTries].left = PlanTries
            /\ [handler[d] EXCEPT !.pc = "planning", !.left = PlanTries].ref = handler[d].ref
            /\ [handler[d] EXCEPT !.pc = "planning", !.left = PlanTries].at = handler[d].at
            /\ [handler[d] EXCEPT !.pc = "planning", !.left = PlanTries].boot = handler[d].boot
        BY <1>typed, <3>1 DEF HandlerRecord, HandlerSteps
      <3>4. /\ handler' \in [Deliveries -> HandlerRecord]
            /\ \A o \in Deliveries : o # d => handler'[o] = handler[o]
            /\ handler'[d].pc = "planning" /\ handler'[d].ref = handler[d].ref
            /\ handler'[d].left \in 1..PlanTries
            /\ handler'[d].at = handler[d].at /\ handler'[d].boot = handler[d].boot
        BY <1>0, <1>typed, <3>2, <3>3 DEF IngressTypeOK
      <3>5. Taken(d)' => Taken(d)
        BY <2>0 DEF Taken
      <3>6. \A r \in Refs : workflow'[r] \in Started => r[1] # d /\ workflow[r] \in Started
        BY <2>0, NotStarted
      <3>7. /\ handler'[d].ref # NoRef => handler'[d].ref[1] = d
            /\ workflow' \in [Refs -> {"none", "planned", "running", "succeeded", "failed"}]
        BY <1>0, <2>0, <3>4 DEF RefsOwn, IngressTypeOK
      <3> QED
        BY <1>typed, <2>0, <2>2, <3>4, <3>5, <3>6, <3>7, MessageStep
    <2> QED
      BY <1>7, <2>1, <2>2 DEF Classify
  \* A request that is tried again.
  <1>8. ASSUME NEW d \in Deliveries, TryAgain(d), handler[d].pc \in {"planning", "dispatching"},
               handler[d].left > 1
        PROVE  /\ handler' \in [Deliveries -> HandlerRecord]
               /\ \A o \in Deliveries : o # d => handler'[o] = handler[o]
               /\ handler'[d].pc = handler[d].pc /\ handler'[d].ref = handler[d].ref
               /\ handler'[d].pc = "planning" => handler'[d].left \in 1..PlanTries
               /\ handler'[d].at = handler[d].at /\ handler'[d].boot = handler[d].boot
               /\ Taken(d)' => Taken(d)
    <2>1. handler[d] \in HandlerRecord /\ handler[d].left \in Nat
      BY <1>0, HandlerType
    <2>2. handler' = [handler EXCEPT ![d] = [handler[d] EXCEPT !.left = handler[d].left - 1]]
      BY <1>0, <1>8 DEF TryAgain, IngressTypeOK
    <2>3. /\ [handler[d] EXCEPT !.left = handler[d].left - 1] \in HandlerRecord
          /\ [handler[d] EXCEPT !.left = handler[d].left - 1].pc = handler[d].pc
          /\ [handler[d] EXCEPT !.left = handler[d].left - 1].left = handler[d].left - 1
          /\ [handler[d] EXCEPT !.left = handler[d].left - 1].ref = handler[d].ref
          /\ [handler[d] EXCEPT !.left = handler[d].left - 1].at = handler[d].at
          /\ [handler[d] EXCEPT !.left = handler[d].left - 1].boot = handler[d].boot
      BY <1>8, <2>1 DEF HandlerRecord
    <2>4. /\ handler' \in [Deliveries -> HandlerRecord]
          /\ \A o \in Deliveries : o # d => handler'[o] = handler[o]
          /\ handler'[d].pc = handler[d].pc /\ handler'[d].ref = handler[d].ref
          /\ handler'[d].left = handler[d].left - 1
          /\ handler'[d].at = handler[d].at /\ handler'[d].boot = handler[d].boot
      BY <1>0, <2>2, <2>3 DEF IngressTypeOK
    <2>5. handler[d].pc = "planning" => handler[d].left \in 1..PlanTries
      BY <1>0 DEF RefsOwn
    <2>6. Taken(d)' => Taken(d)
      BY <2>4 DEF Taken
    <2> QED
      BY <1>8, <1>typed, <2>1, <2>4, <2>5, <2>6
  <1>9. ASSUME NEW d \in Deliveries, Plan(d) PROVE IngressInductive'
    <2> DEFINE ref == <<d, PlanTries - handler[d].left + 1>>
    <2>1. /\ handler[d].pc = "planning" /\ handler[d].left \in 1..PlanTries
          /\ UNCHANGED <<ticks, seen, lastSweep, concurrency, poll, reported, reboots>>
      BY <1>0, <1>9 DEF Plan, RefsOwn
    <2>2. ref \in Refs
      BY <1>typed, <2>1 DEF Refs
    <2>3. PICK o \in Outcomes :
          /\ o.answer = "ok" => o.reached
          /\ workflow' = IF o.reached THEN [workflow EXCEPT ![ref] = "planned"] ELSE workflow
          /\ \/ /\ o.answer = "ok"
                /\ handler' = [handler EXCEPT ![d].pc = "dispatching", ![d].ref = ref,
                                              ![d].left = DispatchTries]
                /\ UNCHANGED inflight
             \/ Retried(d, o) /\ TryAgain(d)
             \/ o.answer # "ok" /\ ~Retried(d, o) /\ Return(d, NoRef)
      BY <1>9 DEF Plan
    <2>4. workflow' \in [Refs -> {"none", "planned", "running", "succeeded", "failed"}]
      BY <1>0, <2>3 DEF IngressTypeOK
    <2>5. \A r \in Refs : workflow'[r] \in Started => r[1] # d /\ workflow[r] \in Started
      <3>1. \A r \in Refs : workflow'[r] \in Started => workflow[r] \in Started
        BY <1>0, <2>2, <2>3 DEF IngressTypeOK, Started
      <3>2. \A r \in Refs : workflow[r] \in Started => r[1] # d
        BY <2>1, NotStarted
      <3> QED
        BY <3>1, <3>2
    <2>6. CASE /\ handler' = [handler EXCEPT ![d].pc = "dispatching", ![d].ref = ref,
                                             ![d].left = DispatchTries]
               /\ UNCHANGED inflight
      <3>1. handler[d] \in HandlerRecord
        BY <1>0, HandlerType
      <3>2. handler' = [handler EXCEPT ![d] =
              [handler[d] EXCEPT !.pc = "dispatching", !.ref = ref, !.left = DispatchTries]]
        BY <1>0, <2>6 DEF IngressTypeOK
      <3>3. /\ handler'[d] \in HandlerRecord
            /\ handler'[d].pc = "dispatching" /\ handler'[d].ref = ref
            /\ handler'[d].at = handler[d].at /\ handler'[d].boot = handler[d].boot
        <4>1. handler'[d] =
                [handler[d] EXCEPT !.pc = "dispatching", !.ref = ref, !.left = DispatchTries]
          BY <1>0, <3>2 DEF IngressTypeOK
        <4> QED
          BY <1>typed, <2>2, <3>1, <4>1 DEF HandlerRecord, HandlerSteps
      <3>4. /\ handler' \in [Deliveries -> HandlerRecord]
            /\ \A q \in Deliveries : q # d => handler'[q] = handler[q]
        BY <1>0, <3>2, <3>3 DEF IngressTypeOK
      <3>5. Taken(d)' => Taken(d)
        BY <2>1 DEF Taken
      <3>6. ref # NoRef /\ ref[1] = d
        BY DEF NoRef
      <3> HIDE DEF ref
      <3> QED
        BY <1>typed, <2>1, <2>4, <2>5, <2>6, <3>3, <3>4, <3>5, <3>6, MessageStep
    <2>7. CASE Retried(d, o) /\ TryAgain(d)
      <3>1. handler[d].left > 1 /\ UNCHANGED inflight
        BY <2>7 DEF Retried, TryAgain
      <3>2. handler[d].ref # NoRef => handler[d].ref[1] = d
        BY <1>0 DEF RefsOwn
      <3> QED
        BY <1>8, <1>typed, <2>1, <2>4, <2>5, <2>7, <3>1, <3>2, MessageStep
    <2>8. CASE Return(d, NoRef)
      BY <1>6, <2>1, <2>4, <2>5, <2>8
    <2> QED
      BY <2>3, <2>6, <2>7, <2>8
  <1>10. ASSUME NEW d \in Deliveries, Dispatch(d) PROVE IngressInductive'
    <2> DEFINE ref == handler[d].ref
    <2>1. /\ handler[d].pc = "dispatching" /\ ref \in Refs /\ ref[1] = d
          /\ UNCHANGED <<ticks, seen, lastSweep, concurrency, poll, reported, reboots>>
      BY <1>0, <1>10, HandlerType DEF Dispatch, RefsOwn
    <2>2. PICK o \in Outcomes :
          /\ o.answer = "ok" => o.reached /\ workflow[ref] = "planned"
          /\ workflow' = IF o.reached /\ workflow[ref] = "planned"
                         THEN [workflow EXCEPT ![ref] = "running"]
                         ELSE workflow
          /\ IF Retried(d, o) THEN TryAgain(d) ELSE Return(d, GoesOnWith(ref, o))
      BY <1>10 DEF Dispatch
    <2>3. workflow' \in [Refs -> {"none", "planned", "running", "succeeded", "failed"}]
      BY <1>0, <2>2 DEF IngressTypeOK
    <2>4. \A r \in Refs : workflow'[r] \in Started =>
             (r[1] # d /\ workflow[r] \in Started) \/ (r[1] = d /\ r = ref)
      BY <1>0, <2>1, <2>2 DEF IngressTypeOK, RunsHeld, Started
    <2>5. ref # NoRef
      BY <1>0, <2>1 DEF RefsOwn
    <2>6. CASE Retried(d, o) /\ TryAgain(d)
      <3>1. handler[d].left > 1 /\ UNCHANGED inflight
        BY <2>6 DEF Retried, TryAgain
      <3>2. /\ handler' \in [Deliveries -> HandlerRecord]
            /\ \A q \in Deliveries : q # d => handler'[q] = handler[q]
            /\ handler'[d].pc = "dispatching" /\ handler'[d].ref = ref
            /\ handler'[d].at = handler[d].at /\ handler'[d].boot = handler[d].boot
            /\ Taken(d)' => Taken(d)
        BY <1>8, <2>1, <2>6, <3>1
      <3> QED
        BY <1>typed, <2>1, <2>3, <2>4, <2>5, <3>1, <3>2, MessageStep
    <2>7. CASE Return(d, ref)
      <3>1. handler[d] \in HandlerRecord
        BY <1>0, HandlerType
      <3>2. handler' = [handler EXCEPT ![d] = [handler[d] EXCEPT !.pc = "replying", !.ref = ref]]
        BY <1>0, <2>7 DEF Return, IngressTypeOK
      <3>3. /\ handler'[d] \in HandlerRecord
            /\ handler'[d].pc = "replying" /\ handler'[d].ref = ref
            /\ handler'[d].at = handler[d].at /\ handler'[d].boot = handler[d].boot
        <4>1. handler'[d] = [handler[d] EXCEPT !.pc = "replying", !.ref = ref]
          BY <1>0, <3>2 DEF IngressTypeOK
        <4> QED
          BY <2>1, <3>1, <4>1 DEF HandlerRecord, HandlerSteps
      <3>4. /\ handler' \in [Deliveries -> HandlerRecord]
            /\ \A q \in Deliveries : q # d => handler'[q] = handler[q]
        BY <1>0, <3>2, <3>3 DEF IngressTypeOK
      <3>5. Taken(d)' => Taken(d)
        BY <2>1 DEF Taken
      <3>6. concurrency' \in Int /\ inflight' \in Int
        BY <1>typed, <2>1, <2>7 DEF Return
      <3> QED
        BY <2>1, <2>3, <2>4, <2>5, <3>3, <3>4, <3>5, <3>6, MessageStep
    <2> QED
      BY <2>2, <2>6, <2>7 DEF GoesOnWith
  \* The reply, the poll and the end of a run.
  <1>11. ASSUME NEW d \in Deliveries, Reply(d) PROVE IngressInductive'
    <2>1. /\ handler[d].pc = "replying"
          /\ UNCHANGED <<ticks, seen, lastSweep, inflight, workflow, reported, reboots>>
          /\ poll' = IF handler[d].ref # NoRef
                     THEN [poll EXCEPT ![d] = [ref |-> handler[d].ref, left |-> Polls]]
                     ELSE poll
          /\ concurrency' \in Int
      BY <1>11, <1>typed DEF Reply, Polled
    <2>2. handler[d] \in HandlerRecord /\ handler[d].ref \in Refs \cup {NoRef}
      BY <1>0, HandlerType
    <2>3. handler' = [handler EXCEPT ![d] = [handler[d] EXCEPT !.pc = "done"]]
      BY <1>0, <1>11 DEF Reply, IngressTypeOK
    <2>4. handler'[d] = [handler[d] EXCEPT !.pc = "done"]
      BY <1>0, <2>3 DEF IngressTypeOK
    <2>5. /\ handler'[d] \in HandlerRecord
          /\ handler'[d].pc = "done" /\ handler'[d].ref = handler[d].ref
          /\ handler'[d].at = handler[d].at /\ handler'[d].boot = handler[d].boot
      BY <2>2, <2>4 DEF HandlerRecord, HandlerSteps
    <2>6. /\ handler' \in [Deliveries -> HandlerRecord]
          /\ \A o \in Deliveries : o # d => handler'[o] = handler[o]
      BY <1>0, <2>3, <2>5 DEF IngressTypeOK
    <2>7. poll' \in [Deliveries -> [ref: Refs \cup {NoRef}, left: Nat]]
      BY <1>0, <1>typed, <2>1, <2>2 DEF IngressTypeOK
    <2>8. IngressTypeOK'
      BY <1>0, <2>1, <2>6, <2>7 DEF IngressTypeOK
    <2>9. StampsPast' /\ TakenRemembered' /\ HandledOnce'
      <3>1. \A o \in Deliveries : /\ handler'[o].at = handler[o].at
                                  /\ handler'[o].boot = handler[o].boot
                                  /\ Taken(o)' => Taken(o)
        BY <2>1, <2>5, <2>6 DEF Taken
      <3> QED
        BY <1>typed, <2>1, <3>1, MarksKept
    <2>10. RefsOwn'
      BY <1>0, <2>5, <2>6 DEF RefsOwn
    <2>11. RunsHeld'
      <3> SUFFICES ASSUME NEW r \in Refs, workflow[r] \in {"running", "succeeded", "failed"}
                   PROVE  /\ handler'[r[1]].pc \in {"dispatching", "replying", "done", "lost"}
                          /\ handler'[r[1]].ref = r
        BY <2>1 DEF RunsHeld
      <3>1. r[1] \in Deliveries
        BY DEF Refs
      <3> QED
        BY <1>0, <2>5, <2>6, <3>1 DEF RunsHeld
    <2>12. DonePolled'
      <3>1. \A o \in Deliveries : o # d => poll'[o] = poll[o]
        BY <1>0, <2>1 DEF IngressTypeOK
      <3>2. handler[d].ref # NoRef => poll'[d].ref = handler[d].ref
        BY <1>0, <2>1 DEF IngressTypeOK
      <3> QED
        BY <1>0, <2>1, <2>5, <2>6, <3>1, <3>2 DEF DonePolled
    <2> QED
      BY <2>8, <2>9, <2>10, <2>11, <2>12 DEF IngressInductive
  <1>12. ASSUME NEW d \in Deliveries, Poll(d) PROVE IngressInductive'
    <2>1. UNCHANGED <<ticks, seen, lastSweep, concurrency, inflight, handler, workflow, reboots>>
      BY <1>12 DEF Poll
    <2>2. poll[d] \in [ref: Refs \cup {NoRef}, left: Nat]
      BY <1>0 DEF IngressTypeOK
    <2>3. /\ \A o \in Deliveries : o # d => poll'[o] = poll[o]
          /\ poll' \in [Deliveries -> [ref: Refs \cup {NoRef}, left: Nat]]
          /\ reported \subseteq reported' /\ reported' \subseteq Deliveries
          /\ poll'[d].ref = poll[d].ref \/ d \in reported'
      <3>1. CASE poll' = [poll EXCEPT ![d] = NoPoll] /\ reported' = reported \cup {d}
        <4>1. NoPoll \in [ref: Refs \cup {NoRef}, left: Nat]
          BY DEF NoPoll
        <4> QED
          BY <1>0, <3>1, <4>1 DEF IngressTypeOK
      <3>2. CASE /\ poll[d].left > 1
                 /\ poll' = [poll EXCEPT ![d].left = poll[d].left - 1]
                 /\ UNCHANGED reported
        <4>1. poll' = [poll EXCEPT ![d] = [poll[d] EXCEPT !.left = poll[d].left - 1]]
          BY <1>0, <3>2 DEF IngressTypeOK
        <4>2. poll'[d] = [poll[d] EXCEPT !.left = poll[d].left - 1]
          BY <1>0, <4>1 DEF IngressTypeOK
        <4>3. /\ poll'[d].ref = poll[d].ref
              /\ poll'[d] \in [ref: Refs \cup {NoRef}, left: Nat]
          BY <2>2, <3>2, <4>2
        <4> QED
          BY <1>0, <3>2, <4>1, <4>3 DEF IngressTypeOK
      <3> QED
        BY <1>12, <3>1, <3>2 DEF Poll
    <2>4. IngressTypeOK'
      BY <1>0, <2>1, <2>3 DEF IngressTypeOK
    <2>5. StampsPast' /\ TakenRemembered' /\ HandledOnce'
      BY <1>0, <2>1 DEF StampsPast, TakenRemembered, HandledOnce, Taken
    <2>6. RefsOwn' /\ RunsHeld'
      BY <1>0, <2>1 DEF RefsOwn, RunsHeld
    <2>7. DonePolled'
      BY <1>0, <2>1, <2>3 DEF DonePolled
    <2> QED
      BY <2>4, <2>5, <2>6, <2>7 DEF IngressInductive
  <1>13. ASSUME NEW r \in Refs, RunEnds(r) PROVE IngressInductive'
    <2>1. /\ UNCHANGED <<ticks, seen, lastSweep, concurrency, inflight, handler, poll, reported,
                         reboots>>
          /\ workflow[r] = "running"
      BY <1>13 DEF RunEnds
    <2>2. PICK s \in {"succeeded", "failed"} : workflow' = [workflow EXCEPT ![r] = s]
      BY <1>13 DEF RunEnds
    <2>3. IngressTypeOK'
      BY <1>0, <2>1, <2>2 DEF IngressTypeOK
    <2>4. StampsPast' /\ TakenRemembered' /\ HandledOnce'
      BY <1>0, <2>1 DEF StampsPast, TakenRemembered, HandledOnce, Taken
    <2>5. RefsOwn' /\ DonePolled'
      BY <1>0, <2>1 DEF RefsOwn, DonePolled
    <2>6. RunsHeld'
      <3>1. \A q \in Refs : workflow'[q] \in Started => workflow[q] \in Started
        BY <1>0, <2>1, <2>2 DEF IngressTypeOK, Started
      <3> QED
        BY <1>0, <2>1, <3>1 DEF RunsHeld, Started
    <2> QED
      BY <2>3, <2>4, <2>5, <2>6 DEF IngressInductive
  \* The clock, and a restart.
  <1>14. CASE IngressTick
    <2>1. /\ ticks' = ticks + 1
          /\ UNCHANGED <<seen, lastSweep, concurrency, inflight, handler, poll, workflow,
                         reported, reboots>>
      BY <1>14 DEF IngressTick
    <2>2. IngressTypeOK'
      BY <1>0, <1>typed, <2>1 DEF IngressTypeOK
    <2>3. StampsPast' /\ TakenRemembered' /\ HandledOnce'
      BY <1>typed, <2>1, MarksKept DEF Taken
    <2>4. RefsOwn' /\ RunsHeld' /\ DonePolled'
      BY <1>0, <2>1 DEF RefsOwn, RunsHeld, DonePolled
    <2> QED
      BY <2>2, <2>3, <2>4 DEF IngressInductive
  <1>15. CASE Reboot
    <2>1. /\ reboots' = reboots + 1 /\ seen' = <<>> /\ lastSweep' = 0
          /\ concurrency' = 0 /\ inflight' = 0
          /\ poll' = [d \in Deliveries |-> NoPoll]
          /\ UNCHANGED <<ticks, workflow, reported>>
          /\ handler' = [d \in Deliveries |->
                           IF Handling(d) THEN [handler[d] EXCEPT !.pc = "lost"]
                           ELSE IF handler[d].pc = "received"
                           THEN [handler[d] EXCEPT !.pc = "dropped"]
                           ELSE handler[d]]
      BY <1>15 DEF Reboot
    <2>2. ASSUME NEW d \in Deliveries
          PROVE  /\ handler'[d] \in HandlerRecord
                 /\ handler'[d].left = handler[d].left /\ handler'[d].ref = handler[d].ref
                 /\ handler'[d].at = handler[d].at /\ handler'[d].boot = handler[d].boot
                 /\ handler'[d].pc = IF Handling(d) THEN "lost"
                                     ELSE IF handler[d].pc = "received" THEN "dropped"
                                     ELSE handler[d].pc
      <3>1. handler[d] \in HandlerRecord
        BY <1>0, HandlerType
      <3>2. CASE Handling(d)
        BY <2>1, <3>1, <3>2 DEF HandlerRecord, HandlerSteps
      <3>3. CASE ~Handling(d) /\ handler[d].pc = "received"
        BY <2>1, <3>1, <3>3 DEF HandlerRecord, HandlerSteps
      <3>4. CASE ~Handling(d) /\ handler[d].pc # "received"
        BY <2>1, <3>1, <3>4
      <3> QED
        BY <3>2, <3>3, <3>4
    <2>3. handler' \in [Deliveries -> HandlerRecord]
      BY <2>1, <2>2
    <2>4. NoPoll \in [ref: Refs \cup {NoRef}, left: Nat]
      BY DEF NoPoll
    <2>5. IngressTypeOK'
      <3>1. poll' \in [Deliveries -> [ref: Refs \cup {NoRef}, left: Nat]]
        BY <2>1, <2>4
      <3>2. ticks' \in Nat /\ lastSweep' \in Nat /\ reboots' \in Nat
        BY <1>typed, <2>1
      <3> QED
        BY <1>0, <2>1, <2>3, <3>1, <3>2 DEF IngressTypeOK
    <2>6. \A d \in Deliveries : handler[d].boot \in Nat /\ handler[d].boot <= reboots
      BY <1>0, HandlerType DEF StampsPast
    <2>7. StampsPast' /\ TakenRemembered'
      <3>1. \A d \in Deliveries : handler'[d].boot # reboots' /\ handler'[d].boot <= reboots'
        BY <1>typed, <2>1, <2>2, <2>6
      <3>2. \A d \in Deliveries : handler'[d].at <= ticks
        BY <1>0, <2>2 DEF StampsPast
      <3> QED
        BY <2>1, <3>1, <3>2 DEF StampsPast, TakenRemembered
    <2>8. HandledOnce'
      <3>1. \A d \in Deliveries : Taken(d)' => Taken(d)
        BY <2>2 DEF Taken, Handling, Processing
      <3> QED
        BY <1>0, <2>2, <3>1 DEF HandledOnce
    <2>9. RefsOwn'
      BY <1>0, <2>2 DEF RefsOwn, Handling, Processing
    <2>10. RunsHeld'
      <3> SUFFICES ASSUME NEW r \in Refs, workflow[r] \in {"running", "succeeded", "failed"}
                   PROVE  /\ handler'[r[1]].pc \in {"dispatching", "replying", "done", "lost"}
                          /\ handler'[r[1]].ref = r
        BY <2>1 DEF RunsHeld
      <3>1. r[1] \in Deliveries
        BY DEF Refs
      <3> QED
        BY <1>0, <2>2, <3>1 DEF RunsHeld
    <2>11. DonePolled'
      BY <1>typed, <2>1, <2>2, <2>6 DEF DonePolled
    <2> QED
      BY <2>5, <2>7, <2>8, <2>9, <2>10, <2>11 DEF IngressInductive
  <1>16. CASE UNCHANGED ingressVars
    <2>1. UNCHANGED <<ticks, seen, lastSweep, concurrency, inflight, handler, poll, workflow,
                      reported, reboots>>
      BY <1>16 DEF ingressVars
    <2> QED
      BY <1>0, <2>1 DEF IngressInductive, IngressTypeOK, StampsPast, TakenRemembered, RefsOwn,
         RunsHeld, DonePolled, HandledOnce, Taken
  <1> QED
    BY <1>1, <1>2, <1>3, <1>4, <1>5, <1>7, <1>9, <1>10, <1>11, <1>12, <1>13, <1>14, <1>15, <1>16
       DEF IngressNext

\* Handlers, polls and the workflows made for messages keep their types.
THEOREM IngressTypeCorrect == IngressSpec => []IngressTypeOK
  <1>1. IngressInductive => IngressTypeOK
    BY DEF IngressInductive
  <1> QED
    BY <1>1, InitIngress, NextIngress, PTL DEF IngressSpec

\* A message is handled once while its mark lives, and the workflow it started
\* is followed to its end.
THEOREM DeliveredOnceAlways == IngressSpec => []DeliveredOnce
  <1>1. IngressInductive => DeliveredOnce
    <2> SUFFICES ASSUME IngressInductive PROVE RunIsFollowed
      BY DEF IngressInductive, DeliveredOnce
    <2> SUFFICES ASSUME NEW r \in Refs, workflow[r] \in {"running", "succeeded", "failed"},
                        handler[r[1]].boot = reboots,
                        handler[r[1]].pc \notin {"dispatching", "replying"}
                 PROVE  poll[r[1]].ref = r \/ r[1] \in reported
      BY DEF RunIsFollowed
    <2>1. r[1] \in Deliveries /\ r # NoRef
      BY DEF Refs, NoRef
    <2>2. handler[r[1]].pc \in {"done", "lost"} /\ handler[r[1]].ref = r
      BY DEF IngressInductive, RunsHeld
    <2>3. handler[r[1]].boot \in Nat
      BY <2>1, HandlerType DEF IngressInductive
    <2> QED
      BY <2>1, <2>2, <2>3 DEF IngressInductive, DonePolled
  <1> QED
    BY <1>1, InitIngress, NextIngress, PTL DEF IngressSpec

-----------------------------------------------------------------------------
(* Quotas *)

QuotaTypeOK ==
    /\ TypeOK
    /\ \A s \in Scopes : usage[s].day <= Today

\* No two entries of the cache have a key.
OneAnswer == \A i, j \in DOMAIN cache : cache[i].key = cache[j].key => i = j

\* The last deduction of a key is in the cache for its time to live.
DeductionsCached ==
    \A k \in Keys : deducted[k] # None =>
        /\ deducted[k] <= now
        /\ \/ k \in forgotten
           \/ now > deducted[k] + TTL
           \/ \E i \in DOMAIN cache : cache[i].key = k /\ cache[i].expiresAt >= deducted[k] + TTL

QuotaInductive ==
    /\ QuotaTypeOK
    /\ DailyUseCounted
    /\ OneAnswer
    /\ DeductionsCached

LEMMA DayFacts ==
    ASSUME NEW n \in Nat
    PROVE  /\ n \div DayLength \in Nat /\ n \div DayLength <= (n + 1) \div DayLength
           /\ 0 \div DayLength = 0
  <1>1. DayLength \in Nat \ {0}
    BY QuotaAssumption
  <1> QED
    BY <1>1, SMT

LEMMA InitQuota == Init => QuotaInductive
  <1> SUFFICES ASSUME Init PROVE QuotaInductive
    OBVIOUS
  <1>1. Zero \in [Resources -> Nat] /\ \A r \in Resources : Zero[r] = 0
    BY DEF Zero
  <1>2. Today = 0
    BY DayFacts DEF Init, Today
  <1>3. TypeOK
    <2>1. /\ cache = <<>> /\ writes = <<>> /\ cache \in Seq(Entry)
          /\ writes \in Seq([scope : Scopes, row : Quota])
      BY DEF Init
    <2> QED
      BY <1>1, <2>1, QuotaAssumption DEF Init, TypeOK
  <1>4. \A q \in Scopes : usage[q].day = Today /\ usage[q].used = Zero /\ taken[q] = Zero
    BY <1>2 DEF Init
  <1>5. QuotaTypeOK /\ DailyUseCounted
    BY <1>2, <1>3, <1>4 DEF QuotaTypeOK, DailyUseCounted, CurrentUsage
  <1>6. OneAnswer /\ DeductionsCached
    BY DEF Init, OneAnswer, DeductionsCached
  <1> QED
    BY <1>5, <1>6 DEF QuotaInductive

\* What a scope uses is a record of today.
LEMMA UsedToday ==
    ASSUME TypeOK, NEW q \in Scopes
    PROVE  /\ CurrentUsage(q) \in [day : Nat, used : [Resources -> Nat]]
           /\ CurrentUsage(q).day = Today
  <1>1. Today \in Nat /\ usage[q] \in [day : Nat, used : [Resources -> Nat]]
    BY DayFacts, QuotaAssumption DEF TypeOK, Today
  <1> QED
    BY <1>1 DEF CurrentUsage, Zero

\* A step that neither counts nor ends a day.
LEMMA UsageKept ==
    ASSUME QuotaInductive, UNCHANGED <<now, taken, crashes>>,
           \A q \in Scopes : usage'[q] = usage[q] \/ usage'[q] = CurrentUsage(q)
    PROVE  DailyUseCounted' /\ \A q \in Scopes : usage'[q].day <= Today'
  <1>1. TypeOK /\ DailyUseCounted /\ \A q \in Scopes : usage[q].day <= Today
    BY DEF QuotaInductive, QuotaTypeOK
  <1>2. Today' = Today /\ Today \in Nat
    BY <1>1, DayFacts DEF Today, TypeOK
  <1>3. \A q \in Scopes : CurrentUsage(q).day = Today
    BY <1>1, UsedToday
  <1>4. ASSUME NEW q \in Scopes PROVE CurrentUsage(q)' = CurrentUsage(q)
    BY <1>2, <1>3 DEF CurrentUsage
  <1>5. DailyUseCounted'
    BY <1>1, <1>4 DEF DailyUseCounted
  <1> QED
    BY <1>1, <1>2, <1>3, <1>5

\* A step that leaves the answers and the deductions alone.
LEMMA AnswersKept ==
    ASSUME QuotaInductive, UNCHANGED <<cache, deducted, forgotten>>, now' \in Nat, now' >= now
    PROVE  OneAnswer' /\ DeductionsCached'
  <1>1. TTL \in Nat /\ now \in Nat /\ \A k \in Keys : deducted[k] # None => deducted[k] \in Nat
    BY QuotaAssumption DEF QuotaInductive, QuotaTypeOK, TypeOK
  <1> QED
    BY <1>1 DEF QuotaInductive, OneAnswer, DeductionsCached

-----------------------------------------------------------------------------
(* The cache of answers *)

LEMMA RemoveAtEntries ==
    ASSUME NEW S, NEW q \in Seq(S), NEW i \in 1..Len(q)
    PROVE  /\ RemoveAt(q, i) \in Seq(S)
           /\ Len(RemoveAt(q, i)) = Len(q) - 1
           /\ \A j \in 1..(Len(q) - 1) : RemoveAt(q, i)[j] = IF j < i THEN q[j] ELSE q[j + 1]
  <1> DEFINE a == SubSeq(q, 1, i - 1)
  <1> DEFINE b == SubSeq(q, i + 1, Len(q))
  <1>0. Len(q) \in Nat
    OBVIOUS
  <1>1. a \in Seq(S) /\ Len(a) = i - 1 /\ \A j \in 1..(i - 1) : a[j] = q[j]
    BY <1>0
  <1>2. b \in Seq(S) /\ Len(b) = Len(q) - i /\ \A j \in 1..(Len(q) - i) : b[j] = q[i + j]
    BY <1>0
  <1>3. RemoveAt(q, i) = a \o b
    BY DEF RemoveAt
  <1> HIDE DEF a, b
  <1>4. /\ a \o b \in Seq(S) /\ Len(a \o b) = Len(a) + Len(b)
        /\ \A j \in 1..(Len(a) + Len(b)) :
              (a \o b)[j] = IF j <= Len(a) THEN a[j] ELSE b[j - Len(a)]
    BY <1>1, <1>2, ConcatProperties
  <1>5. Len(a) + Len(b) = Len(q) - 1 /\ i \in Nat
    BY <1>0, <1>1, <1>2
  <1>6. ASSUME NEW j \in 1..(Len(q) - 1)
        PROVE  RemoveAt(q, i)[j] = IF j < i THEN q[j] ELSE q[j + 1]
    <2>1. CASE j < i
      <3>1. j \in 1..(i - 1) /\ j <= Len(a) /\ j \in 1..(Len(a) + Len(b))
        BY <1>0, <1>1, <1>5, <2>1
      <3>2. (a \o b)[j] = a[j] /\ a[j] = q[j]
        BY <1>1, <1>4, <3>1
      <3> QED
        BY <1>3, <2>1, <3>2
    <2>2. CASE ~(j < i)
      <3>1. /\ ~(j <= Len(a)) /\ j \in 1..(Len(a) + Len(b))
            /\ j - Len(a) \in 1..(Len(q) - i) /\ i + (j - Len(a)) = j + 1
        BY <1>0, <1>1, <1>5, <2>2
      <3>2. (a \o b)[j] = b[j - Len(a)] /\ b[j - Len(a)] = q[j + 1]
        BY <1>2, <1>4, <3>1
      <3> QED
        BY <1>3, <2>2, <3>2
    <2> QED
      BY <2>1, <2>2
  <1> QED
    BY <1>3, <1>4, <1>5, <1>6

\* Without loses the entry of the key and no other.
LEMMA WithoutKey ==
    ASSUME cache \in Seq(Entry), OneAnswer, NEW k \in Keys
    PROVE  /\ Without(k) \in Seq(Entry)
           /\ \A j \in 1..Len(Without(k)) : Without(k)[j].key # k
           /\ \A i, j \in 1..Len(Without(k)) : Without(k)[i].key = Without(k)[j].key => i = j
           /\ \A i \in 1..Len(cache) : cache[i].key # k =>
                 \E j \in 1..Len(Without(k)) : Without(k)[j] = cache[i]
  <1>0. Len(cache) \in Nat /\ DOMAIN cache = 1..Len(cache)
    OBVIOUS
  <1>1. CASE ~\E i \in DOMAIN cache : cache[i].key = k
    <2>1. Without(k) = cache
      BY <1>1 DEF Without
    <2> QED
      BY <1>0, <1>1, <2>1 DEF OneAnswer
  <1>2. CASE \E i \in DOMAIN cache : cache[i].key = k
    <2> DEFINE c == CHOOSE i \in DOMAIN cache : cache[i].key = k
    <2>1. c \in 1..Len(cache) /\ cache[c].key = k
      BY <1>0, <1>2
    <2>2. Without(k) = RemoveAt(cache, c)
      BY <1>2 DEF Without
    <2> HIDE DEF c
    <2> DEFINE w == RemoveAt(cache, c)
    <2>3. /\ w \in Seq(Entry) /\ Len(w) = Len(cache) - 1
          /\ \A j \in 1..(Len(cache) - 1) : w[j] = IF j < c THEN cache[j] ELSE cache[j + 1]
      BY <2>1, RemoveAtEntries
    <2> HIDE DEF w
    <2>4. \A i, j \in 1..Len(cache) : cache[i].key = cache[j].key => i = j
      BY <1>0 DEF OneAnswer
    <2>5. \A j \in 1..Len(w) : w[j].key # k
      BY <1>0, <2>1, <2>3, <2>4
    <2>6. \A i, j \in 1..Len(w) : w[i].key = w[j].key => i = j
      <3> SUFFICES ASSUME NEW i \in 1..Len(w), NEW j \in 1..Len(w), w[i].key = w[j].key PROVE i = j
        OBVIOUS
      <3>1. /\ w[i] = cache[IF i < c THEN i ELSE i + 1]
            /\ w[j] = cache[IF j < c THEN j ELSE j + 1]
        BY <1>0, <2>1, <2>3
      <3>2. /\ (IF i < c THEN i ELSE i + 1) \in 1..Len(cache)
            /\ (IF j < c THEN j ELSE j + 1) \in 1..Len(cache)
        BY <1>0, <2>1, <2>3
      <3>3. (IF i < c THEN i ELSE i + 1) = (IF j < c THEN j ELSE j + 1)
        BY <2>4, <3>1, <3>2
      <3> QED
        BY <1>0, <2>1, <2>3, <3>3
    <2>7. ASSUME NEW i \in 1..Len(cache), cache[i].key # k
          PROVE  \E j \in 1..Len(w) : w[j] = cache[i]
      <3>1. i # c
        BY <2>1, <2>7
      <3>2. CASE i < c
        <4>1. i \in 1..Len(w) /\ w[i] = cache[i]
          BY <1>0, <2>1, <2>3, <3>2
        <4> QED
          BY <4>1
      <3>3. CASE i > c
        <4>1. i - 1 \in 1..Len(w) /\ w[i - 1] = cache[i]
          BY <1>0, <2>1, <2>3, <3>3
        <4> QED
          BY <4>1
      <3> QED
        BY <2>1, <3>1, <3>2, <3>3
    <2>8. Without(k) = w
      BY <2>2 DEF w
    <2> QED
      BY <2>3, <2>5, <2>6, <2>7, <2>8
  <1> QED
    BY <1>1, <1>2

\* A new answer joins the answers to the other keys.
LEMMA NewAnswer ==
    ASSUME TypeOK, OneAnswer, NEW k \in Keys, NEW ok \in BOOLEAN
    PROVE  /\ WithAnswer(k, ok) \in Seq(Entry) /\ Len(WithAnswer(k, ok)) > 0
           /\ WithAnswer(k, ok)[Len(WithAnswer(k, ok))].key = k
           /\ WithAnswer(k, ok)[Len(WithAnswer(k, ok))].expiresAt = now + TTL
           /\ \A i, j \in 1..Len(WithAnswer(k, ok)) :
                 WithAnswer(k, ok)[i].key = WithAnswer(k, ok)[j].key => i = j
           /\ \A i \in 1..Len(cache) : cache[i].key # k =>
                 \E j \in 1..Len(WithAnswer(k, ok)) : WithAnswer(k, ok)[j] = cache[i]
  <1> DEFINE e == [key |-> k, ok |-> ok, expiresAt |-> now + TTL]
  <1> DEFINE w == Without(k)
  <1>1. e \in Entry /\ e.key = k /\ e.expiresAt = now + TTL
    BY QuotaAssumption DEF TypeOK, Entry
  <1>2. /\ w \in Seq(Entry)
        /\ \A j \in 1..Len(w) : w[j].key # k
        /\ \A i, j \in 1..Len(w) : w[i].key = w[j].key => i = j
        /\ \A i \in 1..Len(cache) : cache[i].key # k => \E j \in 1..Len(w) : w[j] = cache[i]
    BY WithoutKey DEF TypeOK
  <1>3. WithAnswer(k, ok) = Append(w, e)
    BY DEF WithAnswer
  <1> HIDE DEF e, w
  <1>4. /\ Append(w, e) \in Seq(Entry) /\ Len(Append(w, e)) = Len(w) + 1 /\ Len(w) \in Nat
        /\ \A j \in 1..Len(w) : Append(w, e)[j] = w[j]
        /\ Append(w, e)[Len(w) + 1] = e
    BY <1>1, <1>2
  <1> DEFINE a == Append(w, e)
  <1> DEFINE n == Len(w)
  <1> HIDE DEF a, n
  <1>7. /\ a = Append(w, e) /\ n = Len(w) /\ n \in Nat
        /\ \A j \in 1..n : a[j] = w[j]
        /\ a[n + 1] = e
    BY <1>4 DEF a, n
  <1>8. \A j \in 1..(n + 1) : j \in 1..n \/ j = n + 1
    BY <1>7
  <1>9. \A j \in 1..n : j \in 1..(n + 1)
    BY <1>7
  <1>5. \A i, j \in 1..(Len(w) + 1) : Append(w, e)[i].key = Append(w, e)[j].key => i = j
    <2>1. SUFFICES ASSUME NEW i \in 1..(n + 1), NEW j \in 1..(n + 1), a[i].key = a[j].key
                   PROVE  i = j
      BY <1>7
    <2>2. CASE i \in 1..n /\ j \in 1..n
      BY <1>2, <1>7, <2>1, <2>2
    <2>3. CASE i = n + 1 /\ j \in 1..n
      BY <1>1, <1>2, <1>7, <2>1, <2>3
    <2>4. CASE i \in 1..n /\ j = n + 1
      BY <1>1, <1>2, <1>7, <2>1, <2>4
    <2> QED
      BY <1>8, <2>2, <2>3, <2>4
  <1>6. \A i \in 1..Len(cache) : cache[i].key # k =>
           \E j \in 1..(Len(w) + 1) : Append(w, e)[j] = cache[i]
    <2>1. SUFFICES ASSUME NEW i \in 1..Len(cache), cache[i].key # k
                   PROVE  \E j \in 1..(n + 1) : a[j] = cache[i]
      BY <1>7
    <2>2. PICK j \in 1..n : w[j] = cache[i]
      BY <1>2, <1>7, <2>1
    <2> QED
      BY <1>7, <1>9, <2>2
  <1> QED
    BY <1>1, <1>3, <1>4, <1>5, <1>6

\* A refusal may lose the oldest answer, and no other.
LEMMA NewRefusal ==
    ASSUME TypeOK, OneAnswer, NEW k \in Keys
    PROVE  /\ Refused(k) \in Seq(Entry)
           /\ \A i, j \in 1..Len(Refused(k)) : Refused(k)[i].key = Refused(k)[j].key => i = j
           /\ \E j \in 1..Len(Refused(k)) :
                 Refused(k)[j].key = k /\ Refused(k)[j].expiresAt = now + TTL
           /\ \A i \in 1..Len(cache) : cache[i].key # k =>
                 \/ \E j \in 1..Len(Refused(k)) : Refused(k)[j] = cache[i]
                 \/ cache[i].key \notin KeysOf(Refused(k))
  <1> DEFINE a == WithAnswer(k, FALSE)
  <1>1. /\ a \in Seq(Entry) /\ Len(a) > 0 /\ Len(a) \in Nat
        /\ a[Len(a)].key = k /\ a[Len(a)].expiresAt = now + TTL
        /\ \A i, j \in 1..Len(a) : a[i].key = a[j].key => i = j
        /\ \A i \in 1..Len(cache) : cache[i].key # k => \E j \in 1..Len(a) : a[j] = cache[i]
    <2>1. FALSE \in BOOLEAN
      OBVIOUS
    <2>2. /\ a \in Seq(Entry) /\ Len(a) > 0
          /\ a[Len(a)].key = k /\ a[Len(a)].expiresAt = now + TTL
          /\ \A i, j \in 1..Len(a) : a[i].key = a[j].key => i = j
          /\ \A i \in 1..Len(cache) : cache[i].key # k => \E j \in 1..Len(a) : a[j] = cache[i]
      BY <2>1, NewAnswer, Zenon
    <2> HIDE DEF a
    <2> QED
      BY <2>2
  <1>2. Refused(k) = IF Len(a) > CacheSize THEN Tail(a) ELSE a
    BY DEF Refused
  <1> HIDE DEF a
  <1>3. CASE Len(a) > CacheSize
    <2> DEFINE t == Tail(a)
    <2>1. CacheSize \in Nat \ {0}
      BY QuotaAssumption
    <2>2. /\ t \in Seq(Entry) /\ Len(t) = Len(a) - 1 /\ DOMAIN t = 1..Len(t)
          /\ \A i \in 1..(Len(a) - 1) : t[i] = a[i + 1]
      BY <1>1
    <2>3. Refused(k) = t
      BY <1>2, <1>3
    <2> HIDE DEF t
    <2>4. \A i, j \in 1..Len(t) : t[i].key = t[j].key => i = j
      <3> SUFFICES ASSUME NEW i \in 1..Len(t), NEW j \in 1..Len(t), t[i].key = t[j].key PROVE i = j
        OBVIOUS
      <3>1. t[i] = a[i + 1] /\ t[j] = a[j + 1] /\ i + 1 \in 1..Len(a) /\ j + 1 \in 1..Len(a)
        BY <1>1, <2>2
      <3>2. i + 1 = j + 1
        BY <1>1, <3>1
      <3> QED
        BY <1>1, <2>2, <3>2
    <2>5. Len(a) - 1 \in 1..Len(t) /\ t[Len(a) - 1] = a[Len(a)]
      BY <1>1, <1>3, <2>1, <2>2
    <2>6. ASSUME NEW i \in 1..Len(cache), cache[i].key # k
          PROVE  \/ \E j \in 1..Len(t) : t[j] = cache[i]
                 \/ cache[i].key \notin KeysOf(t)
      <3>1. PICK j \in 1..Len(a) : a[j] = cache[i]
        BY <1>1, <2>6
      <3>2. CASE j = 1
        <4>1. \A n \in 1..Len(t) : t[n].key # a[1].key
          BY <1>1, <2>2
        <4> QED
          BY <2>2, <3>1, <3>2, <4>1 DEF KeysOf
      <3>3. CASE j # 1
        <4>1. j - 1 \in 1..Len(t) /\ t[j - 1] = cache[i]
          BY <1>1, <2>2, <3>1, <3>3
        <4> QED
          BY <4>1
      <3> QED
        BY <3>2, <3>3
    <2> QED
      BY <1>1, <2>2, <2>3, <2>4, <2>5, <2>6
  <1>4. CASE ~(Len(a) > CacheSize)
    <2>1. Refused(k) = a /\ Len(a) \in 1..Len(a)
      BY <1>1, <1>2, <1>4
    <2> QED
      BY <1>1, <2>1
  <1> QED
    BY <1>3, <1>4

\* A step that neither consumes, releases, ends the day nor the process.
LEMMA CopyStep ==
    ASSUME QuotaInductive, TypeOK',
           UNCHANGED <<now, usage, cache, crashes, taken, deducted, forgotten>>
    PROVE  QuotaInductive'
  <1>1. DailyUseCounted' /\ \A q \in Scopes : usage'[q].day <= Today'
    BY UsageKept
  <1>2. OneAnswer' /\ DeductionsCached'
    <2>1. now' \in Nat /\ now' >= now
      BY DEF QuotaInductive, QuotaTypeOK, TypeOK
    <2> QED
      BY <2>1, AnswersKept
  <1> QED
    BY <1>1, <1>2 DEF QuotaInductive, QuotaTypeOK

\* The new day begins without use, the same day goes on.
LEMMA TickStep == ASSUME QuotaInductive, Tick PROVE QuotaInductive'
  <1>0. /\ TypeOK /\ DailyUseCounted /\ OneAnswer /\ DeductionsCached
        /\ \A q \in Scopes : usage[q].day <= Today
    BY DEF QuotaInductive, QuotaTypeOK
  <1>1. /\ now < MaxTime /\ now' = now + 1 /\ now \in Nat /\ MaxTime \in Nat
        /\ taken' = IF (now + 1) \div DayLength = Today THEN taken
                    ELSE [q \in Scopes |-> [r \in Resources |->
                                              IF r \in Held THEN taken[q][r] ELSE 0]]
        /\ UNCHANGED <<usage, cache, upserts, crashes, quota, db, pool, rows, writes, deducted,
                       forgotten>>
    BY <1>0, QuotaAssumption DEF Tick, TypeOK, store
  <1>2. taken' \in [Scopes -> [Resources -> Nat]]
    BY <1>0, <1>1 DEF TypeOK
  <1>3. TypeOK'
    BY <1>0, <1>1, <1>2 DEF TypeOK
  <1>4. Today \in Nat /\ Today <= Today' /\ Today' = (now + 1) \div DayLength /\ Today' \in Nat
    <2>1. now + 1 \in Nat
      BY <1>1
    <2> QED
      BY <1>1, <2>1, DayFacts DEF Today
  <1>5. \A q \in Scopes : usage[q].day \in Nat /\ usage[q].day <= Today'
    BY <1>0, <1>4 DEF TypeOK
  <1>6. DailyUseCounted'
    <2> SUFFICES ASSUME crashes = 0, NEW q \in Scopes, NEW r \in Resources \ Held
                 PROVE  CurrentUsage(q)'.used[r] = taken'[q][r]
      BY <1>1 DEF DailyUseCounted
    <2>1. CASE Today' = Today
      <3>1. CurrentUsage(q)' = CurrentUsage(q)
        BY <1>1, <2>1 DEF CurrentUsage
      <3>2. taken' = taken
        BY <1>1, <1>4, <2>1
      <3> QED
        BY <1>0, <3>1, <3>2 DEF DailyUseCounted
    <2>2. CASE Today' # Today
      <3>1. taken'[q][r] = 0
        BY <1>1, <1>4, <2>2
      <3>2. usage[q].day # Today'
        BY <1>0, <1>4, <1>5, <2>2
      <3>3. CurrentUsage(q)'.used[r] = 0
        BY <1>1, <3>2 DEF CurrentUsage, Zero
      <3> QED
        BY <3>1, <3>3
    <2> QED
      BY <2>1, <2>2
  <1>7. OneAnswer' /\ DeductionsCached'
    <2>1. now' \in Nat /\ now' >= now
      BY <1>1
    <2> QED
      BY <1>1, <2>1, AnswersKept
  <1> QED
    BY <1>1, <1>3, <1>5, <1>6, <1>7 DEF QuotaInductive, QuotaTypeOK

LEMMA CachedKeys == ASSUME TypeOK PROVE KeysOf(cache) \subseteq Keys
  <1>1. \A i \in DOMAIN cache : cache[i] \in Entry
    BY DEF TypeOK
  <1>2. \A i \in DOMAIN cache : cache[i].key \in Keys
    BY <1>1 DEF Entry
  <1> QED
    BY <1>2 DEF KeysOf

\* What a grant does to the uses of its scope.
LEMMA GrantStep ==
    ASSUME QuotaInductive, NEW q \in Scopes, NEW r \in Resources, NEW amount \in Nat,
           UNCHANGED <<now, crashes>>,
           usage' = [usage EXCEPT ![q] =
                       [CurrentUsage(q) EXCEPT !.used[r] = CurrentUsage(q).used[r] + amount]],
           taken' = [taken EXCEPT ![q][r] = taken[q][r] + amount]
    PROVE  /\ usage' \in [Scopes -> [day : Nat, used : [Resources -> Nat]]]
           /\ taken' \in [Scopes -> [Resources -> Nat]]
           /\ DailyUseCounted' /\ \A p \in Scopes : usage'[p].day <= Today'
  <1>0. /\ TypeOK /\ DailyUseCounted /\ \A p \in Scopes : usage[p].day <= Today
    BY DEF QuotaInductive, QuotaTypeOK
  <1>1. Today' = Today /\ Today \in Nat
    BY <1>0, DayFacts, QuotaAssumption DEF Today, TypeOK
  <1> DEFINE c == CurrentUsage(q)
  <1> DEFINE n == [c EXCEPT !.used[r] = c.used[r] + amount]
  <1>2. c \in [day : Nat, used : [Resources -> Nat]] /\ c.day = Today
    BY <1>0, UsedToday
  <1>3. /\ n \in [day : Nat, used : [Resources -> Nat]] /\ n.day = Today
        /\ \A o \in Resources : n.used[o] = IF o = r THEN c.used[r] + amount ELSE c.used[o]
    <2> HIDE DEF c
    <2>1. n = [c EXCEPT !.used = [c.used EXCEPT ![r] = c.used[r] + amount]]
      BY <1>2
    <2>2. [c.used EXCEPT ![r] = c.used[r] + amount] \in [Resources -> Nat]
      BY <1>2
    <2>3. n.used = [c.used EXCEPT ![r] = c.used[r] + amount] /\ n.day = c.day
      BY <1>2, <2>1
    <2> QED
      BY <1>2, <2>1, <2>2, <2>3
  <1>4. usage' = [usage EXCEPT ![q] = n]
    OBVIOUS
  <1> HIDE DEF n
  <1>5. /\ usage' \in [Scopes -> [day : Nat, used : [Resources -> Nat]]]
        /\ usage'[q] = n /\ \A p \in Scopes : p # q => usage'[p] = usage[p]
    BY <1>0, <1>3, <1>4 DEF TypeOK
  <1>6. taken[q] \in [Resources -> Nat]
    BY <1>0 DEF TypeOK
  <1>7. taken' = [taken EXCEPT ![q] = [taken[q] EXCEPT ![r] = taken[q][r] + amount]]
    BY <1>0 DEF TypeOK
  <1>8. /\ taken' \in [Scopes -> [Resources -> Nat]]
        /\ \A p \in Scopes : p # q => taken'[p] = taken[p]
        /\ \A o \in Resources : taken'[q][o] = IF o = r THEN taken[q][r] + amount ELSE taken[q][o]
    BY <1>0, <1>6, <1>7 DEF TypeOK
  <1>9. DailyUseCounted'
    <2> SUFFICES ASSUME crashes = 0, NEW p \in Scopes, NEW o \in Resources \ Held
                 PROVE  CurrentUsage(p)'.used[o] = taken'[p][o]
      BY DEF DailyUseCounted
    <2>1. CurrentUsage(p).used[o] = taken[p][o]
      BY <1>0 DEF DailyUseCounted
    <2>2. CASE p = q
      <3>1. CurrentUsage(p)' = n
        BY <1>1, <1>3, <1>5, <2>2 DEF CurrentUsage
      <3> QED
        BY <1>3, <1>8, <2>1, <2>2, <3>1
    <2>3. CASE p # q
      <3>1. CurrentUsage(p)' = CurrentUsage(p)
        BY <1>1, <1>5, <2>3 DEF CurrentUsage
      <3> QED
        BY <1>8, <2>1, <2>3, <3>1
    <2> QED
      BY <2>2, <2>3
  <1>10. \A p \in Scopes : usage'[p].day <= Today'
    BY <1>0, <1>1, <1>3, <1>5
  <1> QED
    BY <1>5, <1>8, <1>9, <1>10

\* What is held and given back is not part of the use of a day.
LEMMA ReleaseStep ==
    ASSUME QuotaInductive, NEW q \in Scopes, NEW r \in Resources, NEW amount \in Amounts,
           Release(q, r, amount)
    PROVE  QuotaInductive'
  <1>0. /\ TypeOK /\ DailyUseCounted /\ OneAnswer /\ DeductionsCached
        /\ \A p \in Scopes : usage[p].day <= Today
    BY DEF QuotaInductive, QuotaTypeOK
  <1> DEFINE c == CurrentUsage(q)
  <1> DEFINE u == AfterRelease(c.used, r, amount)
  <1> DEFINE n == [c EXCEPT !.used = u]
  <1>1. /\ amount <= taken[q][r] /\ amount \in Nat
        /\ usage' = [usage EXCEPT ![q] = n]
        /\ taken' = IF r \in Held THEN [taken EXCEPT ![q][r] = taken[q][r] - amount] ELSE taken
        /\ UNCHANGED <<now, cache, upserts, crashes, quota, db, pool, rows, writes, deducted,
                       forgotten>>
    BY <1>0 DEF Release, Amounts, store, TypeOK
  <1>2. Today' = Today /\ Today \in Nat
    BY <1>0, <1>1, DayFacts, QuotaAssumption DEF Today, TypeOK
  <1>3. c \in [day : Nat, used : [Resources -> Nat]] /\ c.day = Today
    BY <1>0, UsedToday
  <1> HIDE DEF c
  <1>4. /\ u \in [Resources -> Nat]
        /\ \A o \in Resources \ Held : u[o] = c.used[o]
    <2>1. CASE r \notin Held
      BY <1>3, <2>1 DEF AfterRelease
    <2>2. CASE r \in Held
      <3> DEFINE left == IF c.used[r] > amount THEN c.used[r] - amount ELSE 0
      <3>1. u = [c.used EXCEPT ![r] = left]
        BY <2>2 DEF AfterRelease
      <3>2. left \in Nat
        <4>1. c.used[r] \in Nat
          BY <1>3
        <4> QED
          BY <1>1, <4>1
      <3> HIDE DEF left, u
      <3>3. c.used \in [Resources -> Nat]
        BY <1>3
      <3>4. \A o \in Resources \ Held : o # r
        BY <2>2
      <3> QED
        BY <3>1, <3>2, <3>3, <3>4
    <2> QED
      BY <2>1, <2>2
  <1> HIDE DEF u
  <1>5. n \in [day : Nat, used : [Resources -> Nat]] /\ n.day = Today /\ n.used = u
    BY <1>3, <1>4
  <1> HIDE DEF n
  <1>6. /\ usage' \in [Scopes -> [day : Nat, used : [Resources -> Nat]]]
        /\ usage'[q] = n /\ \A p \in Scopes : p # q => usage'[p] = usage[p]
    BY <1>0, <1>1, <1>5 DEF TypeOK
  <1>7. /\ taken' \in [Scopes -> [Resources -> Nat]]
        /\ \A p \in Scopes : \A o \in Resources \ Held : taken'[p][o] = taken[p][o]
    <2>1. CASE r \notin Held
      BY <1>0, <1>1, <2>1 DEF TypeOK
    <2>2. CASE r \in Held
      <3>1. taken[q] \in [Resources -> Nat]
        BY <1>0 DEF TypeOK
      <3>2. taken[q][r] - amount \in Nat
        BY <1>1, <3>1
      <3>3. taken' = [taken EXCEPT ![q] = [taken[q] EXCEPT ![r] = taken[q][r] - amount]]
        BY <1>0, <1>1, <2>2 DEF TypeOK
      <3>4. [taken[q] EXCEPT ![r] = taken[q][r] - amount] \in [Resources -> Nat]
        BY <3>1, <3>2
      <3> QED
        BY <1>0, <2>2, <3>1, <3>3, <3>4 DEF TypeOK
    <2> QED
      BY <2>1, <2>2
  <1>8. TypeOK'
    BY <1>0, <1>1, <1>6, <1>7 DEF TypeOK
  <1>9. DailyUseCounted'
    <2> SUFFICES ASSUME crashes = 0, NEW p \in Scopes, NEW o \in Resources \ Held
                 PROVE  CurrentUsage(p)'.used[o] = taken'[p][o]
      BY <1>1 DEF DailyUseCounted
    <2>1. CurrentUsage(p).used[o] = taken[p][o]
      BY <1>0 DEF DailyUseCounted
    <2>2. CASE p = q
      <3>1. CurrentUsage(p)' = n
        BY <1>2, <1>5, <1>6, <2>2 DEF CurrentUsage
      <3> QED
        BY <1>4, <1>5, <1>7, <2>1, <2>2, <3>1 DEF c
    <2>3. CASE p # q
      <3>1. CurrentUsage(p)' = CurrentUsage(p)
        BY <1>2, <1>6, <2>3 DEF CurrentUsage
      <3> QED
        BY <1>7, <2>1, <3>1
    <2> QED
      BY <2>2, <2>3
  <1>10. \A p \in Scopes : usage'[p].day <= Today'
    BY <1>0, <1>2, <1>5, <1>6
  <1>11. OneAnswer' /\ DeductionsCached'
    <2>1. now' \in Nat /\ now' >= now
      BY <1>0, <1>1 DEF TypeOK
    <2> QED
      BY <1>1, <2>1, AnswersKept
  <1> QED
    BY <1>8, <1>9, <1>10, <1>11 DEF QuotaInductive, QuotaTypeOK

\* A granted or refused request.
LEMMA ConsumeStep ==
    ASSUME QuotaInductive, NEW q \in Scopes, NEW r \in Resources, NEW amount \in Amounts,
           NEW k \in Keys \cup {None}, Consume(q, r, amount, k)
    PROVE  QuotaInductive'
  <1>0. /\ TypeOK /\ DailyUseCounted /\ OneAnswer /\ DeductionsCached
        /\ \A p \in Scopes : usage[p].day <= Today
        /\ None \notin Keys /\ TTL \in Nat /\ now \in Nat /\ cache \in Seq(Entry)
        /\ deducted \in [Keys -> Nat \cup {None}] /\ forgotten \subseteq Keys
    <2>1. None \notin Keys /\ TTL \in Nat
      BY QuotaAssumption
    <2>2. TypeOK /\ DailyUseCounted /\ OneAnswer /\ DeductionsCached
      BY DEF QuotaInductive, QuotaTypeOK
    <2> QED
      BY <2>1, <2>2 DEF QuotaInductive, QuotaTypeOK, TypeOK
  <1>1. /\ UNCHANGED <<now, upserts, crashes, quota, db, pool, rows, writes>>
        /\ amount \in Nat
    BY DEF Consume, store, Amounts
  <1>2. KeysOf(cache) \subseteq Keys
    BY <1>0, CachedKeys
  <1>cached. ASSUME NEW o \in Keys, deducted[o] # None, o \notin forgotten,
                    ~(now > deducted[o] + TTL)
             PROVE  \E i \in 1..Len(cache) : cache[i].key = o /\ cache[i].expiresAt >= deducted[o] + TTL
    BY <1>0, <1>cached DEF DeductionsCached
  <1>3. CASE Allowed(q, r, amount)
    <2>1. /\ usage' = [usage EXCEPT ![q] =
                         [CurrentUsage(q) EXCEPT !.used[r] = CurrentUsage(q).used[r] + amount]]
          /\ taken' = [taken EXCEPT ![q][r] = taken[q][r] + amount]
          /\ cache' = IF k = None THEN cache ELSE WithAnswer(k, TRUE)
          /\ deducted' = IF k = None THEN deducted ELSE [deducted EXCEPT ![k] = now]
          /\ forgotten' = forgotten \ {k}
      BY <1>3 DEF Consume, Granted
    <2>2. /\ usage' \in [Scopes -> [day : Nat, used : [Resources -> Nat]]]
          /\ taken' \in [Scopes -> [Resources -> Nat]]
          /\ DailyUseCounted' /\ \A p \in Scopes : usage'[p].day <= Today'
      BY <1>1, <2>1, GrantStep
    <2>3. CASE k = None
      <3>1. UNCHANGED <<cache, deducted, forgotten>>
        BY <1>0, <2>1, <2>3
      <3>2. TypeOK'
        BY <1>0, <1>1, <2>2, <3>1 DEF TypeOK
      <3>3. OneAnswer' /\ DeductionsCached'
        BY <1>0, <1>1, <3>1, AnswersKept
      <3> QED
        BY <2>2, <3>2, <3>3 DEF QuotaInductive, QuotaTypeOK
    <2>4. CASE k \in Keys
      <3> DEFINE a == WithAnswer(k, TRUE)
      <3>1. /\ a \in Seq(Entry) /\ Len(a) > 0
            /\ a[Len(a)].key = k /\ a[Len(a)].expiresAt = now + TTL
            /\ \A i, j \in 1..Len(a) : a[i].key = a[j].key => i = j
            /\ \A i \in 1..Len(cache) : cache[i].key # k => \E j \in 1..Len(a) : a[j] = cache[i]
        <4>1. TRUE \in BOOLEAN
          OBVIOUS
        <4> QED
          BY <1>0, <2>4, <4>1, NewAnswer, Zenon
      <3> HIDE DEF a
      <3>2. cache' = a /\ deducted' = [deducted EXCEPT ![k] = now]
        BY <1>0, <2>1, <2>4 DEF a
      <3>3. TypeOK'
        <4>1. deducted' \in [Keys -> Nat \cup {None}] /\ forgotten' \subseteq Keys
          BY <1>0, <2>1, <3>2
        <4> QED
          BY <1>0, <1>1, <2>2, <3>1, <3>2, <4>1 DEF TypeOK
      <3>4. OneAnswer'
        BY <3>1, <3>2 DEF OneAnswer
      <3>5. DeductionsCached'
        <4> SUFFICES ASSUME NEW o \in Keys, deducted'[o] # None
                     PROVE  /\ deducted'[o] <= now
                            /\ \/ o \in forgotten'
                               \/ now > deducted'[o] + TTL
                               \/ \E i \in DOMAIN a :
                                     a[i].key = o /\ a[i].expiresAt >= deducted'[o] + TTL
          BY <1>1, <3>2 DEF DeductionsCached
        <4>1. CASE o = k
          <5>1. deducted'[o] = now /\ Len(a) \in DOMAIN a
            BY <1>0, <3>1, <3>2, <4>1
          <5> QED
            BY <1>0, <3>1, <4>1, <5>1
        <4>2. CASE o # k
          <5>1. deducted'[o] = deducted[o] /\ (o \in forgotten => o \in forgotten')
            BY <1>0, <2>1, <3>2, <4>2
          <5>2. deducted[o] <= now
            BY <1>0, <5>1 DEF DeductionsCached
          <5>3. ASSUME o \notin forgotten, ~(now > deducted[o] + TTL)
                PROVE  \E i \in DOMAIN a : a[i].key = o /\ a[i].expiresAt >= deducted[o] + TTL
            <6>1. PICK i \in 1..Len(cache) : cache[i].key = o /\ cache[i].expiresAt >= deducted[o] + TTL
              BY <1>cached, <5>1, <5>3
            <6>2. PICK j \in 1..Len(a) : a[j] = cache[i]
              BY <3>1, <4>2, <6>1
            <6> QED
              BY <3>1, <6>1, <6>2
          <5> QED
            BY <5>1, <5>2, <5>3
        <4> QED
          BY <4>1, <4>2
      <3> QED
        BY <2>2, <3>3, <3>4, <3>5 DEF QuotaInductive, QuotaTypeOK
    <2> QED
      BY <2>3, <2>4
  <1>4. CASE ~Allowed(q, r, amount)
    <2>1. /\ usage' = [usage EXCEPT ![q] = Touched(q)]
          /\ cache' = IF k = None THEN cache ELSE Refused(k)
          /\ forgotten' = forgotten \cup (KeysOf(cache) \ KeysOf(cache'))
          /\ UNCHANGED <<taken, deducted>>
      BY <1>4 DEF Consume
    <2>2. \A p \in Scopes : usage'[p] = usage[p] \/ usage'[p] = CurrentUsage(p)
      BY <1>0, <2>1 DEF TypeOK, Touched
    <2>3. DailyUseCounted' /\ \A p \in Scopes : usage'[p].day <= Today'
      BY <1>1, <2>1, <2>2, UsageKept
    <2>4. usage' \in [Scopes -> [day : Nat, used : [Resources -> Nat]]]
      <3>1. Touched(q) \in [day : Nat, used : [Resources -> Nat]]
        BY <1>0, UsedToday DEF Touched, TypeOK
      <3> QED
        BY <1>0, <2>1, <3>1 DEF TypeOK
    <2>5. CASE k = None
      <3>1. UNCHANGED <<cache, deducted, forgotten>>
        BY <2>1, <2>5
      <3>2. TypeOK'
        BY <1>0, <1>1, <2>1, <2>4, <3>1 DEF TypeOK
      <3>3. OneAnswer' /\ DeductionsCached'
        BY <1>0, <1>1, <3>1, AnswersKept
      <3> QED
        BY <2>3, <3>2, <3>3 DEF QuotaInductive, QuotaTypeOK
    <2>6. CASE k \in Keys
      <3> DEFINE a == Refused(k)
      <3>1. /\ a \in Seq(Entry)
            /\ \A i, j \in 1..Len(a) : a[i].key = a[j].key => i = j
            /\ \E j \in 1..Len(a) : a[j].key = k /\ a[j].expiresAt = now + TTL
            /\ \A i \in 1..Len(cache) : cache[i].key # k =>
                  (\E j \in 1..Len(a) : a[j] = cache[i]) \/ cache[i].key \notin KeysOf(a)
        BY <1>0, <2>6, NewRefusal
      <3> HIDE DEF a
      <3>2. cache' = a /\ deducted' = deducted
        BY <1>0, <2>1, <2>6 DEF a
      <3>3. TypeOK'
        <4>1. forgotten' \subseteq Keys
          BY <1>0, <1>2, <2>1
        <4> QED
          BY <1>0, <1>1, <2>1, <2>4, <3>1, <3>2, <4>1 DEF TypeOK
      <3>4. OneAnswer'
        BY <3>1, <3>2 DEF OneAnswer
      <3>5. DeductionsCached'
        <4> SUFFICES ASSUME NEW o \in Keys, deducted[o] # None
                     PROVE  /\ deducted[o] <= now
                            /\ \/ o \in forgotten'
                               \/ now > deducted[o] + TTL
                               \/ \E i \in DOMAIN a :
                                     a[i].key = o /\ a[i].expiresAt >= deducted[o] + TTL
          BY <1>1, <3>2 DEF DeductionsCached
        <4>1. deducted[o] <= now /\ deducted[o] \in Nat
          BY <1>0 DEF DeductionsCached
        <4>2. CASE o = k
          <5>1. PICK j \in 1..Len(a) : a[j].key = k /\ a[j].expiresAt = now + TTL
            BY <3>1
          <5>2. a[j].expiresAt >= deducted[o] + TTL /\ j \in DOMAIN a
            BY <1>0, <3>1, <4>1, <5>1
          <5> QED
            BY <4>1, <4>2, <5>1, <5>2
        <4>3. CASE o # k
          <5>1. ASSUME o \notin forgotten', ~(now > deducted[o] + TTL)
                PROVE  \E i \in DOMAIN a : a[i].key = o /\ a[i].expiresAt >= deducted[o] + TTL
            <6>1. o \notin forgotten
              BY <2>1, <5>1
            <6>2. PICK i \in 1..Len(cache) : cache[i].key = o /\ cache[i].expiresAt >= deducted[o] + TTL
              BY <1>cached, <5>1, <6>1
            <6>3. o \in KeysOf(cache)
              BY <1>0, <6>2 DEF KeysOf
            <6>4. o \in KeysOf(a)
              BY <2>1, <3>2, <5>1, <6>3
            <6>5. PICK j \in 1..Len(a) : a[j] = cache[i]
              BY <3>1, <4>3, <6>2, <6>4
            <6> QED
              BY <3>1, <6>2, <6>5
          <5> QED
            BY <4>1, <5>1
        <4> QED
          BY <4>2, <4>3
      <3> QED
        BY <2>3, <3>3, <3>4, <3>5 DEF QuotaInductive, QuotaTypeOK
    <2> QED
      BY <2>5, <2>6
  <1> QED
    BY <1>3, <1>4

LEMMA NextQuota == QuotaInductive /\ [Next]_vars => QuotaInductive'
  <1> SUFFICES ASSUME QuotaInductive, [Next]_vars PROVE QuotaInductive'
    OBVIOUS
  <1>0. TypeOK /\ DailyUseCounted /\ OneAnswer /\ DeductionsCached
    BY DEF QuotaInductive, QuotaTypeOK
  <1>1. CASE Tick
    BY <1>1, TickStep
  \* The copies of the quotas.
  <1>2. CASE Connect \/ SelectQuotas \/ LoadQuotas
    <2>1. UNCHANGED <<now, usage, cache, crashes, taken, deducted, forgotten, writes, db, upserts>>
      BY <1>2 DEF Connect, SelectQuotas, LoadQuotas, history
    <2>2. pool' \in {"none", "connected", "selected", "loaded"}
      BY <1>2 DEF Connect, SelectQuotas, LoadQuotas
    <2>3. quota' \in [Scopes -> Quota \cup {None}] /\ rows' \in [Scopes -> Quota \cup {None}]
      <3>1. CASE Connect
        BY <1>0, <3>1 DEF Connect, TypeOK
      <3>2. CASE SelectQuotas
        BY <1>0, <3>2 DEF SelectQuotas, TypeOK
      <3>3. CASE LoadQuotas
        BY <1>0, <3>3 DEF LoadQuotas, Loaded, TypeOK
      <3> QED
        BY <1>2, <3>1, <3>2, <3>3
    <2>4. TypeOK'
      BY <1>0, <2>1, <2>2, <2>3 DEF TypeOK
    <2> QED
      BY <2>1, <2>4, CopyStep
  <1>3. ASSUME NEW i \in 1..PoolSize, WriteRow(i) PROVE QuotaInductive'
    <2>1. /\ i \in 1..Len(writes) /\ writes' = RemoveAt(writes, i)
          /\ db' = [db EXCEPT ![writes[i].scope] = writes[i].row] \/ db' = db
          /\ UNCHANGED <<now, quota, usage, cache, pool, rows, upserts, crashes, taken, deducted,
                         forgotten>>
      BY <1>3 DEF WriteRow, history
    <2> DEFINE WriteRecord == [scope : Scopes, row : Quota]
    <2>2. writes \in Seq(WriteRecord)
      BY <1>0 DEF TypeOK
    <2>3. writes' \in Seq(WriteRecord)
      <3> HIDE DEF WriteRecord
      <3> QED
        BY <2>1, <2>2, RemoveAtEntries
    <2>4. writes[i].scope \in Scopes /\ writes[i].row \in Quota
      <3>1. writes[i] \in WriteRecord
        <4> HIDE DEF WriteRecord
        <4> QED
          BY <2>1, <2>2
      <3> QED
        BY <3>1
    <2>5. db' \in [Scopes -> Quota \cup {None}]
      BY <1>0, <2>1, <2>4 DEF TypeOK
    <2>6. TypeOK'
      BY <1>0, <2>1, <2>3, <2>5 DEF TypeOK
    <2> QED
      BY <2>1, <2>6, CopyStep
  <1>4. ASSUME NEW q \in Scopes, UpsertQuota(q) PROVE QuotaInductive'
    <2>1. /\ upserts < MaxUpserts /\ upserts' = upserts + 1
          /\ UNCHANGED <<now, usage, cache, pool, rows, db, crashes, taken, deducted, forgotten>>
      BY <1>4 DEF UpsertQuota, history
    <2>2. PICK row0 : /\ \E limit \in [Resources -> Limits], status \in {"active", "suspended"} :
                            row0 = [limit |-> limit, status |-> status, version |-> upserts + 1]
                      /\ quota' = [quota EXCEPT ![q] = row0]
                      /\ writes' = IF pool = "none" THEN writes
                                   ELSE Append(writes, [scope |-> q, row |-> row0])
      BY <1>4 DEF UpsertQuota
    <2>3. upserts \in Nat /\ MaxUpserts \in Nat
      BY <1>0, QuotaAssumption DEF TypeOK
    <2>4. row0 \in Quota
      BY <2>2, <2>3 DEF Quota
    <2>5. quota' \in [Scopes -> Quota \cup {None}]
      BY <1>0, <2>2, <2>4 DEF TypeOK
    <2>6. writes' \in Seq([scope : Scopes, row : Quota])
      <3> DEFINE WriteRecord == [scope : Scopes, row : Quota]
      <3>1. writes \in Seq(WriteRecord) /\ [scope |-> q, row |-> row0] \in WriteRecord
        BY <1>0, <2>4 DEF TypeOK
      <3> HIDE DEF WriteRecord
      <3>2. writes' \in Seq(WriteRecord)
        BY <2>2, <3>1, AppendProperties
      <3> QED
        BY <3>2 DEF WriteRecord
    <2>7. upserts' \in 0..MaxUpserts
      BY <2>1, <2>3
    <2>8. TypeOK'
      BY <1>0, <2>1, <2>5, <2>6, <2>7 DEF TypeOK
    <2> QED
      BY <2>1, <2>8, CopyStep
  \* The requests.
  <1>5. ASSUME NEW q \in Scopes, NEW k \in Keys, Replay(q, k) PROVE QuotaInductive'
    <2>1. UNCHANGED <<now, usage, cache, upserts, crashes, quota, db, pool, rows, writes, taken,
                      deducted, forgotten>>
      BY <1>5 DEF Replay, vars, store, history
    <2>2. TypeOK'
      BY <1>0, <2>1 DEF TypeOK
    <2> QED
      BY <2>1, <2>2, CopyStep
  <1>6. ASSUME NEW q \in Scopes, NEW r \in Resources, NEW amount \in Amounts,
               Release(q, r, amount)
        PROVE  QuotaInductive'
    BY <1>6, ReleaseStep
  <1>7. ASSUME NEW q \in Scopes, NEW r \in Resources, NEW amount \in Amounts,
               NEW k \in Keys \cup {None}, Consume(q, r, amount, k)
        PROVE  QuotaInductive'
    BY <1>7, ConsumeStep
  <1>8. CASE Crash
    <2>1. /\ crashes < MaxCrashes /\ crashes' = crashes + 1
          /\ quota' = [q \in Scopes |-> None] /\ rows' = [q \in Scopes |-> None]
          /\ usage' = [q \in Scopes |-> [day |-> 0, used |-> Zero]]
          /\ cache' = <<>> /\ pool' = "none" /\ writes' = <<>>
          /\ forgotten' = forgotten \cup KeysOf(cache)
          /\ UNCHANGED <<now, db, upserts, taken, deducted>>
      BY <1>8 DEF Crash
    <2>2. crashes \in Nat /\ MaxCrashes \in Nat
      BY <1>0, QuotaAssumption DEF TypeOK
    <2>3. crashes' \in 0..MaxCrashes /\ crashes' # 0
      BY <2>1, <2>2
    <2>4. KeysOf(cache) \subseteq Keys
      BY <1>0, CachedKeys
    <2>5. Zero \in [Resources -> Nat]
      BY DEF Zero
    <2>6. /\ quota' \in [Scopes -> Quota \cup {None}] /\ rows' \in [Scopes -> Quota \cup {None}]
          /\ usage' \in [Scopes -> [day : Nat, used : [Resources -> Nat]]]
          /\ cache' \in Seq(Entry) /\ writes' \in Seq([scope : Scopes, row : Quota])
      BY <2>1, <2>5
    <2>7. TypeOK'
      BY <1>0, <2>1, <2>3, <2>4, <2>6 DEF TypeOK
    <2>8. DailyUseCounted' /\ OneAnswer'
      BY <2>1, <2>3 DEF DailyUseCounted, OneAnswer
    <2>9. \A q \in Scopes : usage'[q].day <= Today'
      BY <1>0, <2>1, DayFacts, QuotaAssumption DEF Today, TypeOK
    <2>10. DeductionsCached'
      BY <1>0, <2>1 DEF DeductionsCached, KeysOf
    <2> QED
      BY <2>7, <2>8, <2>9, <2>10 DEF QuotaInductive, QuotaTypeOK
  <1>9. CASE UNCHANGED vars
    <2>1. UNCHANGED <<now, usage, cache, upserts, crashes, quota, db, pool, rows, writes, taken,
                      deducted, forgotten>>
      BY <1>9 DEF vars, store, history
    <2>2. TypeOK'
      BY <1>0, <2>1 DEF TypeOK
    <2> QED
      BY <2>1, <2>2, CopyStep
  <1> QED
    BY <1>1, <1>2, <1>3, <1>4, <1>5, <1>6, <1>7, <1>8, <1>9 DEF Next

\* Quotas, uses, cached answers and the writes under way keep their types.
THEOREM QuotaTypeCorrect == Spec => []TypeOK
  <1>1. QuotaInductive => TypeOK
    BY DEF QuotaInductive, QuotaTypeOK
  <1> QED
    BY <1>1, InitQuota, NextQuota, PTL DEF Spec

\* The use of a day is what was granted on it.
THEOREM DailyUseCountedAlways == Spec => []DailyUseCounted
  <1>1. QuotaInductive => DailyUseCounted
    BY DEF QuotaInductive
  <1> QED
    BY <1>1, InitQuota, NextQuota, PTL DEF Spec

\* The limit of a day and the keys hold at every step.
THEOREM DeductionsGrantedAlways == Spec => DeductionsGranted
  <1> DEFINE Granting == /\ \A s \in Scopes, r \in Resources \ Held : GrantsWithin(s, r)
                         /\ \A k \in Keys :
                               DeductedAgain(k) => now > deducted[k] + TTL \/ k \in forgotten
  <1>1. QuotaInductive /\ [Next]_vars => [Granting]_vars
    <2> SUFFICES ASSUME QuotaInductive, Next PROVE Granting
      BY DEF vars
    <2>0. /\ TypeOK /\ DailyUseCounted /\ DeductionsCached
          /\ TTL \in Nat /\ now \in Nat /\ cache \in Seq(Entry)
          /\ taken \in [Scopes -> [Resources -> Nat]]
      BY QuotaAssumption DEF QuotaInductive, QuotaTypeOK, TypeOK
    <2>1. ASSUME UNCHANGED deducted,
                 \A q \in Scopes : \A r \in Resources \ Held : taken'[q][r] \in 0..taken[q][r]
          PROVE  Granting
      <3>1. \A q \in Scopes : \A r \in Resources \ Held : ~(taken'[q][r] > taken[q][r])
        BY <2>0, <2>1
      <3> QED
        BY <2>1, <3>1 DEF GrantsWithin, DeductedAgain
    <2>2. CASE UNCHANGED <<taken, deducted>>
      BY <2>0, <2>1, <2>2
    <2>3. CASE Tick
      <3>1. /\ UNCHANGED deducted
            /\ taken' = IF (now + 1) \div DayLength = Today THEN taken
                        ELSE [q \in Scopes |-> [r \in Resources |->
                                                  IF r \in Held THEN taken[q][r] ELSE 0]]
        BY <2>3 DEF Tick
      <3>2. \A q \in Scopes : \A r \in Resources \ Held : taken'[q][r] \in 0..taken[q][r]
        BY <2>0, <3>1
      <3> QED
        BY <2>1, <3>1, <3>2
    <2>4. ASSUME NEW q \in Scopes, NEW r \in Resources, NEW amount \in Amounts,
                 Release(q, r, amount)
          PROVE  Granting
      <3>1. /\ UNCHANGED deducted
            /\ taken' = IF r \in Held THEN [taken EXCEPT ![q][r] = taken[q][r] - amount] ELSE taken
        BY <2>0, <2>4 DEF Release
      <3>2. ASSUME NEW p \in Scopes, NEW o \in Resources \ Held PROVE taken'[p][o] = taken[p][o]
        BY <2>0, <3>1
      <3>3. \A p \in Scopes : \A o \in Resources \ Held : taken'[p][o] \in 0..taken[p][o]
        BY <2>0, <3>2
      <3> QED
        BY <2>1, <3>1, <3>3
    <2>5. ASSUME NEW q \in Scopes, NEW r \in Resources, NEW amount \in Amounts,
                 NEW k \in Keys \cup {None}, Consume(q, r, amount, k), Allowed(q, r, amount)
          PROVE  Granting
      <3>1. /\ taken' = [taken EXCEPT ![q][r] = taken[q][r] + amount]
            /\ deducted' = IF k = None THEN deducted ELSE [deducted EXCEPT ![k] = now]
            /\ k # None => ~Answered(k)
            /\ amount \in Nat
        BY <2>5 DEF Consume, Amounts
      <3>2. ASSUME NEW p \in Scopes, NEW o \in Resources \ Held PROVE GrantsWithin(p, o)
        <4> SUFFICES ASSUME taken'[p][o] > taken[p][o]
                     PROVE  /\ quota[p] # None /\ quota[p].status = "active"
                            /\ crashes = 0 => taken'[p][o] <= quota[p].limit[o]
          BY DEF GrantsWithin
        <4>1. taken[q] \in [Resources -> Nat]
          BY <2>0
        <4>2. p = q /\ o = r /\ taken'[p][o] = taken[q][r] + amount
          BY <2>0, <3>1, <4>1
        <4>3. quota[q] # None /\ quota[q] \in Quota
          BY <2>0, <2>5 DEF Allowed, TypeOK
        <4>4. quota[q].status = "active"
          BY <2>5, <4>3 DEF Allowed, Quota
        <4>5. crashes = 0 => CurrentUsage(q).used[r] = taken[q][r]
          BY <2>0, <4>2 DEF DailyUseCounted
        <4> QED
          BY <2>5, <4>2, <4>3, <4>4, <4>5 DEF Allowed
      <3>3. ASSUME NEW o \in Keys, DeductedAgain(o)
            PROVE  now > deducted[o] + TTL \/ o \in forgotten
        <4>1. o = k /\ k # None /\ deducted[o] # None
          BY <2>0, <3>1, <3>3 DEF DeductedAgain, TypeOK
        <4>2. ~\E i \in DOMAIN cache : cache[i].key = o /\ now <= cache[i].expiresAt
          BY <3>1, <4>1 DEF Answered
        <4>3. deducted[o] \in Nat
          BY <2>0, <4>1 DEF TypeOK
        <4>4. CASE \E i \in DOMAIN cache : cache[i].key = o /\ cache[i].expiresAt >= deducted[o] + TTL
          <5>1. PICK i \in DOMAIN cache : cache[i].key = o /\ cache[i].expiresAt >= deducted[o] + TTL
            BY <4>4
          <5>2. cache[i] \in Entry
            BY <2>0
          <5>3. cache[i].expiresAt \in Nat /\ ~(now <= cache[i].expiresAt)
            BY <4>2, <5>1, <5>2 DEF Entry
          <5> QED
            BY <2>0, <4>3, <5>1, <5>3
        <4> QED
          BY <2>0, <4>1, <4>4 DEF DeductionsCached
      <3> QED
        BY <3>2, <3>3
    <2>6. ASSUME NEW q \in Scopes, NEW r \in Resources, NEW amount \in Amounts,
                 NEW k \in Keys \cup {None}, Consume(q, r, amount, k)
          PROVE  Granting
      <3>1. CASE Allowed(q, r, amount)
        BY <2>5, <2>6, <3>1
      <3>2. CASE ~Allowed(q, r, amount)
        <4>1. UNCHANGED <<taken, deducted>>
          BY <2>6, <3>2 DEF Consume
        <4> HIDE DEF Granting
        <4> QED
          BY <2>2, <4>1
      <3> QED
        BY <3>1, <3>2
    <2>7. ASSUME NEW q \in Scopes, UpsertQuota(q) PROVE UNCHANGED <<taken, deducted>>
      BY <2>7 DEF UpsertQuota, history
    <2>8. ASSUME NEW i \in 1..PoolSize, WriteRow(i) PROVE UNCHANGED <<taken, deducted>>
      BY <2>8 DEF WriteRow, history
    <2>9. CASE Connect \/ SelectQuotas \/ LoadQuotas \/ Crash
      <3>1. UNCHANGED <<taken, deducted>>
        BY <2>9 DEF Connect, SelectQuotas, LoadQuotas, Crash, history
      <3> HIDE DEF Granting
      <3> QED
        BY <2>2, <3>1
    <2>10. ASSUME NEW q \in Scopes, NEW k \in Keys, Replay(q, k) PROVE UNCHANGED <<taken, deducted>>
      BY <2>10 DEF Replay, vars, history
    <2> HIDE DEF Granting
    <2> QED
      BY <2>2, <2>3, <2>4, <2>6, <2>7, <2>8, <2>9, <2>10 DEF Next
  <1>2. Spec => []QuotaInductive
    BY InitQuota, NextQuota, PTL DEF Spec
  <1> QED
    BY <1>1, <1>2, PTL DEF Spec, DeductionsGranted

-----------------------------------------------------------------------------
(* The review of skills *)

ReviewRow == {NoReview} \cup [status: {"pending", "approved", "rejected"}, from: Nat]

SkillTypeOK ==
    /\ skill \in [Skills -> [status: {"draft", "active", "archived"}, scope: {"private", "org"}]]
    /\ latest \in [Skills -> 1..MaxSkillVersion]
    /\ proposal \in [SkillVersions -> ReviewRow]
    /\ definition \in [Skills -> Seq(SkillVersions)]
    /\ registry \subseteq Skills
    /\ nomination \in [Nominations -> {Resting} \cup [pc: {"upsert"}, todo: SUBSET SkillVersions]]
    /\ decision \in [Decisions ->
                       {Resting} \cup [pc: {"decide"}, version: SkillVersions, next: Nat]]
    /\ audit \in [Audits -> {Resting} \cup [pc: {"promote", "register"}, skill: Skills]]
    /\ nominated \in [SkillVersions -> Nat]

\* A decision holds a pending review, and its number was free when it read.
DecisionsHold ==
    \A c \in Decisions : decision[c].pc = "decide" =>
        LET v == decision[c].version IN
        /\ proposal[v].status = "pending"
        /\ decision[c].next \in 1..(Len(definition[v[1]]) + 1)

\* The lock of the row lets one decision in.
DecidedAlone ==
    \A c, e \in Decisions :
        /\ c # e
        /\ decision[c].pc = "decide" /\ decision[e].pc = "decide"
        => decision[c].version # decision[e].version

\* A pending review is the nomination that no definition was made of.
DefinitionsNominated ==
    \A v \in SkillVersions :
        /\ IsFiniteSet(DefinedFrom(v))
        /\ proposal[v].status = "pending" => Cardinality(DefinedFrom(v)) < nominated[v]

SkillInductive ==
    /\ SkillTypeOK
    /\ DecisionsHold
    /\ DecidedAlone
    /\ DefinitionsNominated
    /\ ApprovedIsDefinedOnce

LEMMA InitSkill == SkillInit => SkillInductive
  <1> SUFFICES ASSUME SkillInit PROVE SkillInductive
    OBVIOUS
  <1>1. SkillTypeOK
    <2>1. 1 \in 1..MaxSkillVersion
      BY SkillAssumption
    <2>2. <<>> \in Seq(SkillVersions)
      OBVIOUS
    <2> QED
      BY <2>1, <2>2 DEF SkillInit, SkillTypeOK, ReviewRow
  <1>2. /\ \A v \in SkillVersions : proposal[v].status = "none" /\ nominated[v] = 0
        /\ \A v \in SkillVersions : DefinedFrom(v) = {}
        /\ \A c \in Decisions : decision[c].pc = "resting"
    BY DEF SkillInit, NoReview, Resting, DefinedFrom, SkillVersions
  <1>3. DefinitionsNominated /\ ApprovedIsDefinedOnce
    BY <1>2, FS_EmptySet DEF DefinitionsNominated, ApprovedIsDefinedOnce
  <1>4. DecisionsHold /\ DecidedAlone
    BY <1>2 DEF DecisionsHold, DecidedAlone
  <1> QED
    BY <1>1, <1>3, <1>4 DEF SkillInductive

\* A decision that is under way is of a version, and its number a number.
LEMMA DecisionType ==
    ASSUME SkillTypeOK, NEW c \in Decisions, decision[c].pc = "decide"
    PROVE  /\ decision[c].version \in SkillVersions /\ decision[c].version[1] \in Skills
           /\ decision[c].next \in Nat
           /\ definition[decision[c].version[1]] \in Seq(SkillVersions)
  <1>1. decision[c] \in {Resting} \cup [pc: {"decide"}, version: SkillVersions, next: Nat]
    BY DEF SkillTypeOK
  <1>2. decision[c].version \in SkillVersions /\ decision[c].next \in Nat
    BY <1>1 DEF Resting
  <1> QED
    BY <1>2 DEF SkillTypeOK, SkillVersions

\* A step outside the reviews.
LEMMA ReviewQuiet ==
    ASSUME SkillInductive, SkillTypeOK', UNCHANGED <<proposal, definition, decision, nominated>>
    PROVE  SkillInductive'
  <1>1. \A v \in SkillVersions : DefinedFrom(v)' = DefinedFrom(v)
    BY DEF DefinedFrom
  <1>2. DecisionsHold' /\ DecidedAlone'
    BY DEF SkillInductive, DecisionsHold, DecidedAlone
  <1>3. DefinitionsNominated' /\ ApprovedIsDefinedOnce'
    BY <1>1 DEF SkillInductive, DefinitionsNominated, ApprovedIsDefinedOnce
  <1> QED
    BY <1>2, <1>3 DEF SkillInductive

\* The steps of a skill's life and of its audits.
LEMMA LifeStep ==
    ASSUME SkillInductive,
           \/ \E s \in Skills : NewVersion(s) \/ Publish(s) \/ Archive(s)
           \/ \E c \in Audits : AuditRead(c) \/ Promote(c) \/ RegisterSkill(c)
    PROVE  SkillInductive'
  <1>0. SkillTypeOK
    BY DEF SkillInductive
  <1>1. ASSUME NEW s \in Skills, NewVersion(s) PROVE SkillInductive'
    <2>1. latest' \in [Skills -> 1..MaxSkillVersion]
      BY <1>0, <1>1, SkillAssumption DEF NewVersion, SkillTypeOK
    <2>2. SkillTypeOK' /\ UNCHANGED <<proposal, definition, decision, nominated>>
      BY <1>0, <1>1, <2>1 DEF NewVersion, SkillTypeOK
    <2> QED
      BY <2>2, ReviewQuiet
  <1>2. ASSUME NEW s \in Skills, NEW from, NEW to \in {"active", "archived"},
               SetSkillStatus(s, from, to)
        PROVE  SkillInductive'
    <2>1. skill[s] \in [status: {"draft", "active", "archived"}, scope: {"private", "org"}]
      BY <1>0 DEF SkillTypeOK
    <2>2. skill' = [skill EXCEPT ![s] = [skill[s] EXCEPT !.status = to]]
      BY <1>0, <1>2 DEF SetSkillStatus, SkillTypeOK
    <2>3. SkillTypeOK' /\ UNCHANGED <<proposal, definition, decision, nominated>>
      <3>1. [skill[s] EXCEPT !.status = to]
               \in [status: {"draft", "active", "archived"}, scope: {"private", "org"}]
        BY <2>1
      <3>2. skill' \in [Skills -> [status: {"draft", "active", "archived"}, scope: {"private", "org"}]]
        BY <1>0, <2>2, <3>1 DEF SkillTypeOK
      <3> QED
        BY <1>0, <1>2, <3>2 DEF SetSkillStatus, SkillTypeOK
    <2> QED
      BY <2>3, ReviewQuiet
  <1>3. ASSUME NEW c \in Audits, AuditRead(c) PROVE SkillInductive'
    <2>1. SkillTypeOK' /\ UNCHANGED <<proposal, definition, decision, nominated>>
      BY <1>0, <1>3 DEF AuditRead, skillRows, SkillTypeOK
    <2> QED
      BY <2>1, ReviewQuiet
  <1>4. ASSUME NEW c \in Audits, Promote(c) \/ RegisterSkill(c) PROVE SkillInductive'
    <2>1. audit[c] \in [pc: {"promote", "register"}, skill: Skills]
      BY <1>0, <1>4 DEF SkillTypeOK, Promote, RegisterSkill, Resting
    <2>2. audit' \in [Audits -> {Resting} \cup [pc: {"promote", "register"}, skill: Skills]]
      <3>1. CASE Promote(c)
        <4>1. audit' = [audit EXCEPT ![c] = [audit[c] EXCEPT !.pc = "register"]]
          BY <1>0, <3>1 DEF Promote, SkillTypeOK
        <4> QED
          BY <1>0, <2>1, <4>1 DEF SkillTypeOK
      <3>2. CASE RegisterSkill(c)
        BY <1>0, <3>2 DEF RegisterSkill, SkillTypeOK
      <3> QED
        BY <1>4, <3>1, <3>2
    <2>3. /\ UNCHANGED <<latest, nomination, proposal, definition, decision, nominated>>
          /\ skill' \in [Skills -> [status: {"draft", "active", "archived"}, scope: {"private", "org"}]]
          /\ registry' \subseteq Skills
      <3>1. audit[c].skill \in Skills
        BY <2>1
      <3>2. CASE Promote(c)
        <4>1. /\ UNCHANGED <<latest, registry, nomination, proposal, definition, decision, nominated>>
              /\ skill' = [skill EXCEPT ![audit[c].skill] = [status |-> "active", scope |-> "org"]]
          BY <3>2 DEF Promote
        <4> QED
          BY <1>0, <4>1 DEF SkillTypeOK
      <3>3. CASE RegisterSkill(c)
        BY <1>0, <3>1, <3>3 DEF RegisterSkill, SkillTypeOK
      <3> QED
        BY <1>4, <3>2, <3>3
    <2>4. SkillTypeOK'
      BY <1>0, <2>2, <2>3 DEF SkillTypeOK
    <2> QED
      BY <2>3, <2>4, ReviewQuiet
  <1> QED
    BY <1>1, <1>2, <1>3, <1>4 DEF Publish, Archive

\* A nomination adds to the count of its version before a definition can.
LEMMA NominateStep ==
    ASSUME SkillInductive, NEW c \in Nominations, NominateSelect(c) \/ NominateUpsert(c)
    PROVE  SkillInductive'
  <1>0. /\ SkillTypeOK /\ DecisionsHold /\ DecidedAlone /\ DefinitionsNominated
        /\ ApprovedIsDefinedOnce
    BY DEF SkillInductive
  <1>1. CASE NominateSelect(c)
    <2>1. Nominable \subseteq SkillVersions
      BY DEF Nominable
    <2>2. SkillTypeOK' /\ UNCHANGED <<proposal, definition, decision, nominated>>
      BY <1>0, <1>1, <2>1 DEF NominateSelect, skillRows, SkillTypeOK
    <2> QED
      BY <2>2, ReviewQuiet
  <1>2. CASE NominateUpsert(c) /\ UNCHANGED <<proposal, nominated>>
    <2>1. /\ nomination[c].pc = "upsert"
          /\ UNCHANGED <<skill, latest, registry, definition, decision, audit>>
          /\ \/ \E v \in nomination[c].todo : nominated' = [nominated EXCEPT ![v] = nominated[v] + 1]
             \/ nomination' = [nomination EXCEPT ![c] = Resting]
      BY <1>2 DEF NominateUpsert, skillRows
    <2>2. nomination[c].todo \subseteq SkillVersions
      BY <1>0, <2>1 DEF SkillTypeOK, Resting
    <2>3. nomination' = [nomination EXCEPT ![c] = Resting]
      <3> SUFFICES ASSUME NEW v \in SkillVersions,
                          nominated' = [nominated EXCEPT ![v] = nominated[v] + 1]
                   PROVE  FALSE
        BY <2>1, <2>2
      <3>1. nominated'[v] = nominated[v] + 1 /\ nominated[v] \in Nat
        BY <1>0 DEF SkillTypeOK
      <3> QED
        BY <1>2, <3>1
    <2>4. SkillTypeOK'
      BY <1>0, <1>2, <2>1, <2>3 DEF SkillTypeOK
    <2> QED
      BY <1>2, <2>1, <2>4, ReviewQuiet
  <1>3. ASSUME NominateUpsert(c), NEW v \in nomination[c].todo,
               nominated' = [nominated EXCEPT ![v] = nominated[v] + 1],
               proposal' = [proposal EXCEPT ![v] = [status |-> "pending", from |-> 0]],
               nomination' = [nomination EXCEPT ![c] =
                  IF nomination[c].todo = {v} THEN Resting
                  ELSE [nomination[c] EXCEPT !.todo = nomination[c].todo \ {v}]]
        PROVE  SkillInductive'
    <2>1. /\ nomination[c].pc = "upsert"
          /\ UNCHANGED <<skill, latest, registry, definition, decision, audit>>
      BY <1>3 DEF NominateUpsert, skillRows
    <2>2. nomination[c] \in [pc: {"upsert"}, todo: SUBSET SkillVersions]
      BY <1>0, <2>1 DEF SkillTypeOK, Resting
    <2>3. v \in SkillVersions /\ nominated[v] \in Nat
      BY <1>0, <1>3, <2>2 DEF SkillTypeOK
    <2>4. SkillTypeOK'
      <3>1. nomination' \in [Nominations -> {Resting} \cup [pc: {"upsert"}, todo: SUBSET SkillVersions]]
        <4>1. [nomination[c] EXCEPT !.todo = nomination[c].todo \ {v}]
                 \in [pc: {"upsert"}, todo: SUBSET SkillVersions]
          BY <2>2
        <4> QED
          BY <1>0, <1>3, <4>1 DEF SkillTypeOK
      <3>2. /\ proposal' \in [SkillVersions -> ReviewRow]
            /\ nominated' \in [SkillVersions -> Nat]
        BY <1>0, <1>3, <2>3 DEF SkillTypeOK, ReviewRow
      <3> QED
        BY <1>0, <2>1, <3>1, <3>2 DEF SkillTypeOK
    <2>5. \A w \in SkillVersions : DefinedFrom(w)' = DefinedFrom(w)
      BY <2>1 DEF DefinedFrom
    <2>6. /\ proposal'[v].status = "pending" /\ nominated'[v] = nominated[v] + 1
          /\ \A w \in SkillVersions : w # v => proposal'[w] = proposal[w] /\ nominated'[w] = nominated[w]
      BY <1>0, <1>3, <2>3 DEF SkillTypeOK
    <2>7. DecisionsHold'
      <3> SUFFICES ASSUME NEW d \in Decisions, decision[d].pc = "decide"
                   PROVE  /\ proposal'[decision[d].version].status = "pending"
                          /\ decision[d].next \in 1..(Len(definition[decision[d].version[1]]) + 1)
        BY <2>1 DEF DecisionsHold
      <3>1. decision[d].version \in SkillVersions
        BY <1>0, DecisionType
      <3> QED
        BY <1>0, <2>6, <3>1 DEF DecisionsHold
    <2>8. DecidedAlone'
      BY <1>0, <2>1 DEF DecidedAlone
    <2>9. \A w \in SkillVersions : IsFiniteSet(DefinedFrom(w)) /\ Cardinality(DefinedFrom(w)) \in Nat
      BY <1>0, FS_CardinalityType DEF DefinitionsNominated
    <2>10. DefinitionsNominated'
      BY <1>0, <2>3, <2>5, <2>6, <2>9 DEF DefinitionsNominated, ApprovedIsDefinedOnce
    <2>11. ApprovedIsDefinedOnce'
      BY <1>0, <2>3, <2>5, <2>6, <2>9 DEF ApprovedIsDefinedOnce
    <2> QED
      BY <2>4, <2>7, <2>8, <2>10, <2>11 DEF SkillInductive
  <1>4. CASE NominateUpsert(c)
    BY <1>2, <1>3, <1>4 DEF NominateUpsert
  <1> QED
    BY <1>1, <1>4

\* A decision takes the lock of a pending review and the next number.
LEMMA StartStep ==
    ASSUME SkillInductive, NEW c \in Decisions, DecideStart(c) PROVE SkillInductive'
  <1>0. /\ SkillTypeOK /\ DecisionsHold /\ DecidedAlone /\ DefinitionsNominated
        /\ ApprovedIsDefinedOnce
    BY DEF SkillInductive
  <1>1. PICK v \in SkillVersions :
          /\ proposal[v].status = "pending" /\ ~RowLocked(v)
          /\ decision' = [decision EXCEPT ![c] =
                [pc |-> "decide", version |-> v,
                 next |-> Cardinality(DOMAIN definition[v[1]]) + 1]]
    BY DEF DecideStart, Decidable
  <1>2. UNCHANGED <<skill, latest, registry, proposal, definition, nomination, audit, nominated>>
    BY DEF DecideStart, skillRows
  <1>3. v[1] \in Skills /\ definition[v[1]] \in Seq(SkillVersions)
    BY <1>0 DEF SkillTypeOK, SkillVersions
  <1>4. /\ Cardinality(DOMAIN definition[v[1]]) = Len(definition[v[1]])
        /\ Len(definition[v[1]]) \in Nat
    <2>1. DOMAIN definition[v[1]] = 1..Len(definition[v[1]]) /\ Len(definition[v[1]]) \in Nat
      BY <1>3
    <2>2. Cardinality(1..Len(definition[v[1]])) = Len(definition[v[1]])
      BY <2>1, FS_Interval
    <2> QED
      BY <2>1, <2>2
  <1> DEFINE n == Cardinality(DOMAIN definition[v[1]]) + 1
  <1>5. n \in 1..(Len(definition[v[1]]) + 1)
    BY <1>4
  <1> HIDE DEF n
  <1>6. \A d \in Decisions : decision'[d] = IF d = c THEN [pc |-> "decide", version |-> v, next |-> n]
                                            ELSE decision[d]
    BY <1>0, <1>1 DEF SkillTypeOK, n
  <1>7. SkillTypeOK'
    <2>1. decision' \in [Decisions ->
                           {Resting} \cup [pc: {"decide"}, version: SkillVersions, next: Nat]]
      BY <1>0, <1>1, <1>5 DEF SkillTypeOK, n
    <2> QED
      BY <1>0, <1>2, <2>1 DEF SkillTypeOK
  <1>8. DecisionsHold'
    BY <1>0, <1>1, <1>2, <1>5, <1>6 DEF DecisionsHold
  <1>9. DecidedAlone'
    <2>1. \A d \in Decisions : decision[d].pc = "decide" => decision[d].version # v
      BY <1>1 DEF RowLocked
    <2> QED
      BY <1>0, <1>6, <2>1 DEF DecidedAlone
  <1>10. DefinitionsNominated' /\ ApprovedIsDefinedOnce'
    <2>1. \A w \in SkillVersions : DefinedFrom(w)' = DefinedFrom(w)
      BY <1>2 DEF DefinedFrom
    <2> QED
      BY <1>0, <1>2, <2>1 DEF DefinitionsNominated, ApprovedIsDefinedOnce
  <1> QED
    BY <1>7, <1>8, <1>9, <1>10 DEF SkillInductive

\* What a decision commits.
LEMMA CommitStep ==
    ASSUME SkillInductive, NEW c \in Decisions, DecideCommit(c) PROVE SkillInductive'
  <1>0. /\ SkillTypeOK /\ DecisionsHold /\ DecidedAlone /\ DefinitionsNominated
        /\ ApprovedIsDefinedOnce
    BY DEF SkillInductive
  <1>1. PICK v \in SkillVersions, n \in Nat : decision[c].version = v /\ decision[c].next = n
    BY <1>0, DecisionType DEF DecideCommit
  <1>2. /\ decision[c].pc = "decide"
        /\ decision' = [decision EXCEPT ![c] = Resting]
        /\ \/ /\ n \notin DOMAIN definition[v[1]]
              /\ definition' = [definition EXCEPT ![v[1]] = Append(definition[v[1]], v)]
              /\ proposal' = [proposal EXCEPT ![v] = Approved(v, n)]
           \/ /\ proposal' = [proposal EXCEPT ![v].status = "rejected"]
              /\ UNCHANGED definition
           \/ UNCHANGED <<definition, proposal>>
        /\ UNCHANGED <<skill, latest, registry, nomination, audit, nominated>>
    BY <1>1 DEF DecideCommit, skillRows
  <1>3. /\ v[1] \in Skills /\ definition[v[1]] \in Seq(SkillVersions)
        /\ Len(definition[v[1]]) \in Nat
        /\ DOMAIN definition[v[1]] = 1..Len(definition[v[1]])
        /\ proposal[v].status = "pending"
        /\ n \in 1..(Len(definition[v[1]]) + 1)
    <2>1. v[1] \in Skills /\ definition[v[1]] \in Seq(SkillVersions)
      BY <1>0 DEF SkillTypeOK, SkillVersions
    <2> QED
      BY <1>0, <1>1, <1>2, <2>1 DEF DecisionsHold
  <1>4. \A d \in Decisions : decision'[d] = IF d = c THEN Resting ELSE decision[d]
    BY <1>0, <1>2 DEF SkillTypeOK
  <1>5. /\ decision' \in [Decisions ->
                            {Resting} \cup [pc: {"decide"}, version: SkillVersions, next: Nat]]
        /\ DecidedAlone'
        /\ \A d \in Decisions : decision'[d].pc = "decide" =>
              decision[d].pc = "decide" /\ decision'[d] = decision[d] /\ decision[d].version # v
    BY <1>0, <1>1, <1>2, <1>4 DEF SkillTypeOK, DecidedAlone, Resting
  <1>6. \A w \in SkillVersions : IsFiniteSet(DefinedFrom(w)) /\ Cardinality(DefinedFrom(w)) \in Nat
    BY <1>0, FS_CardinalityType DEF DefinitionsNominated
  \* An approval.
  <1>7. ASSUME n \notin DOMAIN definition[v[1]],
               definition' = [definition EXCEPT ![v[1]] = Append(definition[v[1]], v)],
               proposal' = [proposal EXCEPT ![v] = Approved(v, n)]
        PROVE  SkillInductive'
    <2>1. n = Len(definition[v[1]]) + 1
      BY <1>3, <1>7
    <2> DEFINE a == Append(definition[v[1]], v)
    <2>2. /\ a \in Seq(SkillVersions) /\ Len(a) = n /\ a[n] = v /\ DOMAIN a = 1..n
          /\ \A i \in 1..Len(definition[v[1]]) : a[i] = definition[v[1]][i]
      BY <1>3, <2>1, AppendProperties
    <2>3. /\ definition'[v[1]] = a
          /\ \A o \in Skills : o # v[1] => definition'[o] = definition[o]
      BY <1>0, <1>3, <1>7 DEF SkillTypeOK
    <2> HIDE DEF a
    <2>4. /\ proposal'[v] = [status |-> "approved", from |-> n]
          /\ \A w \in SkillVersions : w # v => proposal'[w] = proposal[w]
      BY <1>0, <1>7 DEF SkillTypeOK, Approved
    <2>5. SkillTypeOK'
      <3>1. proposal' \in [SkillVersions -> ReviewRow]
        BY <1>0, <1>7 DEF SkillTypeOK, ReviewRow, Approved
      <3>2. definition' \in [Skills -> Seq(SkillVersions)]
        BY <1>0, <1>7, <2>2 DEF SkillTypeOK, a
      <3> QED
        BY <1>0, <1>2, <1>5, <3>1, <3>2 DEF SkillTypeOK
    <2>6. DecisionsHold'
      <3> SUFFICES ASSUME NEW d \in Decisions, decision'[d].pc = "decide"
                   PROVE  /\ proposal'[decision'[d].version].status = "pending"
                          /\ decision'[d].next \in 1..(Len(definition'[decision'[d].version[1]]) + 1)
        BY DEF DecisionsHold
      <3>1. /\ decision[d].pc = "decide" /\ decision'[d] = decision[d]
            /\ decision[d].version # v
        BY <1>5
      <3>2. /\ decision[d].version \in SkillVersions /\ decision[d].version[1] \in Skills
            /\ definition[decision[d].version[1]] \in Seq(SkillVersions)
        BY <1>0, <3>1, DecisionType
      <3>3. /\ proposal[decision[d].version].status = "pending"
            /\ decision[d].next \in 1..(Len(definition[decision[d].version[1]]) + 1)
        BY <1>0, <3>1 DEF DecisionsHold
      <3>4. /\ Len(definition[decision[d].version[1]]) \in Nat
            /\ Len(definition'[decision[d].version[1]]) \in Nat
            /\ Len(definition'[decision[d].version[1]]) >= Len(definition[decision[d].version[1]])
        <4>1. CASE decision[d].version[1] = v[1]
          BY <1>3, <2>1, <2>2, <2>3, <4>1
        <4>2. CASE decision[d].version[1] # v[1]
          BY <2>3, <3>2, <4>2
        <4> QED
          BY <4>1, <4>2
      <3>5. proposal'[decision[d].version].status = "pending"
        BY <2>4, <3>1, <3>2, <3>3
      <3>6. decision[d].next \in 1..(Len(definition'[decision[d].version[1]]) + 1)
        BY <3>3, <3>4
      <3> QED
        BY <3>1, <3>5, <3>6
    <2>7. \A w \in SkillVersions : w # v => DefinedFrom(w)' = DefinedFrom(w)
      <3> SUFFICES ASSUME NEW w \in SkillVersions, w # v PROVE DefinedFrom(w)' = DefinedFrom(w)
        OBVIOUS
      <3>1. w[1] \in Skills
        BY DEF SkillVersions
      <3>2. CASE w[1] = v[1]
        <4>1. /\ DOMAIN definition'[w[1]] = 1..n
              /\ DOMAIN definition[w[1]] = 1..(n - 1)
              /\ definition'[w[1]] = a
          BY <1>3, <2>1, <2>2, <2>3, <3>2
        <4>2. \A i \in 1..n : i = n \/ i \in 1..(n - 1)
          OBVIOUS
        <4>3. a[n] # w /\ \A i \in 1..(n - 1) : a[i] = definition[w[1]][i] /\ i \in 1..n
          BY <1>3, <2>1, <2>2, <3>2
        <4>4. \A i : i \in 1..n /\ a[i] = w <=> i \in 1..(n - 1) /\ definition[w[1]][i] = w
          BY <4>2, <4>3
        <4> QED
          BY <4>1, <4>4 DEF DefinedFrom
      <3>3. CASE w[1] # v[1]
        BY <2>3, <3>1, <3>3 DEF DefinedFrom
      <3> QED
        BY <3>2, <3>3
    <2>8. DefinedFrom(v)' = DefinedFrom(v) \cup {n}
      BY <1>3, <2>1, <2>2, <2>3 DEF DefinedFrom
    <2>9. n \notin DefinedFrom(v)
      BY <1>7 DEF DefinedFrom
    <2>10. /\ IsFiniteSet(DefinedFrom(v)')
           /\ Cardinality(DefinedFrom(v)') = Cardinality(DefinedFrom(v)) + 1
      BY <1>6, <2>8, <2>9, FS_AddElement
    <2>11. Cardinality(DefinedFrom(v)) < nominated[v] /\ nominated[v] \in Nat
      BY <1>0, <1>3 DEF DefinitionsNominated, SkillTypeOK
    <2>12. DefinitionsNominated'
      BY <1>0, <1>2, <2>4, <2>7, <2>10 DEF DefinitionsNominated
    <2>13. ApprovedIsDefinedOnce'
      <3> SUFFICES ASSUME NEW w \in SkillVersions
                   PROVE  /\ proposal'[w].status = "approved" => proposal'[w].from \in DefinedFrom(w)'
                          /\ Cardinality(DefinedFrom(w)') <= nominated[w]
        BY <1>2 DEF ApprovedIsDefinedOnce
      <3>1. CASE w = v
        BY <1>6, <2>4, <2>8, <2>10, <2>11, <3>1
      <3>2. CASE w # v
        BY <1>0, <2>4, <2>7, <3>2 DEF ApprovedIsDefinedOnce
      <3> QED
        BY <3>1, <3>2
    <2> QED
      BY <1>5, <2>5, <2>6, <2>12, <2>13 DEF SkillInductive
  \* A rejection, or nothing.
  <1>8. ASSUME UNCHANGED definition,
               \/ proposal' = [proposal EXCEPT ![v].status = "rejected"]
               \/ UNCHANGED proposal
        PROVE  SkillInductive'
    <2>1. proposal[v] \in [status: {"pending", "approved", "rejected"}, from: Nat]
      BY <1>0, <1>3 DEF SkillTypeOK, ReviewRow, NoReview
    <2>2. /\ proposal'[v] \in ReviewRow /\ proposal'[v].status \in {"rejected", "pending"}
          /\ \A w \in SkillVersions : w # v => proposal'[w] = proposal[w]
          /\ proposal' \in [SkillVersions -> ReviewRow]
      <3>1. CASE UNCHANGED proposal
        BY <1>0, <1>3, <3>1 DEF SkillTypeOK
      <3>2. CASE proposal' = [proposal EXCEPT ![v].status = "rejected"]
        <4>1. proposal' = [proposal EXCEPT ![v] = [proposal[v] EXCEPT !.status = "rejected"]]
          BY <1>0, <3>2 DEF SkillTypeOK
        <4>2. /\ [proposal[v] EXCEPT !.status = "rejected"] \in ReviewRow
              /\ [proposal[v] EXCEPT !.status = "rejected"].status = "rejected"
          BY <2>1 DEF ReviewRow
        <4> QED
          BY <1>0, <4>1, <4>2 DEF SkillTypeOK
      <3> QED
        BY <1>8, <3>1, <3>2
    <2>3. SkillTypeOK'
      BY <1>0, <1>2, <1>5, <1>8, <2>2 DEF SkillTypeOK
    <2>4. \A w \in SkillVersions : DefinedFrom(w)' = DefinedFrom(w)
      BY <1>8 DEF DefinedFrom
    <2>5. DecisionsHold'
      <3> SUFFICES ASSUME NEW d \in Decisions, decision'[d].pc = "decide"
                   PROVE  /\ proposal'[decision'[d].version].status = "pending"
                          /\ decision'[d].next \in 1..(Len(definition[decision'[d].version[1]]) + 1)
        BY <1>8 DEF DecisionsHold
      <3>1. /\ decision[d].pc = "decide" /\ decision'[d] = decision[d]
            /\ decision[d].version # v
        BY <1>5
      <3>2. decision[d].version \in SkillVersions
        BY <1>0, <3>1, DecisionType
      <3> QED
        BY <1>0, <2>2, <3>1, <3>2 DEF DecisionsHold
    <2>6. DefinitionsNominated'
      BY <1>0, <1>2, <1>3, <2>2, <2>4 DEF DefinitionsNominated
    <2>7. ApprovedIsDefinedOnce'
      BY <1>0, <1>2, <2>2, <2>4 DEF ApprovedIsDefinedOnce
    <2> QED
      BY <1>5, <2>3, <2>5, <2>6, <2>7 DEF SkillInductive
  <1> QED
    BY <1>2, <1>7, <1>8

LEMMA NextSkill == SkillInductive /\ [SkillNext]_skillVars => SkillInductive'
  <1> SUFFICES ASSUME SkillInductive, [SkillNext]_skillVars PROVE SkillInductive'
    OBVIOUS
  <1>1. CASE UNCHANGED skillVars
    <2>1. SkillTypeOK' /\ UNCHANGED <<proposal, definition, decision, nominated>>
      BY <1>1 DEF skillVars, SkillInductive, SkillTypeOK
    <2> QED
      BY <2>1, ReviewQuiet
  <1> QED
    BY <1>1, LifeStep, NominateStep, StartStep, CommitStep DEF SkillNext

\* Skills, reviews, definitions and the calls under way keep their types.
THEOREM SkillTypeCorrect == SkillSpec => []SkillTypeOK
  <1>1. SkillInductive => SkillTypeOK
    BY DEF SkillInductive
  <1> QED
    BY <1>1, InitSkill, NextSkill, PTL DEF SkillSpec

\* An approved review has its definition, and no nomination gives two.
THEOREM ApprovedIsDefinedOnceAlways == SkillSpec => []ApprovedIsDefinedOnce
  <1>1. SkillInductive => ApprovedIsDefinedOnce
    BY DEF SkillInductive
  <1> QED
    BY <1>1, InitSkill, NextSkill, PTL DEF SkillSpec
-----------------------------------------------------------------------------
(* Facts, the graph and what answers show *)

FactStamp == [at: Nat, finer: BOOLEAN]

FactItem == [fact: Facts, id: BOOLEAN]

ReviewCall == {IdleCall} \cup [pc: {"write"}, fact: Facts, to: FactStatus, read: Nat]

CreationCall == {IdleCall, EndedCall, [pc |-> "insert"]} \cup [pc: {"graph"}, fact: Facts]

TracedQuery == [pc: {"trace"}, since: Nat, items: SUBSET FactItem]

RepliedQuery == [pc: {"replied"}, items: SUBSET FactItem, at: Nat]

DrawingCall == [pc: {"draw"}, batch: SUBSET Events, repaired: BOOLEAN]

MarkingCall == [pc: {"mark"}, at: Events, batch: SUBSET Events, repaired: BOOLEAN]

ExtractionCall == {IdleCall} \cup [pc: {"ask", "mark"}, read: SUBSET Memories]

TableTypeOK ==
    /\ fact \in [Facts -> FactStatus \cup {"none"}]
    /\ stamp \in [Facts -> FactStamp]
    /\ lastActive \in [Facts -> Nat]
    /\ submitted \subseteq Facts /\ approved \subseteq Facts
    /\ time \in Nat

GraphTypeOK ==
    /\ entity \subseteq Names
    /\ event \in [Events -> {"none", "pending", "applied"}]
    /\ projecting \in [Facts -> {"no", "vertex", "edge"}]
    /\ vertices \subseteq Names /\ edges \subseteq Facts /\ dropped \subseteq Events
    /\ projection \in [Projections -> {IdleCall} \cup DrawingCall \cup MarkingCall]

CallTypeOK ==
    /\ review \in [Reviews -> ReviewCall]
    /\ creation \in [Writes -> CreationCall]
    /\ query \in [Queries -> {IdleCall} \cup TracedQuery \cup RepliedQuery]
    /\ cached \in [until: Nat, items: SUBSET FactItem]

MemoryTypeOK ==
    /\ extraction \in [Extractions -> ExtractionCall]
    /\ processed \subseteq Memories /\ covered \subseteq Memories /\ excused \subseteq Memories
    /\ restarted \in Nat

FactTypeOK == TableTypeOK /\ GraphTypeOK /\ CallTypeOK /\ MemoryTypeOK

\* What the rows say of the reviews and of the time.
TableSound ==
    \A f \in Facts :
        /\ f \in submitted => fact[f] # "none"
        /\ fact[f] = "active" /\ f \in submitted => f \in approved
        /\ fact[f] = "active" => lastActive[f] = time
        /\ lastActive[f] <= time

\* An item that may be shown until a time.
MayShow(i, until) ==
    /\ fact[i.fact] # "none"
    /\ i.fact \in submitted => i.fact \in approved
    /\ until <= lastActive[i.fact] + CacheTTL + QueryTime

\* What reviews and queries have read, the answers and the cache.
AnswersSound ==
    /\ \A r \in Reviews : review[r].pc = "write" => fact[review[r].fact] # "none"
    /\ \A q \in Queries : query[q].pc = "trace" =>
          /\ time <= query[q].since + QueryTime
          /\ \A i \in query[q].items : MayShow(i, query[q].since + QueryTime + CacheTTL)
    /\ \A q \in Queries : query[q].pc = "replied" =>
          \A i \in query[q].items : MayShow(i, query[q].at)
    /\ \A i \in cached.items : MayShow(i, cached.until)

\* Vertices that are marked next have been drawn.
DrawnOrDropped(e) == e.kind = "vertex" /\ e \notin dropped => Subject[e.fact] \in vertices

GraphSound ==
    /\ \A p \in Projections : projection[p].pc = "mark" => DrawnOrDropped(projection[p].at)
    /\ \A e \in Events : event[e] = "applied" => DrawnOrDropped(e)

MemorySound ==
    /\ \A x \in Extractions :
          extraction[x].pc = "mark" => extraction[x].read \subseteq covered \cup excused
    /\ processed \subseteq covered \cup excused

TableInductive  == TableTypeOK /\ TableSound
AnswerInductive == CallTypeOK /\ AnswersSound
GraphInductive  == GraphTypeOK /\ GraphSound
MemoryInductive == MemoryTypeOK /\ MemorySound

FactInductive == TableInductive /\ AnswerInductive /\ GraphInductive /\ MemoryInductive

\* The rows change in one way: once there they stay, and a fact that is
\* submitted is a new one.
TableKept ==
    /\ \A f \in Facts :
          /\ fact[f] # "none" => fact'[f] # "none"
          /\ f \in submitted' => f \in submitted \/ fact[f] = "none"
          /\ lastActive[f] <= lastActive'[f]
    /\ approved \subseteq approved'

\* A statement that sets the status of a row.
LEMMA StatusSet ==
    ASSUME TableInductive, NEW f \in Facts, NEW s \in FactStatus, SetStatus(f, s),
           UNCHANGED time
    PROVE  /\ fact' \in [Facts -> FactStatus \cup {"none"}]
           /\ stamp' \in [Facts -> FactStamp]
           /\ lastActive' \in [Facts -> Nat]
           /\ fact'[f] = s
           /\ s = "active" => lastActive'[f] = time
           /\ lastActive[f] <= lastActive'[f] /\ lastActive'[f] <= time
           /\ \A g \in Facts : g # f => fact'[g] = fact[g] /\ lastActive'[g] = lastActive[g]
  <1>0. /\ TableTypeOK /\ lastActive[f] \in Nat /\ lastActive[f] <= time /\ time \in Nat
    BY DEF TableInductive, TableTypeOK, TableSound
  <1>1. fact' \in [Facts -> FactStatus \cup {"none"}] /\ fact'[f] = s
        /\ \A g \in Facts : g # f => fact'[g] = fact[g]
    BY <1>0 DEF SetStatus, TableTypeOK
  <1>2. stamp' \in [Facts -> FactStamp]
    BY <1>0 DEF SetStatus, TableTypeOK, FactStamp
  <1>3. /\ lastActive' \in [Facts -> Nat] /\ (s = "active" => lastActive'[f] = time)
        /\ lastActive'[f] \in {lastActive[f], time}
        /\ \A g \in Facts : g # f => lastActive'[g] = lastActive[g]
    BY <1>0 DEF SetStatus, TableTypeOK
  <1> QED
    BY <1>0, <1>1, <1>2, <1>3

\* A fact that is submitted.
LEMMA CandidateStep ==
    ASSUME TableInductive, NEW f \in Facts, InsertCandidate(f), UNCHANGED time
    PROVE  TableInductive' /\ TableKept
  <1>0. TableTypeOK /\ TableSound /\ fact[f] = "none" /\ "candidate" \in FactStatus
    BY DEF TableInductive, InsertCandidate, Unused, FactStatus
  <1>1. SetStatus(f, "candidate") /\ submitted' = submitted \cup {f} /\ approved' = approved
    BY DEF InsertCandidate
  <1>2. /\ fact' \in [Facts -> FactStatus \cup {"none"}]
        /\ stamp' \in [Facts -> FactStamp]
        /\ lastActive' \in [Facts -> Nat]
        /\ fact'[f] = "candidate"
        /\ lastActive[f] <= lastActive'[f] /\ lastActive'[f] <= time
        /\ \A g \in Facts : g # f => fact'[g] = fact[g] /\ lastActive'[g] = lastActive[g]
    BY <1>0, <1>1, StatusSet
  <1>3. TableTypeOK'
    BY <1>0, <1>1, <1>2 DEF TableTypeOK
  <1>4. TableSound'
    BY <1>0, <1>1, <1>2 DEF TableSound
  <1>5. TableKept
    BY <1>0, <1>1, <1>2 DEF TableKept, TableTypeOK
  <1> QED
    BY <1>3, <1>4, <1>5 DEF TableInductive

\* A review that is written, and a fact that is superseded.
LEMMA DecidedStep ==
    ASSUME TableInductive, NEW f \in Facts, NEW s \in FactStatus, SetStatus(f, s),
           UNCHANGED <<time, submitted>>, fact[f] # "none",
           approved' = IF s = "active" THEN approved \cup {f} ELSE approved
    PROVE  TableInductive' /\ TableKept
  <1>0. TableTypeOK /\ TableSound /\ s # "none"
    BY DEF TableInductive, FactStatus
  <1>2. /\ fact' \in [Facts -> FactStatus \cup {"none"}]
        /\ stamp' \in [Facts -> FactStamp]
        /\ lastActive' \in [Facts -> Nat]
        /\ fact'[f] = s
        /\ s = "active" => lastActive'[f] = time
        /\ lastActive[f] <= lastActive'[f] /\ lastActive'[f] <= time
        /\ \A g \in Facts : g # f => fact'[g] = fact[g] /\ lastActive'[g] = lastActive[g]
    BY <1>0, StatusSet
  <1>3. TableTypeOK'
    BY <1>0, <1>2 DEF TableTypeOK
  <1>4. TableSound'
    BY <1>0, <1>2 DEF TableSound
  <1>5. TableKept
    BY <1>0, <1>2 DEF TableKept, TableTypeOK
  <1> QED
    BY <1>3, <1>4, <1>5 DEF TableInductive

\* The rows of facts, step by step.
LEMMA TableStays ==
    ASSUME TableInductive, UNCHANGED <<table, time>> PROVE TableInductive' /\ TableKept
  BY DEF TableInductive, TableTypeOK, TableSound, TableKept, table

LEMMA TableStep ==
    ASSUME TableInductive, AnswerInductive, FactNext PROVE TableInductive' /\ TableKept
  <1>0. TableTypeOK /\ TableSound
    BY DEF TableInductive
  <1>1. ASSUME NEW f \in Facts, SubmitUserFact(f) PROVE TableInductive' /\ TableKept
    BY <1>1, CandidateStep DEF SubmitUserFact
  <1>2. ASSUME NEW r \in Reviews, ReviewWrite(r) PROVE TableInductive' /\ TableKept
    <2>1. review[r] \in [pc: {"write"}, fact: Facts, to: FactStatus, read: Nat]
      BY <1>2 DEF ReviewWrite, AnswerInductive, CallTypeOK, ReviewCall, IdleCall
    <2>2. CASE UNCHANGED table
      BY <1>2, <2>2, TableStays DEF ReviewWrite
    <2>3. CASE ~UNCHANGED table
      <3>1. /\ SetStatus(review[r].fact, review[r].to) /\ UNCHANGED <<time, submitted>>
            /\ approved' = IF review[r].to = "active" THEN approved \cup {review[r].fact}
                           ELSE approved
        BY <1>2, <2>3 DEF ReviewWrite
      <3>2. /\ review[r].fact \in Facts /\ review[r].to \in FactStatus
            /\ fact[review[r].fact] # "none"
        BY <1>2, <2>1 DEF ReviewWrite, AnswerInductive, AnswersSound
      <3> QED
        BY <3>1, <3>2, DecidedStep
    <2> QED
      BY <2>2, <2>3
  <1>3. ASSUME NEW w \in Writes, WriteStart(w) PROVE TableInductive' /\ TableKept
    <2>1. CASE UNCHANGED table
      BY <1>3, <2>1, TableStays DEF WriteStart
    <2>2. ASSUME NEW f \in Facts \ Unused, SetStatus(f, "superseded"),
                 UNCHANGED <<submitted, approved>>
          PROVE  TableInductive' /\ TableKept
      BY <1>3, <2>2, DecidedStep DEF WriteStart, Unused, FactStatus
    <2> QED
      BY <1>3, <2>1, <2>2 DEF WriteStart
  <1>4. ASSUME NEW w \in Writes, WriteInsert(w) PROVE TableInductive' /\ TableKept
    <2>1. CASE UNCHANGED table
      BY <1>4, <2>1, TableStays DEF WriteInsert
    <2>2. ASSUME NEW f \in Unused, NEW finer \in BOOLEAN,
                 fact' = [fact EXCEPT ![f] = "active"],
                 stamp' = [stamp EXCEPT ![f] = [at |-> time, finer |-> finer]],
                 lastActive' = [lastActive EXCEPT ![f] = time],
                 UNCHANGED <<submitted, approved>>
          PROVE  TableInductive' /\ TableKept
      <3>0. f \in Facts /\ fact[f] = "none" /\ f \notin submitted /\ time' = time
        BY <1>0, <1>4, <2>2 DEF Unused, TableSound, WriteInsert
      <3>1. TableTypeOK'
        BY <1>0, <2>2, <3>0 DEF TableTypeOK, FactStamp, FactStatus
      <3>2. TableSound'
        BY <1>0, <2>2, <3>0 DEF TableTypeOK, TableSound
      <3>3. TableKept
        BY <1>0, <2>2, <3>0 DEF TableTypeOK, TableSound, TableKept
      <3> QED
        BY <3>1, <3>2, <3>3 DEF TableInductive
    <2> QED
      BY <1>4, <2>1, <2>2 DEF WriteInsert
  <1>5. ASSUME NEW x \in Extractions, ExtractSubmit(x) PROVE TableInductive' /\ TableKept
    BY <1>5, TableStays, CandidateStep DEF ExtractSubmit
  <1>6. ASSUME ClockTicks PROVE TableInductive' /\ TableKept
    <2>0. time' = time + 1 /\ time \in Nat /\ UNCHANGED <<fact, stamp, submitted, approved>>
      BY <1>0, <1>6 DEF ClockTicks, TableTypeOK
    <2>1. \A f \in Facts : lastActive'[f] = IF fact[f] = "active" THEN time' ELSE lastActive[f]
      BY <1>6 DEF ClockTicks
    <2>2. TableTypeOK'
      BY <1>0, <1>6, <2>0 DEF ClockTicks, TableTypeOK
    <2>3. TableSound'
      BY <1>0, <2>0, <2>1 DEF TableTypeOK, TableSound
    <2>4. TableKept
      BY <1>0, <2>0, <2>1 DEF TableTypeOK, TableSound, TableKept
    <2> QED
      BY <2>2, <2>3, <2>4 DEF TableInductive
  <1>7. ASSUME UNCHANGED <<table, time>> PROVE TableInductive' /\ TableKept
    BY <1>7, TableStays
  <1>8. \/ \E f \in Facts : SubmitUserFact(f)
        \/ \E r \in Reviews : ReviewWrite(r)
        \/ \E w \in Writes : WriteStart(w) \/ WriteInsert(w)
        \/ \E x \in Extractions : ExtractSubmit(x)
        \/ ClockTicks
        \/ UNCHANGED <<table, time>>
    BY DEF FactNext, Project, ReviewRead, WriteGraph, ProjectionStart, Draw, Mark, ProjectionEnd,
           QueryStart, QueryEnd, QueryAgain, ExtractRead, ExtractMark, FactRestart
  <1> QED
    BY <1>1, <1>2, <1>3, <1>4, <1>5, <1>6, <1>7, <1>8

-----------------------------------------------------------------------------
(* Reviews, writes, queries and the cache *)

LEMMA MayShowStays ==
    ASSUME TableTypeOK, TableTypeOK', TableKept, FactAssumption,
           NEW i \in FactItem, NEW until \in Nat, MayShow(i, until)
    PROVE  MayShow(i, until)'
  <1>1. /\ i.fact \in Facts /\ lastActive[i.fact] \in Nat /\ lastActive'[i.fact] \in Nat
        /\ CacheTTL \in Nat /\ QueryTime \in Nat
    BY DEF FactItem, TableTypeOK, FactAssumption
  <1>2. fact'[i.fact] # "none" /\ lastActive[i.fact] <= lastActive'[i.fact]
    BY <1>1 DEF TableKept, MayShow
  <1>3. i.fact \in submitted' => i.fact \in approved'
    BY <1>1 DEF TableKept, MayShow
  <1>4. until <= lastActive'[i.fact] + CacheTTL + QueryTime
    BY <1>1, <1>2 DEF MayShow
  <1> QED
    BY <1>2, <1>3, <1>4 DEF MayShow

\* What a query reads of the graph.
LEMMA ReadItems ==
    ASSUME TableInductive, FactAssumption, GraphTypeOK, NEW items \in GraphItems
    PROVE  /\ Candidates(items) \subseteq FactItem
           /\ \A i \in Candidates(items) : MayShow(i, time + QueryTime + CacheTTL)
  <1>0. TableTypeOK /\ TableSound /\ time \in Nat /\ CacheTTL \in Nat /\ QueryTime \in Nat
    BY DEF TableInductive, TableTypeOK, FactAssumption
  <1>1. ASSUME NEW i \in items, i.id PROVE \E f \in ActiveFacts : i = [fact |-> f, id |-> TRUE]
    <2>1. CASE i \in SqlItems
      BY <2>1 DEF SqlItems, Item
    <2>2. CASE i \in CypherItems
      BY <1>1, <2>2 DEF CypherItems, Item
    <2>3. items = SqlItems \/ items = CypherItems
      BY DEF GraphItems
    <2> QED
      BY <1>1, <2>1, <2>2, <2>3
  <1>2. ASSUME NEW f \in ActiveFacts, NEW i, i = [fact |-> f, id |-> TRUE]
        PROVE  i \in FactItem /\ MayShow(i, time + QueryTime + CacheTTL)
    <2>1. f \in Facts /\ fact[f] = "active" /\ lastActive[f] = time /\ i.fact = f
      BY <1>0, <1>2 DEF ActiveFacts, TableSound
    <2> QED
      BY <1>0, <1>2, <2>1 DEF FactItem, MayShow, TableSound
  <1> QED
    BY <1>1, <1>2 DEF Candidates

\* Calls that are left alone.
LEMMA AnswersStay ==
    ASSUME FactInductive, TableInductive', TableKept, FactAssumption,
           UNCHANGED <<query, cached>>,
           \A r \in Reviews : review'[r].pc = "write" =>
              review[r].pc = "write" /\ review'[r] = review[r],
           review' \in [Reviews -> ReviewCall], creation' \in [Writes -> CreationCall],
           UNCHANGED time \/ ClockTicks
    PROVE  AnswerInductive'
  <1>0. /\ TableTypeOK /\ TableTypeOK' /\ CallTypeOK /\ AnswersSound
        /\ time \in Nat /\ CacheTTL \in Nat /\ QueryTime \in Nat
    BY DEF FactInductive, TableInductive, AnswerInductive, TableTypeOK, FactAssumption
  <1>1. CallTypeOK'
    BY <1>0 DEF CallTypeOK
  <1>2. \A r \in Reviews : review'[r].pc = "write" => fact'[review'[r].fact] # "none"
    <2> SUFFICES ASSUME NEW r \in Reviews, review'[r].pc = "write"
                 PROVE  fact'[review[r].fact] # "none" /\ review'[r] = review[r]
      OBVIOUS
    <2>1. review[r].pc = "write" /\ review'[r] = review[r]
      OBVIOUS
    <2>2. review[r].fact \in Facts
      BY <1>0, <2>1 DEF CallTypeOK, ReviewCall, IdleCall
    <2> QED
      BY <1>0, <2>1, <2>2 DEF AnswersSound, TableKept
  <1>3. ASSUME NEW q \in Queries, query[q].pc = "trace"
        PROVE  /\ time' <= query[q].since + QueryTime
               /\ \A i \in query[q].items : MayShow(i, query[q].since + QueryTime + CacheTTL)'
    <2>1. query[q] \in TracedQuery
      BY <1>0, <1>3 DEF CallTypeOK, IdleCall, RepliedQuery
    <2>2. query[q].since \in Nat /\ query[q].items \subseteq FactItem
      BY <2>1 DEF TracedQuery
    <2>3. time' <= query[q].since + QueryTime
      BY <1>0, <1>3, <2>2 DEF AnswersSound, ClockTicks
    <2>4. query[q].since + QueryTime + CacheTTL \in Nat
      BY <1>0, <2>2
    <2> QED
      BY <1>0, <1>3, <2>2, <2>3, <2>4, MayShowStays DEF AnswersSound
  <1>4. ASSUME NEW q \in Queries, query[q].pc = "replied"
        PROVE  \A i \in query[q].items : MayShow(i, query[q].at)'
    <2>1. query[q] \in RepliedQuery
      BY <1>0, <1>4 DEF CallTypeOK, IdleCall, TracedQuery
    <2>2. query[q].at \in Nat /\ query[q].items \subseteq FactItem
      BY <2>1 DEF RepliedQuery
    <2> QED
      BY <1>0, <1>4, <2>2, MayShowStays DEF AnswersSound
  <1>5. \A i \in cached.items : MayShow(i, cached.until)'
    BY <1>0, MayShowStays DEF AnswersSound, CallTypeOK
  <1>6. AnswersSound'
    BY <1>2, <1>3, <1>4, <1>5 DEF AnswersSound
  <1> QED
    BY <1>1, <1>6 DEF AnswerInductive

\* A query that goes on, with what it reads and leaves in the cache.
LEMMA QueryMoves ==
    ASSUME FactInductive, NEW q \in Queries,
           NEW new \in {IdleCall} \cup TracedQuery \cup RepliedQuery,
           query' = [query EXCEPT ![q] = new],
           UNCHANGED <<table, time, review, creation>>,
           new.pc = "trace" => /\ time <= new.since + QueryTime
                               /\ \A i \in new.items : MayShow(i, new.since + QueryTime + CacheTTL),
           new.pc = "replied" => \A i \in new.items : MayShow(i, new.at),
           cached' \in [until: Nat, items: SUBSET FactItem],
           \A i \in cached'.items : MayShow(i, cached'.until)
    PROVE  AnswerInductive'
  <1>0. CallTypeOK /\ AnswersSound
    BY DEF FactInductive, AnswerInductive
  <1>1. CallTypeOK'
    BY <1>0 DEF CallTypeOK
  <1>2. \A o \in Queries : query'[o] = IF o = q THEN new ELSE query[o]
    BY <1>0 DEF CallTypeOK
  <1>3. \A i, until : MayShow(i, until)' = MayShow(i, until)
    BY DEF MayShow, table
  <1>4. UNCHANGED <<fact, time, review>>
    BY DEF table
  <1>5. AnswersSound'
    BY <1>0, <1>2, <1>3, <1>4 DEF AnswersSound
  <1> QED
    BY <1>1, <1>5 DEF AnswerInductive

\* A query, by its steps.
LEMMA QueryStep ==
    ASSUME FactInductive, FactAssumption, NEW q \in Queries,
           QueryStart(q) \/ QueryEnd(q) \/ QueryAgain(q)
    PROVE  AnswerInductive'
  <1>0. /\ TableInductive /\ TableTypeOK /\ CallTypeOK /\ AnswersSound /\ GraphTypeOK
        /\ time \in Nat /\ CacheTTL \in Nat /\ QueryTime \in Nat
    BY DEF FactInductive, TableInductive, AnswerInductive, GraphInductive, TableTypeOK,
           FactAssumption
  <1>1. UNCHANGED <<table, time, review, creation>>
    BY DEF QueryStart, QueryEnd, QueryAgain
  <1>2. /\ cached.until \in Nat /\ cached.items \subseteq FactItem
        /\ \A i \in cached.items : MayShow(i, cached.until)
    BY <1>0 DEF CallTypeOK, AnswersSound
  <1>3. CASE QueryAgain(q)
    <2>1. query' = [query EXCEPT ![q] = IdleCall] /\ cached' = cached
      BY <1>3 DEF QueryAgain
    <2>2. IdleCall.pc = "idle"
      BY DEF IdleCall
    <2> QED
      BY <1>0, <1>1, <1>2, <2>1, <2>2, QueryMoves DEF CallTypeOK
  <1>4. ASSUME QueryStart(q), Usable, query' = [query EXCEPT ![q] = Replied(cached.items)],
               UNCHANGED cached
        PROVE  AnswerInductive'
    <2>1. PICK new : new = [pc |-> "replied", items |-> cached.items, at |-> time]
      OBVIOUS
    <2>2. new \in RepliedQuery /\ query' = [query EXCEPT ![q] = new]
      BY <1>0, <1>2, <1>4, <2>1 DEF RepliedQuery, Replied
    <2>3. time < cached.until
      BY <1>4 DEF Usable
    <2>4. \A i \in cached.items : MayShow(i, time)
      <3> SUFFICES ASSUME NEW i \in cached.items PROVE MayShow(i, time)
        OBVIOUS
      <3>1. MayShow(i, cached.until) /\ i.fact \in Facts /\ lastActive[i.fact] \in Nat
        BY <1>0, <1>2 DEF FactItem, TableTypeOK
      <3> QED
        BY <1>0, <1>2, <2>3, <3>1 DEF MayShow
    <2>5. new.pc = "replied" /\ new.items = cached.items /\ new.at = time
      BY <2>1
    <2> QED
      BY <1>0, <1>1, <1>2, <1>4, <2>2, <2>4, <2>5, QueryMoves DEF CallTypeOK
  <1>5. ASSUME QueryStart(q), cached' = NoEntry, NEW items \in GraphItems,
               query' = [query EXCEPT ![q] = [pc |-> "trace", since |-> time,
                                              items |-> Candidates(items)]]
        PROVE  AnswerInductive'
    <2>1. PICK new : new = [pc |-> "trace", since |-> time, items |-> Candidates(items)]
      OBVIOUS
    <2>2. /\ Candidates(items) \subseteq FactItem
          /\ \A i \in Candidates(items) : MayShow(i, time + QueryTime + CacheTTL)
      BY <1>0, ReadItems
    <2>3. new \in TracedQuery /\ query' = [query EXCEPT ![q] = new]
      BY <1>0, <1>5, <2>1, <2>2 DEF TracedQuery
    <2>4. new.pc = "trace" /\ new.items = Candidates(items) /\ new.since = time
      BY <2>1
    <2>5. cached' \in [until: Nat, items: SUBSET FactItem] /\ cached'.items = {}
      BY <1>5 DEF NoEntry
    <2>6. time <= time + QueryTime
      BY <1>0
    <2> QED
      BY <1>1, <2>2, <2>3, <2>4, <2>5, <2>6, QueryMoves
  <1>6. CASE QueryEnd(q)
    <2>0. query[q].pc = "trace" /\ query[q] \in TracedQuery
      BY <1>0, <1>6 DEF QueryEnd, CallTypeOK, IdleCall, RepliedQuery
    <2>1. /\ query[q].since \in Nat /\ query[q].items \subseteq FactItem
          /\ time <= query[q].since + QueryTime
          /\ \A i \in query[q].items : MayShow(i, query[q].since + QueryTime + CacheTTL)
      BY <1>0, <2>0 DEF TracedQuery, AnswersSound
    <2>2. ASSUME NEW i \in query[q].items, NEW until \in Nat,
                 until <= query[q].since + QueryTime + CacheTTL
          PROVE  MayShow(i, until)
      <3>1. /\ MayShow(i, query[q].since + QueryTime + CacheTTL)
            /\ i.fact \in Facts /\ lastActive[i.fact] \in Nat
        BY <1>0, <2>1 DEF FactItem, TableTypeOK
      <3> QED
        BY <1>0, <2>1, <2>2, <3>1 DEF MayShow
    <2>3. CASE /\ query' = [query EXCEPT ![q] = IdleCall]
               /\ UNCHANGED cached
      <3>1. IdleCall.pc = "idle"
        BY DEF IdleCall
      <3> QED
        BY <1>0, <1>1, <1>2, <2>3, <3>1, QueryMoves DEF CallTypeOK
    <2>4. CASE /\ query' = [query EXCEPT ![q] = Replied(query[q].items)]
               /\ cached' = [until |-> time + CacheTTL, items |-> query[q].items]
      <3>1. PICK new : new = [pc |-> "replied", items |-> query[q].items, at |-> time]
        OBVIOUS
      <3>2. new \in RepliedQuery /\ query' = [query EXCEPT ![q] = new]
        BY <1>0, <2>1, <2>4, <3>1 DEF RepliedQuery, Replied
      <3>3. new.pc = "replied" /\ new.items = query[q].items /\ new.at = time
        BY <3>1
      <3>4. /\ cached' \in [until: Nat, items: SUBSET FactItem]
            /\ cached'.items = query[q].items /\ cached'.until = time + CacheTTL
        BY <1>0, <2>1, <2>4
      <3>5. /\ time <= query[q].since + QueryTime + CacheTTL
            /\ time + CacheTTL <= query[q].since + QueryTime + CacheTTL
            /\ time + CacheTTL \in Nat
        BY <1>0, <2>1
      <3>6. \A i \in query[q].items : MayShow(i, time) /\ MayShow(i, time + CacheTTL)
        BY <1>0, <2>2, <3>5
      <3> QED
        BY <1>1, <3>2, <3>3, <3>4, <3>6, QueryMoves
    <2> QED
      BY <1>6, <2>3, <2>4 DEF QueryEnd
  <1> QED
    BY <1>3, <1>4, <1>5, <1>6 DEF QueryStart

LEMMA AnswerStep ==
    ASSUME FactInductive, FactAssumption, FactNext PROVE AnswerInductive'
  <1>0. /\ TableInductive /\ CallTypeOK /\ AnswersSound
        /\ TableInductive' /\ TableKept
    BY TableStep DEF FactInductive, AnswerInductive
  <1>1. ASSUME NEW r \in Reviews, ReviewRead(r) PROVE AnswerInductive'
    <2>1. PICK f \in Facts \ Unused, s \in {Outcome[a] : a \in DOMAIN Outcome} :
             review' = [review EXCEPT ![r] = [pc |-> "write", fact |-> f, to |-> s,
                                              read |-> stamp[f].at]]
      BY <1>1 DEF ReviewRead
    <2>2. s \in FactStatus /\ stamp[f].at \in Nat /\ fact[f] # "none"
      BY <1>0 DEF Outcome, FactStatus, TableInductive, TableTypeOK, FactStamp, Unused
    <2>3. CallTypeOK'
      BY <1>0, <1>1, <2>1, <2>2 DEF ReviewRead, CallTypeOK, ReviewCall
    <2>4. \A o \in Reviews : review'[o] = IF o = r THEN [pc |-> "write", fact |-> f, to |-> s,
                                                         read |-> stamp[f].at] ELSE review[o]
      BY <1>0, <2>1 DEF CallTypeOK
    <2>5. UNCHANGED <<fact, time, query, cached, submitted, approved, lastActive>>
      BY <1>1 DEF ReviewRead, table
    <2>6. AnswersSound'
      BY <1>0, <2>2, <2>4, <2>5 DEF AnswersSound, MayShow
    <2> QED
      BY <2>3, <2>6 DEF AnswerInductive
  <1>2. ASSUME NEW q \in Queries, QueryStart(q) \/ QueryEnd(q) \/ QueryAgain(q)
        PROVE  AnswerInductive'
    BY <1>2, QueryStep
  <1>3. ASSUME NEW r \in Reviews, ReviewWrite(r) PROVE AnswerInductive'
    <2>1. /\ review' = [review EXCEPT ![r] = IdleCall]
          /\ UNCHANGED <<query, cached, creation, time>>
      BY <1>3 DEF ReviewWrite
    <2>2. IdleCall.pc = "idle" /\ IdleCall \in ReviewCall
      BY DEF IdleCall, ReviewCall
    <2>3. /\ review' \in [Reviews -> ReviewCall]
          /\ \A o \in Reviews : review'[o] = IF o = r THEN IdleCall ELSE review[o]
      BY <1>0, <2>1, <2>2 DEF CallTypeOK
    <2> QED
      BY <1>0, <2>1, <2>2, <2>3, AnswersStay DEF CallTypeOK
  <1>4. ASSUME NEW w \in Writes, WriteStart(w) \/ WriteInsert(w) \/ WriteGraph(w)
        PROVE  AnswerInductive'
    <2>1. UNCHANGED <<query, cached, review, time>>
      BY <1>4 DEF WriteStart, WriteInsert, WriteGraph
    <2>2. creation' \in [Writes -> CreationCall]
      BY <1>0, <1>4 DEF WriteStart, WriteInsert, WriteGraph, CallTypeOK, CreationCall, Unused
    <2> QED
      BY <1>0, <2>1, <2>2, AnswersStay DEF CallTypeOK
  <1>5. ASSUME FactRestart PROVE AnswerInductive'
    <2>1. /\ review' = [r \in Reviews |-> IdleCall] /\ query' = [q \in Queries |-> IdleCall]
          /\ creation' = [w \in Writes |-> IF creation[w] = IdleCall THEN IdleCall ELSE EndedCall]
          /\ cached' = NoEntry
      BY <1>5 DEF FactRestart
    <2>2. CallTypeOK'
      BY <2>1 DEF CallTypeOK, ReviewCall, CreationCall, NoEntry
    <2>3. AnswersSound'
      BY <2>1 DEF AnswersSound, IdleCall, NoEntry
    <2> QED
      BY <2>2, <2>3 DEF AnswerInductive
  <1>6. ASSUME UNCHANGED <<review, creation, query, cached>>, UNCHANGED time \/ ClockTicks
        PROVE  AnswerInductive'
    BY <1>0, <1>6, AnswersStay DEF CallTypeOK
  <1>7. \/ \E r \in Reviews : ReviewRead(r) \/ ReviewWrite(r)
        \/ \E w \in Writes : WriteStart(w) \/ WriteInsert(w) \/ WriteGraph(w)
        \/ \E q \in Queries : QueryStart(q) \/ QueryEnd(q) \/ QueryAgain(q)
        \/ FactRestart
        \/ UNCHANGED <<review, creation, query, cached>> /\ (UNCHANGED time \/ ClockTicks)
    BY DEF FactNext, SubmitUserFact, Project, ProjectionStart, Draw, Mark, ProjectionEnd,
           ExtractRead, ExtractSubmit, ExtractMark, ClockTicks, factCalls
  <1> QED
    BY <1>1, <1>2, <1>3, <1>4, <1>5, <1>6, <1>7

-----------------------------------------------------------------------------
(* The projection into the graph *)

\* What is drawn stays so while no repair empties the graph.
LEMMA DrawnStays ==
    ASSUME vertices \subseteq vertices', dropped \subseteq dropped',
           NEW e \in Events, DrawnOrDropped(e)
    PROVE  DrawnOrDropped(e)'
  BY DEF DrawnOrDropped

\* A call that goes on, while the graph stays or grows.
LEMMA ProjectionMoves ==
    ASSUME GraphInductive, NEW p \in Projections,
           NEW new \in {IdleCall} \cup DrawingCall \cup MarkingCall,
           projection' = [projection EXCEPT ![p] = new],
           vertices \subseteq vertices', dropped \subseteq dropped',
           new.pc = "mark" => DrawnOrDropped(new.at)',
           \A e \in Events : event'[e] = "applied" => event[e] = "applied" \/ DrawnOrDropped(e)
    PROVE  /\ projection' \in [Projections -> {IdleCall} \cup DrawingCall \cup MarkingCall]
           /\ GraphSound'
  <1>0. GraphTypeOK /\ GraphSound
    BY DEF GraphInductive
  <1>1. /\ projection' \in [Projections -> {IdleCall} \cup DrawingCall \cup MarkingCall]
        /\ \A o \in Projections : projection'[o] = IF o = p THEN new ELSE projection[o]
    BY <1>0 DEF GraphTypeOK
  <1>2. ASSUME NEW o \in Projections, projection'[o].pc = "mark"
        PROVE  DrawnOrDropped(projection[o].at)'
    <2>1. CASE o = p
      BY <1>1, <1>2, <2>1
    <2>2. CASE o # p
      <3>1. projection'[o] = projection[o] /\ projection[o].pc = "mark"
        BY <1>1, <1>2, <2>2
      <3>2. projection[o].at \in Events
        BY <1>0, <3>1 DEF GraphTypeOK, IdleCall, DrawingCall, MarkingCall
      <3>3. DrawnOrDropped(projection[o].at)
        BY <1>0, <3>1 DEF GraphSound
      <3>4. PICK e \in Events : e = projection[o].at
        BY <3>2
      <3>5. DrawnOrDropped(e)'
        BY <3>3, <3>4, DrawnStays
      <3> QED
        BY <3>1, <3>4, <3>5 DEF DrawnOrDropped
    <2> QED
      BY <2>1, <2>2
  <1>3. ASSUME NEW e \in Events, event'[e] = "applied" PROVE DrawnOrDropped(e)'
    BY <1>0, <1>3, DrawnStays DEF GraphSound
  <1> QED
    BY <1>1, <1>2, <1>3 DEF GraphSound

\* The statement of an event, with its outcome.
LEMMA DrawStep ==
    ASSUME GraphInductive, NEW p \in Projections, Draw(p) PROVE GraphInductive'
  <1>0. GraphTypeOK /\ GraphSound
    BY DEF GraphInductive
  <1>1. UNCHANGED <<entity, event, projecting>> /\ projection[p].pc = "draw"
    BY DEF Draw
  <1>2. projection[p] \in DrawingCall
    BY <1>0, <1>1 DEF GraphTypeOK, IdleCall, MarkingCall
  <1>3. PICK e \in NextOf(projection[p].batch) :
          \/ /\ vertices' = DrawnVertices(e, vertices)
             /\ edges' = DrawnEdges(e, vertices, edges)
             /\ projection' = [projection EXCEPT ![p] =
                  [pc |-> "mark", at |-> e, batch |-> projection[p].batch \ {e},
                   repaired |-> projection[p].repaired]]
             /\ UNCHANGED dropped
          \/ /\ vertices' = DrawnVertices(e, {})
             /\ edges' = {}
             /\ dropped' = dropped \cup Unmarked \cup {u \in Events : event[u] = "applied"}
             /\ projection' = [projection EXCEPT ![p] =
                  [pc |-> "mark", at |-> e, batch |-> projection[p].batch \ {e},
                   repaired |-> TRUE]]
          \/ /\ projection' = [projection EXCEPT ![p].batch = @ \ {e}]
             /\ UNCHANGED graph
    BY DEF Draw
  <1>4. /\ projection[p].batch \subseteq Events /\ projection[p].repaired \in BOOLEAN
        /\ e \in Events /\ e.fact \in Facts /\ Subject[e.fact] \in Names
    BY <1>2 DEF DrawingCall, NextOf, Events, Names
  <1>5. ASSUME NEW repaired \in BOOLEAN
        PROVE  [pc |-> "mark", at |-> e, batch |-> projection[p].batch \ {e},
                repaired |-> repaired] \in MarkingCall
    BY <1>4 DEF MarkingCall
  <1>6. ASSUME NEW vs \in SUBSET Names
        PROVE  /\ DrawnVertices(e, vs) \subseteq Names /\ vs \subseteq DrawnVertices(e, vs)
               /\ e.kind = "vertex" => Subject[e.fact] \in DrawnVertices(e, vs)
    BY <1>4 DEF DrawnVertices
  <1>7. vertices \in SUBSET Names /\ edges \subseteq Facts /\ dropped \subseteq Events
    BY <1>0 DEF GraphTypeOK
  <1>8. CASE /\ vertices' = DrawnVertices(e, vertices)
             /\ edges' = DrawnEdges(e, vertices, edges)
             /\ projection' = [projection EXCEPT ![p] =
                  [pc |-> "mark", at |-> e, batch |-> projection[p].batch \ {e},
                   repaired |-> projection[p].repaired]]
             /\ UNCHANGED dropped
    <2>1. PICK new : new = [pc |-> "mark", at |-> e, batch |-> projection[p].batch \ {e},
                            repaired |-> projection[p].repaired]
      OBVIOUS
    <2>2. new \in MarkingCall /\ new.at = e /\ projection' = [projection EXCEPT ![p] = new]
      BY <1>4, <1>5, <1>8, <2>1
    <2>3. /\ vertices \subseteq vertices' /\ vertices' \subseteq Names
          /\ e.kind = "vertex" => Subject[e.fact] \in vertices'
      BY <1>6, <1>7, <1>8
    <2>4. edges' \subseteq Facts /\ dropped' = dropped
      BY <1>4, <1>7, <1>8 DEF DrawnEdges
    <2>5. DrawnOrDropped(new.at)'
      BY <2>2, <2>3 DEF DrawnOrDropped
    <2>6. /\ projection' \in [Projections -> {IdleCall} \cup DrawingCall \cup MarkingCall]
          /\ GraphSound'
      BY <1>1, <2>2, <2>3, <2>4, <2>5, ProjectionMoves
    <2> QED
      BY <1>0, <1>1, <1>7, <2>3, <2>4, <2>6 DEF GraphInductive, GraphTypeOK
  <1>9. CASE /\ vertices' = DrawnVertices(e, {})
             /\ edges' = {}
             /\ dropped' = dropped \cup Unmarked \cup {u \in Events : event[u] = "applied"}
             /\ projection' = [projection EXCEPT ![p] =
                  [pc |-> "mark", at |-> e, batch |-> projection[p].batch \ {e},
                   repaired |-> TRUE]]
    <2>1. PICK new : new = [pc |-> "mark", at |-> e, batch |-> projection[p].batch \ {e},
                            repaired |-> TRUE]
      OBVIOUS
    <2>2. new \in MarkingCall /\ new.at = e /\ projection' = [projection EXCEPT ![p] = new]
      BY <1>5, <1>9, <2>1
    <2>3. /\ vertices' \subseteq Names
          /\ e.kind = "vertex" => Subject[e.fact] \in vertices'
      BY <1>6, <1>9
    <2>4. /\ projection' \in [Projections -> {IdleCall} \cup DrawingCall \cup MarkingCall]
          /\ \A o \in Projections : projection'[o] = IF o = p THEN new ELSE projection[o]
      BY <1>0, <2>2 DEF GraphTypeOK
    <2>5. ASSUME NEW o \in Projections, projection[o].pc = "mark"
          PROVE  projection[o].at \in Unmarked /\ projection[o].at \in Events
      BY <1>0, <2>5 DEF Unmarked, GraphTypeOK, IdleCall, DrawingCall, MarkingCall
    <2>6. Unmarked \subseteq Events
      BY <2>5 DEF Unmarked
    <2>7. GraphTypeOK'
      BY <1>0, <1>1, <1>7, <1>9, <2>3, <2>4, <2>6 DEF GraphTypeOK
    <2>8. ASSUME NEW o \in Projections, projection'[o].pc = "mark"
          PROVE  DrawnOrDropped(projection[o].at)'
      <3>1. CASE o = p
        <4>1. projection'[o].at = e
          BY <2>2, <2>4, <3>1
        <4> QED
          BY <2>3, <4>1 DEF DrawnOrDropped
      <3>2. CASE o # p
        <4>1. projection'[o] = projection[o] /\ projection[o].pc = "mark"
          BY <2>4, <2>8, <3>2
        <4>2. projection'[o].at \in dropped'
          BY <1>9, <2>5, <4>1
        <4> QED
          BY <4>2 DEF DrawnOrDropped
      <3> QED
        BY <3>1, <3>2
    <2>9. \A u \in Events : event'[u] = "applied" => DrawnOrDropped(u)'
      BY <1>1, <1>9 DEF DrawnOrDropped
    <2> QED
      BY <2>7, <2>8, <2>9 DEF GraphInductive, GraphSound
  <1>10. CASE /\ projection' = [projection EXCEPT ![p].batch = @ \ {e}]
              /\ UNCHANGED graph
    <2>1. PICK new : new = [projection[p] EXCEPT !.batch = @ \ {e}]
      OBVIOUS
    <2>2. new \in DrawingCall /\ new.pc = "draw" /\ projection' = [projection EXCEPT ![p] = new]
      BY <1>2, <1>10, <2>1 DEF DrawingCall
    <2>3. UNCHANGED <<vertices, edges, dropped>>
      BY <1>10 DEF graph
    <2>4. /\ projection' \in [Projections -> {IdleCall} \cup DrawingCall \cup MarkingCall]
          /\ GraphSound'
      BY <1>1, <2>2, <2>3, ProjectionMoves
    <2> QED
      BY <1>0, <1>1, <2>3, <2>4 DEF GraphInductive, GraphTypeOK
  <1> QED
    BY <1>3, <1>8, <1>9, <1>10

LEMMA GraphStep ==
    ASSUME FactInductive, FactNext PROVE GraphInductive'
  <1>0. GraphInductive /\ GraphTypeOK /\ GraphSound /\ CallTypeOK
    BY DEF FactInductive, GraphInductive, AnswerInductive
  <1>1. ASSUME NEW p \in Projections, Draw(p) PROVE GraphInductive'
    BY <1>0, <1>1, DrawStep
  <1>2. ASSUME NEW p \in Projections, ProjectionStart(p) PROVE GraphInductive'
    <2>1. UNCHANGED <<entity, event, projecting, vertices, edges, dropped>>
      BY <1>2 DEF ProjectionStart, graph
    <2>2. PICK batch \in SUBSET Pending :
             projection' = [projection EXCEPT ![p] =
                               [pc |-> "draw", batch |-> batch, repaired |-> FALSE]]
      BY <1>2 DEF ProjectionStart
    <2>3. PICK new : new = [pc |-> "draw", batch |-> batch, repaired |-> FALSE]
      OBVIOUS
    <2>4. new \in DrawingCall /\ new.pc = "draw" /\ projection' = [projection EXCEPT ![p] = new]
      BY <2>2, <2>3 DEF DrawingCall, Pending
    <2>5. /\ projection' \in [Projections -> {IdleCall} \cup DrawingCall \cup MarkingCall]
          /\ GraphSound'
      BY <1>0, <2>1, <2>4, ProjectionMoves
    <2> QED
      BY <1>0, <2>1, <2>5 DEF GraphInductive, GraphTypeOK
  <1>3. ASSUME NEW p \in Projections, Mark(p) PROVE GraphInductive'
    <2>1. UNCHANGED <<entity, projecting, vertices, edges, dropped>> /\ projection[p].pc = "mark"
      BY <1>3 DEF Mark, graph
    <2>2. projection[p] \in MarkingCall
      BY <1>0, <2>1 DEF GraphTypeOK, IdleCall, DrawingCall
    <2>3. /\ projection[p].at \in Events /\ projection[p].batch \subseteq Events
          /\ projection[p].repaired \in BOOLEAN
      BY <2>2 DEF MarkingCall
    <2>4. /\ event' \in [Events -> {"none", "pending", "applied"}]
          /\ \A e \in Events : event'[e] = event[e] \/ e = projection[p].at
      BY <1>0, <1>3, <2>3 DEF Mark, GraphTypeOK
    <2>5. PICK new : new = [pc |-> "draw", batch |-> projection[p].batch,
                            repaired |-> projection[p].repaired]
      OBVIOUS
    <2>6. new \in DrawingCall /\ new.pc = "draw" /\ projection' = [projection EXCEPT ![p] = new]
      BY <1>3, <2>3, <2>5 DEF DrawingCall, Mark
    <2>7. DrawnOrDropped(projection[p].at)
      BY <1>0, <2>1 DEF GraphSound
    <2>8. \A e \in Events : event'[e] = "applied" => event[e] = "applied" \/ DrawnOrDropped(e)
      BY <2>4, <2>7
    <2>9. /\ projection' \in [Projections -> {IdleCall} \cup DrawingCall \cup MarkingCall]
          /\ GraphSound'
      BY <1>0, <2>1, <2>6, <2>8, ProjectionMoves
    <2> QED
      BY <1>0, <2>1, <2>4, <2>9 DEF GraphInductive, GraphTypeOK
  <1>4. ASSUME NEW p \in Projections, ProjectionEnd(p) PROVE GraphInductive'
    <2>1. UNCHANGED <<entity, event, projecting, vertices, edges, dropped>>
      BY <1>4 DEF ProjectionEnd, graph
    <2>2. projection' = [projection EXCEPT ![p] = IdleCall] /\ IdleCall.pc = "idle"
      BY <1>4 DEF ProjectionEnd, IdleCall
    <2>3. /\ projection' \in [Projections -> {IdleCall} \cup DrawingCall \cup MarkingCall]
          /\ GraphSound'
      BY <1>0, <2>1, <2>2, ProjectionMoves
    <2> QED
      BY <1>0, <2>1, <2>3 DEF GraphInductive, GraphTypeOK
  <1>5. ASSUME UNCHANGED <<graph, projection>>, entity' \subseteq Names,
               event' \in [Events -> {"none", "pending", "applied"}],
               \A e \in Events : event'[e] = "applied" => event[e] = "applied",
               projecting' \in [Facts -> {"no", "vertex", "edge"}]
        PROVE  GraphInductive'
    <2>1. UNCHANGED <<vertices, edges, dropped, projection>>
      BY <1>5 DEF graph
    <2>2. GraphTypeOK'
      BY <1>0, <1>5, <2>1 DEF GraphTypeOK
    <2>3. GraphSound'
      BY <1>0, <1>5, <2>1 DEF GraphSound, DrawnOrDropped
    <2> QED
      BY <2>2, <2>3 DEF GraphInductive
  <1>6. ASSUME NEW f \in Facts, Project(f) PROVE GraphInductive'
    <2>1. UNCHANGED <<graph, projection, entity>> /\ projecting[f] \in {"vertex", "edge"}
      BY <1>0, <1>6 DEF Project, factCalls, GraphTypeOK
    <2>2. [kind |-> projecting[f], fact |-> f] \in Events
      BY <2>1 DEF Events
    <2>3. /\ event' \in [Events -> {"none", "pending", "applied"}]
          /\ \A e \in Events : event'[e] = "applied" => event[e] = "applied"
      BY <1>0, <1>6, <2>2 DEF Project, GraphTypeOK
    <2>4. projecting' \in [Facts -> {"no", "vertex", "edge"}]
      BY <1>0, <1>6 DEF Project, GraphTypeOK
    <2> QED
      BY <1>0, <1>5, <2>1, <2>3, <2>4 DEF GraphTypeOK
  <1>7. ASSUME NEW w \in Writes, WriteGraph(w) PROVE GraphInductive'
    <2>1. UNCHANGED <<graph, projection, event>> /\ creation[w].fact \in Facts
      BY <1>0, <1>7 DEF WriteGraph, CallTypeOK, CreationCall, IdleCall, EndedCall
    <2>2. entity' \subseteq Names
      BY <1>0, <1>7, <2>1 DEF WriteGraph, GraphTypeOK, Names
    <2>3. projecting' \in [Facts -> {"no", "vertex", "edge"}]
      BY <1>0, <1>7, <2>1 DEF WriteGraph, GraphTypeOK
    <2> QED
      BY <1>0, <1>5, <2>1, <2>2, <2>3 DEF GraphTypeOK
  <1>8. ASSUME NEW f \in Facts, InsertCandidate(f), UNCHANGED <<graph, projection, entity, event>>
        PROVE  GraphInductive'
    <2>1. projecting' \in [Facts -> {"no", "vertex", "edge"}]
      BY <1>0, <1>8 DEF InsertCandidate, GraphTypeOK
    <2> QED
      BY <1>0, <1>5, <1>8, <2>1 DEF GraphTypeOK
  <1>9. ASSUME FactRestart PROVE GraphInductive'
    <2>1. /\ UNCHANGED <<vertices, edges, dropped, entity, event>>
          /\ projecting' = [f \in Facts |-> "no"]
          /\ projection' = [p \in Projections |-> IdleCall]
      BY <1>9 DEF FactRestart, graph
    <2>2. GraphTypeOK'
      BY <1>0, <2>1 DEF GraphTypeOK
    <2>3. GraphSound'
      BY <1>0, <2>1 DEF GraphSound, DrawnOrDropped, IdleCall
    <2> QED
      BY <2>2, <2>3 DEF GraphInductive
  <1>10. ASSUME UNCHANGED <<graph, projection, entity, event, projecting>> PROVE GraphInductive'
    BY <1>0, <1>5, <1>10 DEF GraphTypeOK
  <1>11. \/ \E f \in Facts : Project(f)
         \/ \E f \in Facts : InsertCandidate(f) /\ UNCHANGED <<graph, projection, entity, event>>
         \/ \E w \in Writes : WriteGraph(w)
         \/ \E p \in Projections : ProjectionStart(p) \/ Draw(p) \/ Mark(p) \/ ProjectionEnd(p)
         \/ FactRestart
         \/ UNCHANGED <<graph, projection, entity, event, projecting>>
    BY DEF FactNext, SubmitUserFact, ReviewRead, ReviewWrite, WriteStart, WriteInsert, QueryStart,
           QueryEnd, QueryAgain, ExtractRead, ExtractSubmit, ExtractMark, ClockTicks, factCalls
  <1> QED
    BY <1>1, <1>2, <1>3, <1>4, <1>6, <1>7, <1>8, <1>9, <1>10, <1>11

-----------------------------------------------------------------------------
(* The extraction *)

LEMMA MemoryStep ==
    ASSUME FactInductive, FactNext PROVE MemoryInductive'
  <1>0. MemoryTypeOK /\ MemorySound
    BY DEF FactInductive, MemoryInductive
  <1>1. ASSUME NEW x \in Extractions, ExtractRead(x) PROVE MemoryInductive'
    <2>1. /\ extraction' = [extraction EXCEPT ![x] = [pc |-> "ask", read |-> Memories \ processed]]
          /\ UNCHANGED <<processed, covered, excused, restarted>>
      BY <1>1 DEF ExtractRead, memory
    <2>2. MemoryTypeOK'
      BY <1>0, <2>1 DEF MemoryTypeOK, ExtractionCall
    <2>3. \A o \in Extractions :
             extraction'[o] = IF o = x THEN [pc |-> "ask", read |-> Memories \ processed]
                              ELSE extraction[o]
      BY <1>0, <2>1 DEF MemoryTypeOK
    <2>4. MemorySound'
      BY <1>0, <2>1, <2>3 DEF MemorySound
    <2> QED
      BY <2>2, <2>4 DEF MemoryInductive
  <1>2. ASSUME NEW x \in Extractions, ExtractSubmit(x) PROVE MemoryInductive'
    <2>1. extraction[x] \in [pc: {"ask", "mark"}, read: SUBSET Memories]
      BY <1>0, <1>2 DEF ExtractSubmit, MemoryTypeOK, ExtractionCall, IdleCall
    <2>2. PICK new : new = [extraction[x] EXCEPT !.pc = "mark"]
      OBVIOUS
    <2>3. /\ new \in [pc: {"ask", "mark"}, read: SUBSET Memories]
          /\ new.read = extraction[x].read
          /\ extraction' = [extraction EXCEPT ![x] = new]
      BY <1>2, <2>1, <2>2 DEF ExtractSubmit
    <2>4. /\ covered \subseteq covered' /\ excused \subseteq excused'
          /\ extraction[x].read \subseteq covered' \cup excused'
          /\ covered' \subseteq Memories /\ excused' \subseteq Memories
          /\ UNCHANGED <<processed, restarted>>
      BY <1>0, <1>2, <2>1 DEF ExtractSubmit, MemoryTypeOK
    <2>5. MemoryTypeOK'
      BY <1>0, <2>3, <2>4 DEF MemoryTypeOK, ExtractionCall
    <2>6. \A o \in Extractions : extraction'[o] = IF o = x THEN new ELSE extraction[o]
      BY <1>0, <2>3 DEF MemoryTypeOK
    <2>7. MemorySound'
      BY <1>0, <2>3, <2>4, <2>6 DEF MemorySound
    <2> QED
      BY <2>5, <2>7 DEF MemoryInductive
  <1>3. ASSUME NEW x \in Extractions, ExtractMark(x) PROVE MemoryInductive'
    <2>1. extraction[x] \in [pc: {"ask", "mark"}, read: SUBSET Memories]
      BY <1>0, <1>3 DEF ExtractMark, MemoryTypeOK, ExtractionCall, IdleCall
    <2>2. UNCHANGED <<covered, excused, restarted>> /\ extraction[x].pc = "mark"
      BY <1>3 DEF ExtractMark
    <2>3. extraction[x].read \subseteq covered \cup excused
      BY <1>0, <2>2 DEF MemorySound
    <2>4. processed' \subseteq Memories /\ processed' \subseteq covered \cup excused
      BY <1>0, <1>3, <2>1, <2>3 DEF ExtractMark, MemoryTypeOK, MemorySound
    <2>5. ASSUME NEW new \in ExtractionCall, extraction' = [extraction EXCEPT ![x] = new],
                 new.pc = "mark" => new.read \subseteq covered \cup excused
          PROVE  MemoryInductive'
      <3>1. MemoryTypeOK'
        BY <1>0, <2>2, <2>4, <2>5 DEF MemoryTypeOK
      <3>2. \A o \in Extractions : extraction'[o] = IF o = x THEN new ELSE extraction[o]
        BY <1>0, <2>5 DEF MemoryTypeOK
      <3>3. MemorySound'
        BY <1>0, <2>2, <2>4, <2>5, <3>2 DEF MemorySound
      <3> QED
        BY <3>1, <3>3 DEF MemoryInductive
    <2>6. CASE extraction' = [extraction EXCEPT ![x] = IdleCall]
      BY <2>5, <2>6 DEF ExtractionCall, IdleCall
    <2>7. ASSUME NEW m \in extraction[x].read,
                 extraction' = [extraction EXCEPT ![x].read = @ \ {m}]
          PROVE  MemoryInductive'
      <3>1. PICK new : new = [extraction[x] EXCEPT !.read = @ \ {m}]
        OBVIOUS
      <3>2. /\ new \in [pc: {"ask", "mark"}, read: SUBSET Memories]
            /\ new.read = extraction[x].read \ {m}
            /\ extraction' = [extraction EXCEPT ![x] = new]
        BY <2>1, <2>7, <3>1
      <3> QED
        BY <2>3, <2>5, <3>2 DEF ExtractionCall
    <2> QED
      BY <1>3, <2>6, <2>7 DEF ExtractMark
  <1>4. ASSUME FactRestart PROVE MemoryInductive'
    <2>1. /\ UNCHANGED <<processed, covered, excused>> /\ restarted' = restarted + 1
          /\ extraction' = [x \in Extractions |-> IdleCall]
      BY <1>4 DEF FactRestart, memory
    <2>2. MemoryTypeOK'
      BY <1>0, <2>1 DEF MemoryTypeOK, ExtractionCall
    <2>3. MemorySound'
      BY <1>0, <2>1 DEF MemorySound, IdleCall
    <2> QED
      BY <2>2, <2>3 DEF MemoryInductive
  <1>5. ASSUME UNCHANGED <<memory, extraction, restarted>> PROVE MemoryInductive'
    BY <1>0, <1>5 DEF MemoryInductive, MemoryTypeOK, MemorySound, memory
  <1>6. \/ \E x \in Extractions : ExtractRead(x) \/ ExtractSubmit(x) \/ ExtractMark(x)
        \/ FactRestart
        \/ UNCHANGED <<memory, extraction, restarted>>
    BY DEF FactNext, SubmitUserFact, Project, ReviewRead, ReviewWrite, WriteStart, WriteInsert,
           WriteGraph, ProjectionStart, Draw, Mark, ProjectionEnd, QueryStart, QueryEnd,
           QueryAgain, ClockTicks, factCalls
  <1> QED
    BY <1>1, <1>2, <1>3, <1>4, <1>5, <1>6

-----------------------------------------------------------------------------
(* The theorems on facts *)

LEMMA FactInitSound ==
    ASSUME FactInit, FactAssumption PROVE FactInductive
  <1>1. TableInductive
    BY DEF FactInit, TableInductive, TableTypeOK, TableSound, FactStamp, NotStamped
  <1>2. CallTypeOK
    BY DEF FactInit, CallTypeOK, ReviewCall, CreationCall, NoEntry
  <1>3. AnswersSound
    BY DEF FactInit, AnswersSound, IdleCall, NoEntry
  <1>4. GraphTypeOK
    BY DEF FactInit, GraphTypeOK
  <1>5. GraphSound
    BY DEF FactInit, GraphSound, IdleCall
  <1>6. MemoryTypeOK
    BY DEF FactInit, MemoryTypeOK, ExtractionCall
  <1>7. MemorySound
    BY DEF FactInit, MemorySound, IdleCall
  <1> QED
    BY <1>1, <1>2, <1>3, <1>4, <1>5, <1>6, <1>7
       DEF FactInductive, AnswerInductive, GraphInductive, MemoryInductive

LEMMA FactStutter ==
    ASSUME FactInductive, UNCHANGED factVars PROVE FactInductive'
  <1>0. /\ UNCHANGED <<fact, stamp, submitted, approved, lastActive, vertices, edges, dropped>>
        /\ UNCHANGED <<processed, covered, excused, review, creation, query, projection, extraction>>
        /\ UNCHANGED <<time, entity, event, projecting, cached, restarted>>
    BY DEF factVars, table, graph, memory, factCalls
  <1>1. TableInductive'
    BY <1>0 DEF FactInductive, TableInductive, TableTypeOK, TableSound
  <1>2. AnswerInductive'
    BY <1>0 DEF FactInductive, AnswerInductive, CallTypeOK, AnswersSound, MayShow
  <1>3. GraphInductive'
    BY <1>0 DEF FactInductive, GraphInductive, GraphTypeOK, GraphSound, DrawnOrDropped
  <1>4. MemoryInductive'
    BY <1>0 DEF FactInductive, MemoryInductive, MemoryTypeOK, MemorySound
  <1> QED
    BY <1>1, <1>2, <1>3, <1>4 DEF FactInductive

\* The inductive invariant of the facts holds whatever the bounds.
THEOREM FactInductiveAlways == FactSpec => []FactInductive
  <1>1. FactInit => FactInductive
    BY FactAssumption, FactInitSound
  <1>2. FactInductive /\ [FactNext]_factVars => FactInductive'
    <2> SUFFICES ASSUME FactInductive, [FactNext]_factVars PROVE FactInductive'
      OBVIOUS
    <2>1. CASE UNCHANGED factVars
      BY <2>1, FactStutter
    <2>2. CASE FactNext
      <3>1. TableInductive'
        BY <2>2, TableStep DEF FactInductive
      <3>2. AnswerInductive'
        BY <2>2, AnswerStep, FactAssumption
      <3>3. GraphInductive' /\ MemoryInductive'
        BY <2>2, GraphStep, MemoryStep
      <3> QED
        BY <3>1, <3>2, <3>3 DEF FactInductive
    <2> QED
      BY <2>1, <2>2
  <1> QED
    BY <1>1, <1>2, PTL DEF FactSpec

\* Every variable of the facts keeps its type.
THEOREM FactTypeCorrect == FactSpec => []FactTypeOK
  <1>1. FactInductive => FactTypeOK
    BY DEF FactInductive, FactTypeOK, TableInductive, AnswerInductive, GraphInductive,
           MemoryInductive
  <1> QED
    BY <1>1, FactInductiveAlways, PTL

\* An answer shows what a review approved, and a fact that is no longer active
\* only for as long as the cache and the slowest query allow, for any number
\* of facts, reviews and queries.
THEOREM AnswersReviewedAlways == FactSpec => []AnswersReviewed
  <1>1. FactInductive => AnswersReviewed
    <2> SUFFICES ASSUME FactInductive, NEW q \in Queries, query[q].pc = "replied",
                        NEW i \in query[q].items
                 PROVE  /\ i.fact \in submitted => i.fact \in approved
                        /\ query[q].at <= lastActive[i.fact] + CacheTTL + QueryTime
      BY DEF AnswersReviewed, UnreviewedNeverShown, StaleBounded
    <2>1. MayShow(i, query[q].at)
      BY DEF FactInductive, AnswerInductive, AnswersSound
    <2> QED
      BY <2>1 DEF MayShow
  <1> QED
    BY <1>1, FactInductiveAlways, PTL

\* An event is marked applied only once it is drawn, unless a repair of the
\* graph lost it, and a memory is only marked once what was found in it is
\* submitted or the attempt failed, whatever calls overlap or are cut off.
THEOREM NothingSkippedAlways == FactSpec => []NothingSkipped
  <1>1. FactInductive => NothingSkipped
    BY DEF FactInductive, GraphInductive, MemoryInductive, GraphSound, MemorySound,
           DrawnOrDropped, NothingSkipped, AppliedIsDrawn, ExtractedOrKept
  <1> QED
    BY <1>1, FactInductiveAlways, PTL

=============================================================================
