---------------------------- MODULE SelftestProofs ----------------------------
(***************************************************************************)
(* Proofs about what the checks of cmd_selftest.c and g3_primitives.c      *)
(* measure and record.                                                     *)
(*                                                                         *)
(* Selftest: for any groups, plans and size of the buffer, a task that has *)
(* the counters and the buffer to itself judges its own checks, whatever   *)
(* the tasks before it left there.                                         *)
(*                                                                         *)
(* TieScan with its Snapshots: for any names, channels, delays and beats,  *)
(* a reading, a baseline and the levels of a heartbeat are those that the  *)
(* check asked for.                                                        *)
(***************************************************************************)
EXTENDS Selftest, TieScan, SequenceTheorems, WellFoundedInduction, TLAPS

Check == [id : STRING, pass : BOOLEAN]
Phases == {"idle", "reset", "next", "check", "record", "judge", "judged", "publish", "notify"}
OwnRecord == [reported : BOOLEAN, flawless : BOOLEAN,
              misreported : BOOLEAN, kept : BOOLEAN, failed : BOOLEAN]

TypeInv ==
  /\ s_pass \in Nat /\ s_total \in Nat /\ s_checks \in Seq(Check)
  /\ phase \in [Tasks -> Phases]
  /\ plan \in [Tasks -> Seq(Seq(STRING))] /\ ahead \in [Tasks -> Seq(STRING)]
  /\ result \in [Tasks -> BOOLEAN] /\ passed \in [Tasks -> BOOLEAN]
  /\ mark \in [ncheck : Nat, total : Nat, pass : Nat]
  /\ own \in [Tasks -> OwnRecord]
  /\ scenario \in Scenarios
  /\ \A t \in Tasks :
       /\ phase[t] = "record" => ahead[t] # <<>>
       /\ phase[t] \in {"judge", "judged"} => t = "recipe"
       /\ phase[t] \in {"publish", "notify"} => t # "recipe"

\* The tasks run one after another.
OneTask == \A t, u \in Tasks : phase[t] # "idle" /\ phase[u] # "idle" => t = u

\* The counters are those of the run of t, and so is its verdict.
CountsOwn(t) ==
  /\ phase[t] \in {"next", "check", "record", "judge", "judged"} =>
       /\ s_pass <= s_total
       /\ own[t].flawless <=> s_pass = s_total
       /\ own[t].reported <=> s_total > 0
  /\ phase[t] \in {"publish", "notify"} => passed[t] = (own[t].reported /\ own[t].flawless)

\* What has come after the marks are the reports and the entries of the step.
Bracketed ==
  /\ phase["recipe"] \in {"check", "record", "judge"} =>
       /\ mark.ncheck <= Len(s_checks) /\ mark.total <= s_total /\ mark.pass <= s_pass
       /\ s_pass - mark.pass <= s_total - mark.total
       /\ own["recipe"].misreported <=> s_pass - mark.pass # s_total - mark.total
       /\ own["recipe"].kept <=> Len(s_checks) > mark.ncheck
       /\ own["recipe"].failed <=> \E i \in New : ~s_checks[i].pass
  /\ phase["recipe"] = "judged" => passed["recipe"] = ~Visible(own["recipe"])

OrderlyInv == OneTask /\ Bracketed /\ \A t \in Tasks : CountsOwn(t)

-----------------------------------------------------------------------------
LEMMA InitSelftest == Init => TypeInv /\ OrderlyInv
<1> SUFFICES ASSUME Init PROVE TypeInv /\ OrderlyInv
  OBVIOUS
<1>1. own \in [Tasks -> OwnRecord]
  BY DEF Init, OwnRecord, NothingYet
<1>2. TypeInv
  BY <1>1 DEF Init, TypeInv, Phases, Check
<1>3. OrderlyInv
  BY DEF Init, OrderlyInv, OneTask, Bracketed, CountsOwn, Tasks
<1> QED BY <1>2, <1>3

\* The plans a task may start with.
LEMMA PlanTypes ==
  ASSUME TypeInv, NEW t \in Tasks, NEW p \in Plans[scenario][t]
  PROVE  p \in Seq(Seq(STRING))
  BY PlansAssumption DEF TypeInv

\* The checks of a primitive, and what is left of them after one.
LEMMA TodoTypes ==
  ASSUME TypeInv, NEW t \in Tasks, ahead[t] # <<>>
  PROVE  /\ Head(ahead[t]) \in STRING /\ Tail(ahead[t]) \in Seq(STRING)
         /\ \A c \in ChecksLeft(t) : c \in Seq(STRING)
<1>1. ahead[t] \in Seq(STRING) BY DEF TypeInv
<1>2. Head(ahead[t]) \in STRING /\ Tail(ahead[t]) \in Seq(STRING)
  BY <1>1, HeadTailProperties
<1>3. \A c \in ChecksLeft(t) : c = Tail(ahead[t]) \/ c = <<>>
  BY DEF ChecksLeft
<1>4. <<>> \in Seq(STRING)
  OBVIOUS
<1> QED BY <1>2, <1>3, <1>4

LEMMA NextPrimitiveTypes ==
  ASSUME TypeInv, NEW t \in Tasks, plan[t] # <<>>
  PROVE  Head(plan[t]) \in Seq(STRING) /\ Tail(plan[t]) \in Seq(Seq(STRING))
<1>1. plan[t] \in Seq(Seq(STRING)) BY DEF TypeInv
<1> QED BY <1>1, HeadTailProperties

\* What a record makes of the buffer and of what is known of the task.
LEMMA RecordEntry ==
  ASSUME TypeInv, NEW t \in Tasks, ahead[t] # <<>>, NEW ok \in BOOLEAN, st_record(t, ok)
  PROVE  /\ s_checks' \in Seq(Check) /\ own' \in [Tasks -> OwnRecord]
         /\ own'[t].reported = own[t].reported /\ own'[t].flawless = own[t].flawless
         /\ own'[t].misreported = own[t].misreported
         /\ \/ s_checks' = s_checks /\ own' = own
            \/ /\ Len(s_checks') = Len(s_checks) + 1
               /\ \A i \in 1..Len(s_checks) : s_checks'[i] = s_checks[i]
               /\ s_checks'[Len(s_checks) + 1].pass = ok
               /\ own'[t].kept = TRUE /\ own'[t].failed = (own[t].failed \/ ~ok)
<1> DEFINE check == [id |-> Head(ahead[t]), pass |-> ok]
<1>1. check \in Check /\ check.pass = ok
  BY TodoTypes DEF Check
<1>2. s_checks \in Seq(Check) /\ own \in [Tasks -> OwnRecord] /\ own[t] \in OwnRecord
  BY DEF TypeInv
<1>3. CASE HasRoom
  <2>1. s_checks' = Append(s_checks, check)
    BY <1>3 DEF st_record
  <2>2. own' = [own EXCEPT ![t] = [own[t] EXCEPT !.kept = TRUE, !.failed = own[t].failed \/ ~ok]]
    BY <1>3 DEF st_record
  <2> HIDE DEF check
  <2>3. /\ s_checks' \in Seq(Check) /\ Len(s_checks') = Len(s_checks) + 1
        /\ \A i \in 1..Len(s_checks) : s_checks'[i] = s_checks[i]
        /\ s_checks'[Len(s_checks) + 1] = check
    BY <1>1, <1>2, <2>1, AppendProperties
  <2> DEFINE o == [own[t] EXCEPT !.kept = TRUE, !.failed = own[t].failed \/ ~ok]
  <2>4. /\ o \in OwnRecord /\ o.kept = TRUE /\ o.failed = (own[t].failed \/ ~ok)
        /\ o.reported = own[t].reported /\ o.flawless = own[t].flawless
        /\ o.misreported = own[t].misreported
    BY <1>2 DEF OwnRecord
  <2>5. own' = [own EXCEPT ![t] = o]
    BY <2>2
  <2> HIDE DEF o
  <2>6. own'[t] = o /\ own' \in [Tasks -> OwnRecord]
    BY <1>2, <2>4, <2>5
  <2> QED BY <1>1, <2>3, <2>4, <2>6
<1>4. CASE ~HasRoom
  BY <1>2, <1>4 DEF st_record
<1> QED BY <1>3, <1>4

\* What a report makes of the counters and of what is known of the task.
LEMMA ReportCounts ==
  ASSUME TypeInv, NEW t \in Tasks, NEW ok \in BOOLEAN, report(ok),
         own' = [own EXCEPT ![t] = Reports(t, ok)]
  PROVE  /\ s_pass' \in Nat /\ s_total' \in Nat /\ own' \in [Tasks -> OwnRecord]
         /\ s_total' = s_total + 1 /\ s_pass' = IF ok THEN s_pass + 1 ELSE s_pass
         /\ own'[t].reported = TRUE /\ own'[t].flawless = (own[t].flawless /\ ok)
         /\ own'[t].misreported = (own[t].misreported \/ ~ok)
         /\ own'[t].kept = own[t].kept /\ own'[t].failed = own[t].failed
<1> DEFINE o == Reports(t, ok)
<1>1. own \in [Tasks -> OwnRecord] /\ own[t] \in OwnRecord
  BY DEF TypeInv
<1>2. /\ o \in OwnRecord /\ o.reported = TRUE /\ o.flawless = (own[t].flawless /\ ok)
      /\ o.misreported = (own[t].misreported \/ ~ok)
      /\ o.kept = own[t].kept /\ o.failed = own[t].failed
  BY <1>1 DEF OwnRecord, Reports
<1> HIDE DEF o
<1>3. own' = [own EXCEPT ![t] = o]
  BY DEF o
<1>4. own'[t] = o /\ own' \in [Tasks -> OwnRecord]
  BY <1>1, <1>2, <1>3
<1>5. /\ s_pass' \in Nat /\ s_total' \in Nat
      /\ s_total' = s_total + 1 /\ s_pass' = IF ok THEN s_pass + 1 ELSE s_pass
  BY DEF report, TypeInv
<1> QED BY <1>2, <1>4, <1>5

\* What the beginning of a primitive makes of what is known of the task.
LEMMA BeginForgets ==
  ASSUME TypeInv, NEW t \in Tasks, BeginPrimitive(t)
  PROVE  /\ own' \in [Tasks -> OwnRecord]
         /\ own'[t].reported = own[t].reported /\ own'[t].flawless = own[t].flawless
         /\ own'[t].misreported = FALSE /\ own'[t].kept = FALSE /\ own'[t].failed = FALSE
<1> DEFINE o == [own[t] EXCEPT !.misreported = FALSE, !.kept = FALSE, !.failed = FALSE]
<1>1. own \in [Tasks -> OwnRecord] /\ own[t] \in OwnRecord
  BY DEF TypeInv
<1>2. own' = [own EXCEPT ![t] = o]
  BY <1>1 DEF BeginPrimitive, OwnRecord
<1>3. /\ o \in OwnRecord /\ o.misreported = FALSE /\ o.kept = FALSE /\ o.failed = FALSE
      /\ o.reported = own[t].reported /\ o.flawless = own[t].flawless
  BY <1>1 DEF OwnRecord
<1> HIDE DEF o
<1>4. own'[t] = o /\ own' \in [Tasks -> OwnRecord]
  BY <1>1, <1>2, <1>3
<1> QED BY <1>3, <1>4

LEMMA NextType == TypeInv /\ [Next]_vars => TypeInv'
<1> SUFFICES ASSUME TypeInv, [Next]_vars PROVE TypeInv'
  OBVIOUS
<1>1. CASE UNCHANGED vars
  BY <1>1 DEF vars, buffer, work, history, TypeInv
<1>2. ASSUME NEW t \in Tasks, Start(t), scenario' = scenario PROVE TypeInv'
  <2>1. PICK p \in Plans[scenario][t] : plan' = [plan EXCEPT ![t] = p]
    BY <1>2 DEF Start
  <2>2. p \in Seq(Seq(STRING)) BY PlanTypes
  <2> QED BY <1>2, <2>1, <2>2 DEF Start, MayStart, Goto, buffer, TypeInv, Phases
<1>3. ASSUME NEW t \in Tasks, Step(t) PROVE TypeInv'
  <2> USE DEF Goto
  <2>1. CASE Reset(t)
    <3>1. NothingYet \in OwnRecord
      BY DEF NothingYet, OwnRecord
    <3> QED BY <2>1, <3>1 DEF Reset, ResetAll, work, TypeInv, Phases, Check
  <2>2. CASE BeginPrimitive(t)
    <3>1. /\ plan' \in [Tasks -> Seq(Seq(STRING))] /\ ahead' \in [Tasks -> Seq(STRING)]
      BY <2>2, NextPrimitiveTypes DEF BeginPrimitive, TypeInv
    <3>2. mark' \in [ncheck : Nat, total : Nat, pass : Nat]
      BY <2>2 DEF BeginPrimitive, MarkAgain, TypeInv
    <3> QED BY <2>2, <3>1, <3>2, BeginForgets DEF BeginPrimitive, buffer, TypeInv, Phases
  <2>3. CASE Report(t)
    <3>1. PICK ok \in BOOLEAN : /\ report(ok) /\ result' = [result EXCEPT ![t] = ok]
                                /\ own' = [own EXCEPT ![t] = Reports(t, ok)]
      BY <2>3 DEF Report
    <3>2. s_pass' \in Nat /\ s_total' \in Nat /\ own' \in [Tasks -> OwnRecord]
      BY <3>1, ReportCounts
    <3>3. \A u \in Tasks : phase'[u] = "record" => ahead'[u] # <<>>
      BY <2>3 DEF Report, work, TypeInv
    <3> QED BY <2>3, <3>1, <3>2, <3>3 DEF Report, work, TypeInv, Phases
  <2>4. CASE ReportOnly(t)
    <3>1. ahead' \in [Tasks -> Seq(STRING)]
      BY <2>4 DEF ReportOnly, TypeInv
    <3>2. report(FALSE) /\ own' = [own EXCEPT ![t] = Reports(t, FALSE)]
      BY <2>4 DEF ReportOnly
    <3>3. s_pass' \in Nat /\ s_total' \in Nat /\ own' \in [Tasks -> OwnRecord]
      BY <3>2, ReportCounts
    <3>4. \A u \in Tasks : phase'[u] = "record" => ahead'[u] # <<>>
      BY <2>4 DEF ReportOnly, TypeInv
    <3> QED BY <2>4, <3>1, <3>3, <3>4 DEF ReportOnly, TypeInv
  <2>5. CASE Record(t)
    <3>1. ahead[t] # <<>> /\ result[t] \in BOOLEAN BY <2>5 DEF Record, TypeInv
    <3>2. ahead' \in [Tasks -> Seq(STRING)]
      BY <2>5, <3>1, TodoTypes DEF Record, TypeInv
    <3>3. s_checks' \in Seq(Check) /\ own' \in [Tasks -> OwnRecord]
      BY <2>5, <3>1, RecordEntry DEF Record
    <3>4. /\ phase' = [phase EXCEPT ![t] = "check"]
          /\ \A u \in Tasks \ {t} : ahead'[u] = ahead[u]
      BY <2>5 DEF Record, TypeInv
    <3> QED BY <2>5, <3>2, <3>3, <3>4 DEF Record, TypeInv, Phases
  <2>6. CASE RecordUnreported(t)
    <3>1. PICK ok \in BOOLEAN : st_record(t, ok)
      BY <2>6 DEF RecordUnreported
    <3>2. ahead[t] # <<>> /\ ahead' = [ahead EXCEPT ![t] = Tail(ahead[t])]
      BY <2>6 DEF RecordUnreported
    <3>3. ahead' \in [Tasks -> Seq(STRING)]
      BY <3>2, TodoTypes DEF TypeInv
    <3>4. s_checks' \in Seq(Check) /\ own' \in [Tasks -> OwnRecord]
      BY <3>1, <3>2, RecordEntry
    <3>5. \A u \in Tasks : phase'[u] = "record" => ahead'[u] # <<>>
      BY <2>6, <3>2 DEF RecordUnreported, TypeInv
    <3> QED BY <2>6, <3>3, <3>4, <3>5 DEF RecordUnreported, TypeInv
  <2>7. CASE EndPrimitive(t)
    BY <2>7 DEF EndPrimitive, buffer, work, history, TypeInv, Phases
  <2>8. CASE Conclude(t) BY <2>8 DEF Conclude, AllPassed, buffer, work, history, TypeInv, Phases
  <2>9. CASE Publish(t) BY <2>9 DEF Publish, buffer, work, history, TypeInv, Phases
  <2> QED BY <1>3, <2>1, <2>2, <2>3, <2>4, <2>5, <2>6, <2>7, <2>8, <2>9 DEF Step
<1>4. CASE \E t \in Tasks : AskSelftest(t) BY <1>2, <1>4 DEF AskSelftest
<1>5. CASE selftest_run_sm BY <1>2, <1>5 DEF selftest_run_sm, Tasks
<1>6. CASE RecipeStarts BY <1>2, <1>6 DEF RecipeStarts, Tasks
<1>7. CASE NoMemory BY <1>7 DEF NoMemory, buffer, work, TypeInv
<1>8. CASE Notify BY <1>8 DEF Notify, Goto, buffer, work, history, TypeInv, Phases, Tasks
<1>9. CASE JudgeStep
  <2>1. StepOk \in BOOLEAN BY DEF StepOk, New
  <2> QED BY <1>9, <2>1 DEF JudgeStep, Goto, buffer, work, history, TypeInv, Phases, Tasks
<1>10. CASE NextStep
  <2>1. PICK p \in {plan["recipe"]} \cup (IF passed["recipe"] THEN {} ELSE {<<>>}) :
          plan' = [plan EXCEPT !["recipe"] = p]
    BY <1>10 DEF NextStep
  <2>2. plan["recipe"] \in Seq(Seq(STRING)) /\ <<>> \in Seq(Seq(STRING))
    BY DEF TypeInv, Tasks
  <2>3. plan' \in [Tasks -> Seq(Seq(STRING))]
    BY <2>1, <2>2 DEF TypeInv
  <2> QED BY <1>10, <2>3 DEF NextStep, Goto, buffer, history, TypeInv, Phases, Tasks
<1>11. CASE RecipeDone
  BY <1>11 DEF RecipeDone, Goto, buffer, work, history, TypeInv, Phases, Tasks
<1>12. CASE Cleared BY <1>12 DEF Cleared, buffer, work, history, TypeInv
<1> QED BY <1>1, <1>3, <1>4, <1>5, <1>6, <1>7, <1>8, <1>9, <1>10, <1>11, <1>12 DEF Next

-----------------------------------------------------------------------------
(***************************************************************************)
(* One step of a task that is alone: the others are idle, before and       *)
(* after.                                                                  *)
(***************************************************************************)
Alone(t) == \A u \in Tasks \ {t} : phase[u] = "idle"

LEMMA AloneKeeps ==
  ASSUME NEW t \in Tasks, TypeInv, TypeInv', Alone(t),
         \A u \in Tasks \ {t} : phase'[u] = phase[u],
         CountsOwn(t)', t = "recipe" => Bracketed'
  PROVE  OrderlyInv'
<1>1. \A u \in Tasks \ {t} : phase'[u] = "idle"
  BY DEF Alone
<1>2. OneTask'
  BY <1>1 DEF OneTask
<1>3. ASSUME NEW u \in Tasks PROVE CountsOwn(u)'
  <2>1. CASE u = t BY <2>1
  <2>2. CASE u # t BY <1>1, <2>2 DEF CountsOwn
  <2> QED BY <2>1, <2>2
<1>4. CASE t # "recipe"
  <2>1. phase'["recipe"] = "idle" BY <1>1, <1>4 DEF Tasks
  <2>2. Bracketed' BY <2>1 DEF Bracketed
  <2> QED BY <1>2, <1>3, <2>2 DEF OrderlyInv
<1> QED BY <1>2, <1>3, <1>4 DEF OrderlyInv

\* A report of a task moves the counters along with what is known of it.
LEMMA ReportOrderly ==
  ASSUME NEW t \in Tasks, NEW ok \in BOOLEAN, TypeInv, CountsOwn(t), Bracketed,
         phase[t] = "check", phase'[t] \in {"check", "record"}, report(ok),
         own' = [own EXCEPT ![t] = Reports(t, ok)], UNCHANGED <<s_checks, mark, passed>>
  PROVE  CountsOwn(t)' /\ (t = "recipe" => Bracketed')
<1>1. /\ s_total' = s_total + 1 /\ s_pass' = IF ok THEN s_pass + 1 ELSE s_pass
      /\ own'[t].reported = TRUE /\ own'[t].flawless = (own[t].flawless /\ ok)
      /\ own'[t].misreported = (own[t].misreported \/ ~ok)
      /\ own'[t].kept = own[t].kept /\ own'[t].failed = own[t].failed
  BY ReportCounts
<1>2. s_pass \in Nat /\ s_total \in Nat /\ mark.total \in Nat /\ mark.pass \in Nat
  BY DEF TypeInv
<1>3. CountsOwn(t)'
  <2>1. s_pass <= s_total /\ (own[t].flawless <=> s_pass = s_total)
    BY DEF CountsOwn
  <2>2. s_pass' <= s_total' /\ s_total' > 0 /\ (s_pass' = s_total' <=> s_pass = s_total /\ ok)
    <3>1. CASE ok BY <1>1, <1>2, <2>1, <3>1
    <3>2. CASE ~ok BY <1>1, <1>2, <2>1, <3>2
    <3> QED BY <3>1, <3>2
  <2> QED BY <1>1, <2>1, <2>2 DEF CountsOwn
<1>4. ASSUME t = "recipe" PROVE Bracketed'
  <2>1. New' = New
    BY DEF New
  <2>a. /\ mark.ncheck <= Len(s_checks) /\ mark.total <= s_total /\ mark.pass <= s_pass
        /\ s_pass - mark.pass <= s_total - mark.total
        /\ own[t].misreported <=> s_pass - mark.pass # s_total - mark.total
    BY <1>4 DEF Bracketed
  <2>b. /\ mark.total <= s_total' /\ mark.pass <= s_pass'
        /\ s_pass' - mark.pass <= s_total' - mark.total
        /\ s_pass' - mark.pass # s_total' - mark.total
             <=> s_pass - mark.pass # s_total - mark.total \/ ~ok
    <3>1. CASE ok BY <1>1, <1>2, <2>a, <3>1
    <3>2. CASE ~ok BY <1>1, <1>2, <2>a, <3>2
    <3> QED BY <3>1, <3>2
  <2>2. /\ mark'.ncheck <= Len(s_checks') /\ mark'.total <= s_total' /\ mark'.pass <= s_pass'
        /\ s_pass' - mark'.pass <= s_total' - mark'.total
        /\ own'[t].misreported <=> s_pass' - mark'.pass # s_total' - mark'.total
    BY <1>1, <2>a, <2>b
  <2>3. /\ own'[t].kept <=> Len(s_checks') > mark'.ncheck
        /\ own'[t].failed <=> \E i \in New' : ~s_checks'[i].pass
    BY <1>1, <1>4, <2>1 DEF Bracketed
  <2> QED BY <1>4, <2>2, <2>3 DEF Bracketed
<1> QED BY <1>3, <1>4

\* So does a record with the buffer.
LEMMA RecordOrderly ==
  ASSUME NEW t \in Tasks, NEW ok \in BOOLEAN, TypeInv, CountsOwn(t), Bracketed,
         phase[t] \in {"check", "record"}, phase'[t] = "check", ahead[t] # <<>>,
         st_record(t, ok), UNCHANGED <<s_pass, s_total, mark, passed>>
  PROVE  CountsOwn(t)' /\ (t = "recipe" => Bracketed')
<1>1. /\ own'[t].reported = own[t].reported /\ own'[t].flawless = own[t].flawless
      /\ own'[t].misreported = own[t].misreported
      /\ \/ s_checks' = s_checks /\ own' = own
         \/ /\ Len(s_checks') = Len(s_checks) + 1
            /\ \A i \in 1..Len(s_checks) : s_checks'[i] = s_checks[i]
            /\ s_checks'[Len(s_checks) + 1].pass = ok
            /\ own'[t].kept = TRUE /\ own'[t].failed = (own[t].failed \/ ~ok)
      /\ s_checks' \in Seq(Check)
  BY RecordEntry
<1>2. CountsOwn(t)'
  BY <1>1 DEF CountsOwn
<1>3. ASSUME t = "recipe" PROVE Bracketed'
  <2>1. /\ mark.ncheck \in Nat /\ mark'.ncheck = mark.ncheck
        /\ Len(s_checks) \in Nat /\ DOMAIN s_checks = 1..Len(s_checks)
        /\ Len(s_checks') \in Nat /\ DOMAIN s_checks' = 1..Len(s_checks')
    BY <1>1, LenProperties DEF TypeInv
  <2>2. /\ own'[t].kept <=> Len(s_checks') > mark'.ncheck
        /\ own'[t].failed <=> \E i \in New' : ~s_checks'[i].pass
        /\ mark'.ncheck <= Len(s_checks')
    <3>1. CASE s_checks' = s_checks /\ own' = own
      <4>1. New' = New
        BY <2>1, <3>1 DEF New
      <4> QED BY <1>3, <2>1, <3>1, <4>1 DEF Bracketed
    <3>2. CASE /\ Len(s_checks') = Len(s_checks) + 1
               /\ \A i \in 1..Len(s_checks) : s_checks'[i] = s_checks[i]
               /\ s_checks'[Len(s_checks) + 1].pass = ok
               /\ own'[t].kept = TRUE /\ own'[t].failed = (own[t].failed \/ ~ok)
      <4>1. mark.ncheck <= Len(s_checks)
        BY <1>3 DEF Bracketed
      <4>2. New' = New \cup {Len(s_checks) + 1} /\ New \subseteq 1..Len(s_checks)
        BY <2>1, <3>2, <4>1 DEF New
      <4>3. (\E i \in New' : ~s_checks'[i].pass) <=> (\E i \in New : ~s_checks[i].pass) \/ ~ok
        BY <3>2, <4>2
      <4>4. Len(s_checks') > mark'.ncheck /\ mark'.ncheck <= Len(s_checks')
        BY <2>1, <3>2, <4>1
      <4>5. own[t].failed <=> \E i \in New : ~s_checks[i].pass
        BY <1>3 DEF Bracketed
      <4> QED BY <3>2, <4>3, <4>4, <4>5
    <3> QED BY <1>1, <3>1, <3>2
  <2> QED BY <1>1, <1>3, <2>2 DEF Bracketed
<1> QED BY <1>2, <1>3

LEMMA StepOrderly ==
  ASSUME NEW t \in Tasks, TypeInv, TypeInv', OrderlyInv, Step(t)
  PROVE  OrderlyInv'
<1>1. phase[t] # "idle"
  BY DEF Step, Reset, BeginPrimitive, Report, ReportOnly, Record, RecordUnreported, EndPrimitive,
         Conclude, Publish
<1>2. Alone(t) /\ CountsOwn(t) /\ Bracketed
  BY <1>1 DEF OrderlyInv, OneTask, Alone
<1>3. SUFFICES /\ \A u \in Tasks \ {t} : phase'[u] = phase[u]
               /\ CountsOwn(t)' /\ (t = "recipe" => Bracketed')
  BY <1>2, AloneKeeps
<1> USE DEF Goto
<1>4. CASE Reset(t)
  <2>1. own'[t] = NothingYet /\ phase'[t] = "next"
    BY <1>4 DEF Reset, TypeInv
  <2>2. CountsOwn(t)'
    BY <1>4, <2>1 DEF Reset, ResetAll, NothingYet, CountsOwn
  <2>3. t = "recipe" => Bracketed'
    BY <2>1 DEF Bracketed
  <2> QED BY <1>4, <2>2, <2>3 DEF Reset, TypeInv
<1>5. CASE BeginPrimitive(t)
  <2>1. /\ phase[t] = "next" /\ phase'[t] = "check"
        /\ \A u \in Tasks \ {t} : phase'[u] = phase[u]
        /\ UNCHANGED <<s_pass, s_total, s_checks, passed>>
    BY <1>5 DEF BeginPrimitive, buffer, TypeInv
  <2>2. /\ own'[t].reported = own[t].reported /\ own'[t].flawless = own[t].flawless
        /\ own'[t].misreported = FALSE /\ own'[t].kept = FALSE /\ own'[t].failed = FALSE
    BY <1>5, BeginForgets
  <2>3. CountsOwn(t)'
    BY <1>2, <2>1, <2>2 DEF CountsOwn
  <2>4. ASSUME t = "recipe" PROVE Bracketed'
    <3>1. /\ mark'.ncheck = Len(s_checks) /\ mark'.total = s_total /\ mark'.pass = s_pass
      BY <1>5, <2>4 DEF BeginPrimitive, MarkAgain
    <3>2. s_pass \in Nat /\ s_total \in Nat /\ Len(s_checks) \in Nat
          /\ DOMAIN s_checks = 1..Len(s_checks)
      BY LenProperties DEF TypeInv
    <3>3. New' = {}
      BY <2>1, <3>1, <3>2 DEF New
    <3> QED BY <2>1, <2>2, <2>4, <3>1, <3>2, <3>3 DEF Bracketed
  <2> QED BY <2>1, <2>3, <2>4
<1>6. CASE Report(t)
  <2>1. PICK ok \in BOOLEAN : /\ report(ok) /\ own' = [own EXCEPT ![t] = Reports(t, ok)]
    BY <1>6 DEF Report
  <2>2. /\ phase[t] = "check" /\ phase'[t] = "record"
        /\ \A u \in Tasks \ {t} : phase'[u] = phase[u]
        /\ UNCHANGED <<s_checks, mark, passed>>
    BY <1>6 DEF Report, TypeInv
  <2> QED BY <1>2, <2>1, <2>2, ReportOrderly
<1>7. CASE ReportOnly(t)
  <2>1. /\ report(FALSE) /\ own' = [own EXCEPT ![t] = Reports(t, FALSE)]
        /\ phase[t] = "check" /\ phase' = phase
        /\ UNCHANGED <<s_checks, mark, passed>>
    BY <1>7 DEF ReportOnly
  <2> QED BY <1>2, <2>1, ReportOrderly
<1>8. CASE Record(t)
  <2>1. /\ phase[t] = "record" /\ phase'[t] = "check" /\ st_record(t, result[t])
        /\ \A u \in Tasks \ {t} : phase'[u] = phase[u]
        /\ UNCHANGED <<s_pass, s_total, mark, passed>>
        /\ ahead[t] # <<>> /\ result[t] \in BOOLEAN
    BY <1>8 DEF Record, TypeInv
  <2> QED BY <1>2, <2>1, RecordOrderly
<1>9. CASE RecordUnreported(t)
  <2>1. PICK ok \in BOOLEAN : st_record(t, ok)
    BY <1>9 DEF RecordUnreported
  <2>2. /\ phase[t] = "check" /\ phase' = phase /\ ahead[t] # <<>>
        /\ UNCHANGED <<s_pass, s_total, mark, passed>>
    BY <1>9 DEF RecordUnreported
  <2> QED BY <1>2, <2>1, <2>2, RecordOrderly
<1>10. CASE EndPrimitive(t)
  <2>1. /\ phase[t] = "check" /\ phase'[t] = IF t = "recipe" THEN "judge" ELSE "next"
        /\ \A u \in Tasks \ {t} : phase'[u] = phase[u]
        /\ UNCHANGED <<s_pass, s_total, s_checks, mark, passed, own>>
    BY <1>10 DEF EndPrimitive, buffer, history, TypeInv
  <2>2. CountsOwn(t)'
    BY <1>2, <2>1 DEF CountsOwn
  <2>3. t = "recipe" => Bracketed'
    BY <1>2, <2>1 DEF Bracketed, New
  <2> QED BY <2>1, <2>2, <2>3
<1>11. CASE Conclude(t)
  <2>1. /\ t # "recipe" /\ phase[t] = "next" /\ phase'[t] = "publish"
        /\ \A u \in Tasks \ {t} : phase'[u] = phase[u]
        /\ own' = own /\ passed'[t] = AllPassed /\ own[t] \in OwnRecord
    BY <1>11 DEF Conclude, history, TypeInv
  <2>2. AllPassed <=> own[t].reported /\ own[t].flawless
    BY <1>2, <2>1 DEF AllPassed, CountsOwn
  <2>3. CountsOwn(t)'
    BY <2>1, <2>2 DEF AllPassed, CountsOwn, OwnRecord
  <2> QED BY <2>1, <2>3
<1>12. CASE Publish(t)
  <2>1. /\ phase[t] = "publish" /\ phase'[t] \in {"notify", "idle"}
        /\ \A u \in Tasks \ {t} : phase'[u] = phase[u]
        /\ UNCHANGED <<own, passed>>
    BY <1>12 DEF Publish, history, TypeInv
  <2>2. CountsOwn(t)'
    BY <1>2, <2>1 DEF CountsOwn
  <2>3. t # "recipe" BY <1>12 DEF Publish, TypeInv
  <2> QED BY <2>1, <2>2, <2>3
<1> QED BY <1>4, <1>5, <1>6, <1>7, <1>8, <1>9, <1>10, <1>11, <1>12 DEF Step

\* A task that starts finds all others idle.
LEMMA StartOrderly ==
  ASSUME NEW t \in Tasks, TypeInv, TypeInv', OrderlyInv, Start(t), Orderly
  PROVE  OrderlyInv'
<1>1. Alone(t)
  BY DEF Start, MayStart, NobodyElse, Orderly, Alone
<1>2. phase'[t] = "reset" /\ \A u \in Tasks \ {t} : phase'[u] = phase[u]
  BY DEF Start, Goto, TypeInv
<1>3. CountsOwn(t)'
  BY <1>2 DEF CountsOwn
<1>4. t = "recipe" => Bracketed'
  BY <1>2 DEF Bracketed
<1> QED BY <1>1, <1>2, <1>3, <1>4, AloneKeeps

(***************************************************************************)
(* What the recipe task does besides: the engine judges what has come      *)
(* between its marks.                                                      *)
(***************************************************************************)
LEMMA EngineOrderly ==
  ASSUME TypeInv, TypeInv', OrderlyInv, JudgeStep \/ NextStep \/ RecipeDone
  PROVE  OrderlyInv'
<1>0. "recipe" \in Tasks
  BY DEF Tasks
<1>1. phase["recipe"] # "idle"
  BY DEF JudgeStep, NextStep, RecipeDone
<1>2. Alone("recipe") /\ CountsOwn("recipe") /\ Bracketed
  BY <1>0, <1>1 DEF OrderlyInv, OneTask, Alone
<1>3. SUFFICES /\ \A u \in Tasks \ {"recipe"} : phase'[u] = phase[u]
               /\ CountsOwn("recipe")' /\ Bracketed'
  BY <1>0, <1>2, AloneKeeps
<1> USE DEF Goto, buffer, history
<1>4. CASE JudgeStep
  <2>1. /\ mark.ncheck <= Len(s_checks) /\ mark.total <= s_total /\ mark.pass <= s_pass
        /\ s_pass - mark.pass <= s_total - mark.total
        /\ own["recipe"].misreported <=> s_pass - mark.pass # s_total - mark.total
        /\ own["recipe"].kept <=> Len(s_checks) > mark.ncheck
        /\ own["recipe"].failed <=> \E i \in New : ~s_checks[i].pass
    BY <1>2, <1>4 DEF JudgeStep, Bracketed
  <2>2. /\ s_pass \in Nat /\ s_total \in Nat /\ mark.total \in Nat /\ mark.pass \in Nat
        /\ mark.ncheck \in Nat /\ Len(s_checks) \in Nat /\ DOMAIN s_checks = 1..Len(s_checks)
    BY LenProperties DEF TypeInv
  <2>3. StepOk <=> ~Visible(own["recipe"])
    <3>1. CASE own["recipe"].kept
      BY <2>1, <3>1 DEF StepOk, Visible
    <3>2. CASE ~own["recipe"].kept
      <4>1. New = {}
        BY <2>1, <2>2, <3>2 DEF New
      <4>2. ~(s_total > mark.total) => s_pass - mark.pass = s_total - mark.total
        BY <2>1, <2>2
      <4> QED BY <2>1, <3>2, <4>1, <4>2 DEF StepOk, Visible
    <3> QED BY <3>1, <3>2
  <2>4. /\ passed'["recipe"] = StepOk /\ phase'["recipe"] = "judged"
        /\ \A u \in Tasks \ {"recipe"} : phase'[u] = phase[u]
        /\ UNCHANGED <<s_pass, s_total, own>> /\ phase["recipe"] = "judge"
    BY <1>0, <1>4 DEF JudgeStep, TypeInv
  <2>5. StepOk \in BOOLEAN
    BY DEF StepOk
  <2>6. passed'["recipe"] = ~Visible(own'["recipe"])
    BY <2>3, <2>4, <2>5 DEF Visible
  <2> QED BY <1>2, <2>4, <2>6 DEF CountsOwn, Bracketed
<1>5. CASE NextStep
  <2>1. /\ phase["recipe"] = "judged" /\ phase'["recipe"] = "next"
        /\ \A u \in Tasks \ {"recipe"} : phase'[u] = phase[u]
        /\ UNCHANGED <<s_pass, s_total, own>>
    BY <1>0, <1>5 DEF NextStep, TypeInv
  <2> QED BY <1>2, <2>1 DEF CountsOwn, Bracketed
<1>6. CASE RecipeDone
  BY <1>0, <1>6 DEF RecipeDone, CountsOwn, Bracketed, TypeInv
<1> QED BY <1>4, <1>5, <1>6

LEMMA NextOrderly == TypeInv /\ (Orderly => OrderlyInv) /\ [Next]_vars => (Orderly => OrderlyInv)'
<1> SUFFICES ASSUME TypeInv, Orderly => OrderlyInv, [Next]_vars, Orderly' PROVE OrderlyInv'
  OBVIOUS
<1>1. TypeInv' /\ scenario' = scenario
  BY NextType DEF Next, vars, history, buffer, AskSelftest, selftest_run_sm, NoMemory, RecipeStarts, Notify,
     JudgeStep, NextStep, RecipeDone, Cleared, Step, Reset, BeginPrimitive, Report, ReportOnly, Record,
     RecordUnreported, EndPrimitive, Conclude, Publish
<1>2. Orderly /\ OrderlyInv
  BY <1>1 DEF Orderly
<1>3. ASSUME UNCHANGED <<buffer, phase, passed, mark, own>> PROVE OrderlyInv'
  BY <1>2, <1>3 DEF buffer, OrderlyInv, OneTask, Bracketed, New, Visible, CountsOwn
<1>4. CASE \E t \in Tasks : AskSelftest(t) BY <1>1, <1>2, <1>4, StartOrderly DEF AskSelftest
<1>5. CASE \E t \in Tasks : Step(t) BY <1>1, <1>2, <1>5, StepOrderly
<1>6. CASE selftest_run_sm BY <1>1, <1>2, <1>6, StartOrderly DEF selftest_run_sm, Tasks
<1>7. CASE RecipeStarts BY <1>1, <1>2, <1>7, StartOrderly DEF RecipeStarts, Tasks
<1>8. CASE NoMemory BY <1>3, <1>8 DEF NoMemory
<1>9. CASE Cleared BY <1>3, <1>9 DEF Cleared, history
<1>10. CASE JudgeStep \/ NextStep \/ RecipeDone BY <1>1, <1>2, <1>10, EngineOrderly
<1>11. CASE Notify
  <2>1. "sm" \in Tasks /\ phase["sm"] = "notify" /\ phase' = [phase EXCEPT !["sm"] = "idle"]
    BY <1>11 DEF Notify, NotifyAlways, Goto, Tasks
  <2>2. Alone("sm") BY <1>2, <2>1 DEF OrderlyInv, OneTask, Alone
  <2>3. phase'["sm"] = "idle" /\ \A u \in Tasks \ {"sm"} : phase'[u] = phase[u]
    BY <2>1 DEF TypeInv
  <2>4. CountsOwn("sm")' BY <2>3 DEF CountsOwn
  <2> QED BY <1>1, <2>1, <2>2, <2>3, <2>4, AloneKeeps
<1>12. CASE UNCHANGED vars BY <1>3, <1>12 DEF vars, history
<1> QED BY <1>4, <1>5, <1>6, <1>7, <1>8, <1>9, <1>10, <1>11, <1>12 DEF Next

-----------------------------------------------------------------------------
(***************************************************************************)
(* selftest_task, for any primitives and any size of the buffer: one task  *)
(* after another, a selftest passes exactly if it has made a report and    *)
(* all its own reports passed.                                             *)
(***************************************************************************)
THEOREM VerdictsAreOwn == Spec => []VerdictIsOwn
<1>1. (Orderly => OrderlyInv) => VerdictIsOwn
  BY DEF OrderlyInv, CountsOwn, VerdictIsOwn
<1> QED BY <1>1, InitSelftest, NextType, NextOrderly, PTL DEF Spec

(***************************************************************************)
(* recipe_engine.c:164-182, for any steps, reported or only recorded, and  *)
(* any size of the buffer: one task after another, the engine fails a step *)
(* exactly for a failed check of the step that is in the buffer or, when   *)
(* the step has no check there, for a failed report of the step.           *)
(***************************************************************************)
THEOREM StepsAreJudgedByOwn == Spec => []StepJudgedByOwn
<1>1. (Orderly => OrderlyInv) => StepJudgedByOwn
  BY DEF OrderlyInv, Bracketed, StepJudgedByOwn
<1> QED BY <1>1, InitSelftest, NextType, NextOrderly, PTL DEF Spec
-----------------------------------------------------------------------------
(***************************************************************************)
(* The tables of the baselines.                                            *)
(***************************************************************************)
Labels == Names \cup {NoName}
SlotRecord == [name : Labels, valid : BOOLEAN, mv : Nat, of : Labels]

\* Whatever fails: what a valid slot holds was scanned under its name.
TableInv ==
  /\ slots \in [Slots -> SlotRecord] /\ scanning \in 0..SNAP_MAX
  /\ latest \in [Names -> Nat] /\ scans \in Nat
  /\ scanning # 0 => slots[scanning].name \in Names
  /\ \A i \in Slots : slots[i].valid => slots[i].name \in Names /\ slots[i].of = slots[i].name
  /\ BaselineOfName

\* Without failures the slots in use are the first ones, and no two of them
\* have one name.
InUse(i) == slots[i].valid \/ i = scanning
Filed ==
  /\ \A i, j \in Slots : j < i /\ InUse(i) => InUse(j)
  /\ \A i, j \in Slots : InUse(i) /\ InUse(j) /\ slots[i].name = slots[j].name => i = j
  /\ \A i \in Slots : slots[i].valid => i # scanning /\ slots[i].mv = latest[slots[i].name]

FiledInv == "fail" \notin tieScenario /\ "closed" \notin tieScenario => Filed /\ CompareUsesLatest

(***************************************************************************)
(* The converter.                                                          *)
(***************************************************************************)
Single == {"mux_read", "tie_read", "sample"}
JobRecord ==
  [op : Single \cup Scans \cup {"none", "heartbeat", "temp"},
   at : {"none", "init", "next", "wait", "restore"}, todo : SUBSET Chans,
   settle : Nat, delay : Nat, done : SUBSET Inputs, saw : SUBSET BOOLEAN, left : 1..SAMPLES,
   alone : BOOLEAN]

\* What each operation asks for.
Fits(t, j) ==
  /\ j \in JobRecord
  /\ j.op = "heartbeat" => t = "recipe" /\ j.todo = {Heart}
  /\ j.op = "temp" => j.at \in {"wait", "restore"}
  /\ j.op \in Single => j.settle >= ROUND

\* A task that waits alone for a channel has the mux, and what was converted
\* since is of that channel.
WaitsOwn(j) ==
  j.at = "wait" /\ j.op \in Single \cup {"heartbeat"} /\ j.alone =>
    /\ sel = First(j.todo)
    /\ j.op \in Single => j.delay >= ROUND
    /\ "mux" \in j.done => conv.ch = sel

\* The same of a temperature and the converter's mode.
WaitsInMode(j) ==
  j.at = "wait" /\ j.op = "temp" /\ j.alone =>
    mode = 0 /\ j.delay >= ROUND /\ ("in7" \in j.done => in7 = 0)

Level == Heart \in high
\* Samples of the heartbeat so far.
Taken(j) == SAMPLES - j.left

(***************************************************************************)
(* What the samples of a beating DUT have seen, with the last edge quiet   *)
(* samples ago: the first sample may be of another channel, and one after  *)
(* an edge of either level; the next one is of the new level.              *)
(***************************************************************************)
HeartSeen(j) ==
  /\ j.at \in {"init", "next"} => Taken(j) = 0
  /\ j.at = "wait" =>
       /\ Taken(j) > 0 => j.delay >= ROUND
       /\ "mux" \in j.done /\ quiet # 0 => conv.level = Level
       /\ Taken(j) >= 2 /\ quiet >= 2 => Level \in j.saw
       /\ Taken(j) >= quiet + 2 => (~Level) \in j.saw
       /\ Taken(j) >= quiet + Beat + 2 => Level \in j.saw

JobInv(t, j) ==
  /\ Fits(t, j) /\ WaitsOwn(j) /\ WaitsInMode(j)
  /\ alive /\ "fail" \notin tieScenario /\ j.op = "heartbeat" /\ j.alone => HeartSeen(j)

BoardTypes ==
  /\ high \subseteq Chans /\ alive \in BOOLEAN /\ quiet \in 0..Beat
  /\ conv.level \in BOOLEAN /\ job \in [TieTasks -> JobRecord]

BoardInv ==
  /\ BoardTypes /\ \A t \in TieTasks : JobInv(t, job[t])
  /\ ReadingIsOwn /\ LiveHeartPasses

-----------------------------------------------------------------------------
LEMMA FirstIsLeast ==
  ASSUME NEW S, S \subseteq Slots, S # {}
  PROVE First(S) \in S /\ \A j \in S : First(S) <= j
<1>1. IsWellFoundedOn(OpToRel(<, Nat), Nat) BY NatLessThanWellFounded
<1>2. S \subseteq Nat BY SnapMaxAssumption DEF Slots
<1>3. PICK i \in S : \A j \in S : ~(<<j, i>> \in OpToRel(<, Nat)) BY <1>1, <1>2, WFMin
<1>4. ASSUME NEW j \in S PROVE i <= j
  <2>1. i \in Nat /\ j \in Nat BY <1>2
  <2>2. ~(<<j, i>> \in {ss \in Nat \X Nat : ss[1] < ss[2]}) BY <1>3 DEF OpToRel
  <2>3. ~(j < i) BY <2>1, <2>2
  <2> QED BY <2>1, <2>3
<1> QED BY <1>4 DEF First

-----------------------------------------------------------------------------
(***************************************************************************)
(* Steps.                                                                  *)
(***************************************************************************)
TableStep ==
  \/ \E n \in Names : \/ BeginSnapshot(n) \/ TableFull(n) \/ SnapshotRefused(n)
                      \/ CompareFinds(n) \/ CompareFails(n)
  \/ Scanned \/ ScanFails

LEMMA TableCases ==
  ASSUME [TieNext]_scanVars PROVE TableStep \/ UNCHANGED snapVars
<1> USE DEF TableStep
<1>1. CASE \E i \in Inputs : Convert(i) BY <1>1 DEF Convert
<1>2. CASE Edge BY <1>2 DEF Edge
<1>3. CASE Operation
  <2>1. ASSUME NEW n \in Names, run_mux_snapshot(n) \/ run_mux_compare_snapshot(n) PROVE TableStep
    BY <2>1 DEF run_mux_snapshot, run_mux_compare_snapshot
  <2>2. ASSUME run_mux_read \/ run_short_detect \/ run_dut_heartbeat \/ do_tie_read
                 \/ run_mux_scan \/ dut_detect_sample
        PROVE UNCHANGED snapVars
    BY <2>2 DEF run_mux_read, run_short_detect, run_dut_heartbeat, do_tie_read, run_mux_scan,
                dut_detect_sample
  <2>3. ASSUME NEW t \in TieTasks, run_temp(t) PROVE UNCHANGED snapVars
    BY <2>3 DEF run_temp
  <2> QED BY <1>3, <2>1, <2>2, <2>3 DEF Operation
<1>4. CASE DutScans BY <1>4 DEF DutScans
<1>5. ASSUME NEW t \in TieTasks, TieStep(t) PROVE TableStep \/ UNCHANGED snapVars
  <2>1. CASE Started(t) \/ Select(t) \/ ReadOne(t) \/ ReadTemp(t)
    BY <2>1 DEF Started, Select, ReadOne, ReadTemp
  <2>2. CASE RestoreMode(t) \/ ScanNext(t) \/ SampleHeart(t)
    BY <2>2 DEF RestoreMode, ScanNext, SampleHeart
  <2>3. CASE InitFails(t) BY <2>3 DEF InitFails
  <2>4. CASE ScanEnds(t) BY <2>4 DEF ScanEnds
  <2> QED BY <1>5, <2>1, <2>2, <2>3, <2>4 DEF TieStep
<1>6. CASE UNCHANGED scanVars BY <1>6 DEF scanVars
<1> QED BY <1>1, <1>2, <1>3, <1>4, <1>5, <1>6 DEF TieNext

-----------------------------------------------------------------------------
(***************************************************************************)
(* The tables.                                                             *)
(***************************************************************************)
LEMMA InitTable == TieInit => TableInv /\ FiledInv
<1> SUFFICES ASSUME TieInit PROVE TableInv /\ FiledInv
  OBVIOUS
<1> USE DEF TieInit, SnapInit, NotFound, Unused
<1>1. TableInv
  BY SnapMaxAssumption DEF TableInv, SlotRecord, Labels, BaselineOfName, Slots
<1>2. Filed /\ CompareUsesLatest
  BY DEF Filed, InUse, CompareUsesLatest, Slots
<1> QED BY <1>1, <1>2 DEF FiledInv

\* The slot that a snapshot claims is free or the one of its name; a slot
\* before it is in use and has another name.
LEMMA ClaimedSlot ==
  ASSUME TableInv, NEW n \in Names, BeginSnapshot(n)
  PROVE  \E k \in Slots :
           /\ scanning = 0 /\ scanning' = k
           /\ slots' = [slots EXCEPT ![k] = [slots[k] EXCEPT !.name = n, !.valid = FALSE]]
           /\ slots[k].valid => slots[k].name = n
           /\ \A j \in Slots : j < k => slots[j].valid /\ slots[j].name # n
           /\ latest' = [latest EXCEPT ![n] = 0] /\ scans' = scans + 1
           /\ UNCHANGED <<found, tieScenario>>
<1> DEFINE k == First(Takes(n))
<1>1. Takes(n) # {} /\ Takes(n) \subseteq Slots BY DEF BeginSnapshot, Takes
<1>2. k \in Takes(n) /\ \A j \in Takes(n) : k <= j BY <1>1, FirstIsLeast
<1>3. \A j \in Slots : j < k => j \notin Takes(n)
  BY <1>1, <1>2, SnapMaxAssumption DEF Slots
<1>4. k \in Slots /\ (slots[k].valid => slots[k].name = n)
  BY <1>2 DEF Takes
<1>5. \A j \in Slots : j < k => slots[j].valid /\ slots[j].name # n
  BY <1>3 DEF Takes, TableInv, SlotRecord
<1>6. /\ scanning = 0 /\ scanning' = k
      /\ slots' = [slots EXCEPT ![k] = [slots[k] EXCEPT !.name = n, !.valid = FALSE]]
      /\ latest' = [latest EXCEPT ![n] = 0] /\ scans' = scans + 1
      /\ UNCHANGED <<found, tieScenario>>
  BY <1>4 DEF BeginSnapshot, Claimed, TableInv
<1> QED BY <1>4, <1>5, <1>6

\* The slot that a comparison finds is valid and has its name.
LEMMA FoundSlot ==
  ASSUME TableInv, NEW n \in Names, CompareFinds(n)
  PROVE  \E k \in Slots :
           /\ slots[k].valid /\ slots[k].name = n
           /\ found' = [of |-> slots[k].of, asked |-> n, mv |-> slots[k].mv, latest |-> latest[n]]
           /\ UNCHANGED <<slots, scanning, latest, scans, tieScenario>>
<1>1. Called(n) # {} /\ Called(n) \subseteq Slots BY DEF CompareFinds, Called
<1>2. First(Called(n)) \in Called(n) BY <1>1, FirstIsLeast
<1> QED BY <1>2 DEF CompareFinds, Called

LEMMA ScannedSlot ==
  ASSUME TableInv, Scanned
  PROVE  /\ scanning \in Slots /\ scanning # 0 /\ scanning' = 0
         /\ slots[scanning].name \in Names
         /\ slots' = [slots EXCEPT ![scanning] =
              [slots[scanning] EXCEPT !.valid = TRUE, !.mv = scans, !.of = slots[scanning].name]]
         /\ latest' = [latest EXCEPT ![slots[scanning].name] = scans]
         /\ UNCHANGED <<found, scans, tieScenario>>
<1>1. scanning \in Slots BY SnapMaxAssumption DEF Scanned, TableInv, Slots
<1> QED BY <1>1 DEF Scanned, Filled, TableInv

LEMMA NextTable == TableInv /\ [TieNext]_scanVars => TableInv'
<1> SUFFICES ASSUME TableInv, TableStep \/ UNCHANGED snapVars PROVE TableInv'
  BY TableCases
<1>1. ASSUME NEW n \in Names, BeginSnapshot(n) PROVE TableInv'
  <2>1. PICK k \in Slots :
           /\ scanning' = k
           /\ slots' = [slots EXCEPT ![k] = [slots[k] EXCEPT !.name = n, !.valid = FALSE]]
           /\ latest' = [latest EXCEPT ![n] = 0] /\ scans' = scans + 1
           /\ UNCHANGED <<found, tieScenario>>
    BY <1>1, ClaimedSlot
  <2>2. [slots[k] EXCEPT !.name = n, !.valid = FALSE] \in SlotRecord
    BY DEF TableInv, SlotRecord, Labels
  <2>3. slots' \in [Slots -> SlotRecord] /\ scanning' \in 0..SNAP_MAX
    BY <2>1, <2>2, SnapMaxAssumption DEF TableInv, Slots
  <2>4. slots'[k].name = n /\ slots'[k].valid = FALSE
    BY <2>1 DEF TableInv, SlotRecord
  <2>5. \A i \in Slots : i # k => slots'[i] = slots[i]
    BY <2>1 DEF TableInv
  <2>6. latest' \in [Names -> Nat] /\ scans' \in Nat BY <2>1 DEF TableInv
  <2> QED BY <2>1, <2>3, <2>4, <2>5, <2>6 DEF TableInv, BaselineOfName
<1>2. ASSUME NEW n \in Names, TableFull(n) \/ SnapshotRefused(n) PROVE TableInv'
  BY <1>2 DEF TableFull, SnapshotRefused, TableInv, BaselineOfName
<1>3. ASSUME NEW n \in Names, CompareFinds(n) PROVE TableInv'
  BY <1>3, FoundSlot DEF TableInv, BaselineOfName
<1>4. ASSUME NEW n \in Names, CompareFails(n) PROVE TableInv'
  BY <1>4 DEF CompareFails, TableInv, BaselineOfName, NotFound
<1>5. CASE Scanned
  <2> DEFINE filled == [slots[scanning] EXCEPT !.valid = TRUE, !.mv = scans, !.of = slots[scanning].name]
  <2>0. /\ slots[scanning] \in SlotRecord /\ scans \in Nat /\ slots[scanning].name \in Names
        /\ scanning \in Slots /\ slots' = [slots EXCEPT ![scanning] = filled]
    BY <1>5, ScannedSlot DEF TableInv
  <2>1. filled \in SlotRecord BY <2>0 DEF SlotRecord, Labels
  <2>2. slots' \in [Slots -> SlotRecord] /\ scanning' = 0
    BY <1>5, <2>1, ScannedSlot DEF TableInv
  <2>3. slots'[scanning].name = slots[scanning].name /\ slots'[scanning].of = slots[scanning].name
    <3>1. filled.name = slots[scanning].name /\ filled.of = slots[scanning].name
      BY <2>0 DEF SlotRecord
    <3>2. slots'[scanning] = filled BY <2>0 DEF TableInv
    <3> QED BY <3>1, <3>2
  <2>4. \A i \in Slots : i # scanning => slots'[i] = slots[i]
    BY <1>5, ScannedSlot DEF TableInv
  <2>5. latest' \in [Names -> Nat] /\ scans' \in Nat /\ found' = found
        /\ slots[scanning].name \in Names
    BY <1>5, ScannedSlot DEF TableInv
  <2> QED BY <2>2, <2>3, <2>4, <2>5, SnapMaxAssumption DEF TableInv, BaselineOfName
<1>6. CASE ScanFails BY <1>6, SnapMaxAssumption DEF ScanFails, TableInv, BaselineOfName
<1>7. CASE UNCHANGED snapVars BY <1>7 DEF snapVars, TableInv, BaselineOfName
<1> QED BY <1>1, <1>2, <1>3, <1>4, <1>5, <1>6, <1>7 DEF TableStep

LEMMA NextFiled == TableInv /\ FiledInv /\ [TieNext]_scanVars => FiledInv'
<1>0. ASSUME TableStep \/ UNCHANGED snapVars PROVE UNCHANGED tieScenario
  BY <1>0 DEF TableStep, BeginSnapshot, TableFull, SnapshotRefused, CompareFinds, CompareFails,
              Scanned, ScanFails, snapVars
<1> SUFFICES ASSUME TableInv, Filed, CompareUsesLatest, TableStep \/ UNCHANGED snapVars,
                    "fail" \notin tieScenario, "closed" \notin tieScenario
             PROVE Filed' /\ CompareUsesLatest'
  BY <1>0, TableCases DEF FiledInv
<1> USE DEF CompareUsesLatest
<1>1. ASSUME NEW n \in Names, BeginSnapshot(n) PROVE Filed' /\ CompareUsesLatest'
  <2>1. PICK k \in Slots :
           /\ scanning = 0 /\ scanning' = k
           /\ slots' = [slots EXCEPT ![k] = [slots[k] EXCEPT !.name = n, !.valid = FALSE]]
           /\ slots[k].valid => slots[k].name = n
           /\ \A j \in Slots : j < k => slots[j].valid /\ slots[j].name # n
           /\ latest' = [latest EXCEPT ![n] = 0]
           /\ found' = found
    BY <1>1, ClaimedSlot
  <2>2. slots'[k].name = n /\ slots'[k].valid = FALSE
    BY <2>1 DEF TableInv, SlotRecord
  <2>3. \A i \in Slots : i # k => slots'[i] = slots[i]
    BY <2>1 DEF TableInv
  <2>4. \A i \in Slots : i > 0 /\ i \in Int BY DEF Slots
  <2>5. \A i \in Slots : i # k /\ slots[i].valid => slots[i].name # n
    BY <2>1, <2>4 DEF Filed, InUse
  <2>6. \A i \in Slots : InUse(i)' <=> i = k \/ slots[i].valid
    BY <2>1, <2>2, <2>3 DEF InUse
  <2>7. \A i, j \in Slots : j < i /\ InUse(i)' => InUse(j)'
    BY <2>1, <2>4, <2>6 DEF Filed, InUse
  <2>8. \A i, j \in Slots : InUse(i)' /\ InUse(j)' /\ slots'[i].name = slots'[j].name => i = j
    BY <2>2, <2>3, <2>5, <2>6 DEF Filed, InUse
  <2>9. \A i \in Slots : slots'[i].valid => i # scanning' /\ slots'[i].mv = latest'[slots'[i].name]
    BY <2>1, <2>2, <2>3, <2>5 DEF Filed, TableInv
  <2> QED BY <2>1, <2>7, <2>8, <2>9 DEF Filed, InUse
<1>2. ASSUME NEW n \in Names, TableFull(n) PROVE Filed' /\ CompareUsesLatest'
  <2>1. \A i \in Slots : slots[i].valid /\ slots[i].name # n
    BY <1>2 DEF TableFull, Takes, TableInv, SlotRecord
  <2> QED BY <1>2, <2>1 DEF TableFull, Filed, InUse, TableInv
<1>3. ASSUME NEW n \in Names, CompareFinds(n) PROVE Filed' /\ CompareUsesLatest'
  BY <1>3, FoundSlot DEF Filed, InUse
<1>4. ASSUME NEW n \in Names, CompareFails(n) PROVE Filed' /\ CompareUsesLatest'
  BY <1>4 DEF CompareFails, NotFound, Filed, InUse
<1>5. CASE Scanned
  <2>1. slots'[scanning].name = slots[scanning].name /\ slots'[scanning].valid
        /\ slots'[scanning].mv = scans
    <3> DEFINE filled == [slots[scanning] EXCEPT !.valid = TRUE, !.mv = scans, !.of = slots[scanning].name]
    <3>1. /\ slots[scanning] \in SlotRecord /\ scanning \in Slots
          /\ slots' = [slots EXCEPT ![scanning] = filled]
      BY <1>5, ScannedSlot DEF TableInv
    <3>2. filled.name = slots[scanning].name /\ filled.valid /\ filled.mv = scans
      BY <3>1 DEF SlotRecord
    <3>3. slots'[scanning] = filled BY <3>1 DEF TableInv
    <3> QED BY <3>2, <3>3
  <2>2. \A i \in Slots : i # scanning => slots'[i] = slots[i]
    BY <1>5, ScannedSlot DEF TableInv
  <2>3. scanning \in Slots /\ scanning' = 0 /\ 0 \notin Slots /\ found' = found
    BY <1>5, ScannedSlot DEF Slots
  <2>4. \A i \in Slots : InUse(i)' <=> InUse(i)
    BY <2>1, <2>2, <2>3 DEF InUse
  <2>5. \A i \in Slots : slots'[i].name = slots[i].name BY <2>1, <2>2
  <2>6. latest'[slots[scanning].name] = scans
        /\ \A n \in Names : n # slots[scanning].name => latest'[n] = latest[n]
    BY <1>5, ScannedSlot DEF TableInv
  <2>7. ASSUME NEW i \in Slots, slots'[i].valid
        PROVE i # scanning' /\ slots'[i].mv = latest'[slots'[i].name]
    <3>1. CASE i = scanning BY <2>1, <2>3, <2>6, <3>1
    <3>2. CASE i # scanning
      <4>1. slots[i].valid /\ slots[i].name \in Names /\ slots[i].name # slots[scanning].name
        BY <2>2, <2>3, <2>7, <3>2 DEF Filed, InUse, TableInv
      <4> QED BY <2>2, <2>3, <2>6, <3>2, <4>1 DEF Filed
    <3> QED BY <3>1, <3>2
  <2>8. Filed' BY <2>4, <2>5, <2>7 DEF Filed
  <2> QED BY <2>3, <2>8
<1>6. CASE UNCHANGED snapVars BY <1>6 DEF snapVars, Filed, InUse
<1> QED BY <1>1, <1>2, <1>3, <1>4, <1>5, <1>6 DEF TableStep, SnapshotRefused, ScanFails

(***************************************************************************)
(* run_mux_snapshot and its like, for any names and any table: whatever    *)
(* fails, and however often a slot changes its name, a comparison finds    *)
(* readings that were scanned under the name it asks for.                  *)
(***************************************************************************)
THEOREM BaselinesAreNamed == TieSpec => []BaselineOfName
<1>1. TableInv => BaselineOfName BY DEF TableInv
<1>2. TieInit => TableInv BY InitTable
<1> QED BY <1>1, <1>2, NextTable, PTL DEF TieSpec

(***************************************************************************)
(* Where no scan fails, a name never has two slots: a comparison finds the *)
(* baseline of the latest snapshot of its name, for any table.             *)
(***************************************************************************)
THEOREM ComparesWithLatest == TieSpec => []CompareUsesLatest
<1>1. FiledInv => CompareUsesLatest BY DEF FiledInv, CompareUsesLatest
<1> QED BY <1>1, InitTable, NextTable, NextFiled, PTL DEF TieSpec

-----------------------------------------------------------------------------
(***************************************************************************)
(* The converter: the steps.                                               *)
(***************************************************************************)
shared == <<sel, high, alive, quiet, mode, conv, in7>>

\* A job that a task begins: a temperature waits at once, no other does.
Fresh(t, m, j) ==
  /\ Fits(t, j) /\ j.done = {}
  /\ j.op = "heartbeat" => j.left = SAMPLES
  /\ j.op = "temp" => m = 0 /\ j.delay >= ROUND
  /\ j.at = "wait" => j.op = "temp"

Begins ==
  /\ \E t \in TieTasks, m \in {0, 1}, j \in JobRecord : Fresh(t, m, j) /\ SetMode(t, m, j)
  /\ last' = NoReading
  /\ UNCHANGED <<sel, high, alive, quiet, conv, in7>>

LEMMA NoJobFits == \A t \in TieTasks, m \in {0, 1} : Fresh(t, m, NoJob)
  BY TimingAssumption DEF Fresh, Fits, NoJob, Job, JobRecord, Single, Scans, Inputs

LEMMA JobFits ==
  ASSUME NEW op \in Single \cup Scans \cup {"none", "heartbeat", "temp"},
         NEW where \in {"none", "init", "next", "wait", "restore"}, NEW todo \in SUBSET Chans,
         NEW settle \in Nat
  PROVE  Job(op, where, todo, settle) \in JobRecord
  BY TimingAssumption DEF Job, JobRecord, Inputs

LEMMA DelayFits ==
  ASSUME NEW j \in JobRecord, NEW where \in {"init", "wait"}, NEW ms \in Nat
  PROVE  /\ Delay(j, where, ms) \in JobRecord
         /\ Delay(j, where, ms).at = where /\ Delay(j, where, ms).delay = ms
         /\ Delay(j, where, ms).done = {}
         /\ Delay(j, where, ms).op = j.op /\ Delay(j, where, ms).todo = j.todo
         /\ Delay(j, where, ms).settle = j.settle /\ Delay(j, where, ms).saw = j.saw
         /\ Delay(j, where, ms).left = j.left /\ Delay(j, where, ms).alone = j.alone
  BY DEF Delay, JobRecord

LEMMA BeginFresh ==
  ASSUME NEW t \in TieTasks, NEW op \in {"mux_read", "short_detect", "heartbeat", "snapshot", "compare", "mux_scan"},
         NEW todo \in SUBSET Chans, NEW settle \in Nat, Begin(t, op, todo, settle),
         op = "heartbeat" => t = "recipe" /\ todo = {Heart},
         op = "mux_read" => settle >= ROUND
  PROVE  Begins
<1> DEFINE j == Delay(Job(op, "init", todo, settle), "init", 150)
<1>1. j \in JobRecord
  <2>1. Job(op, "init", todo, settle) \in JobRecord BY JobFits DEF Single, Scans
  <2> QED BY <2>1, DelayFits
<1>2. j.op = op /\ j.at = "init" /\ j.todo = todo /\ j.settle = settle /\ j.done = {} /\ j.left = SAMPLES
  BY DEF Delay, Job
<1>3. SetMode(t, 1, j) /\ last' = NoReading /\ UNCHANGED <<sel, high, alive, quiet, conv, in7>>
  BY DEF Begin
<1> HIDE DEF j
<1>4. Fresh(t, 1, j) BY <1>1, <1>2 DEF Fresh, Fits, Single
<1> QED BY <1>1, <1>3, <1>4 DEF Begins

LEMMA BeginAtOnceFresh ==
  ASSUME NEW t \in TieTasks, NEW op \in {"tie_read", "sample"}, NEW ch \in Chans, NEW settle \in Nat,
         BeginAtOnce(t, op, ch, settle), settle >= ROUND
  PROVE  Begins
<1> DEFINE j == Job(op, "next", {ch}, settle)
<1>1. j \in JobRecord BY JobFits DEF Single
<1>2. j.op = op /\ j.at = "next" /\ j.settle = settle /\ j.done = {}
  BY DEF Job
<1>3. SetMode(t, 1, j) /\ last' = NoReading /\ UNCHANGED <<sel, high, alive, quiet, conv, in7>>
  BY DEF BeginAtOnce
<1> HIDE DEF j
<1>4. Fresh(t, 1, j) BY <1>1, <1>2 DEF Fresh, Fits
<1> QED BY <1>1, <1>3, <1>4 DEF Begins

LEMMA TempFresh == ASSUME NEW t \in TieTasks, run_temp(t) PROVE Begins
<1> DEFINE j == Delay(Job("temp", "wait", {}, 0), "wait", 150)
<1>1. j \in JobRecord
  <2>1. Job("temp", "wait", {}, 0) \in JobRecord BY JobFits
  <2> QED BY <2>1, DelayFits
<1>2. j.op = "temp" /\ j.at = "wait" /\ j.delay = 150 /\ j.done = {}
  BY DEF Delay, Job
<1>3. SetMode(t, 0, j) /\ last' = NoReading /\ UNCHANGED <<sel, high, alive, quiet, conv, in7>>
  BY DEF run_temp
<1> HIDE DEF j
<1>4. Fresh(t, 0, j) BY <1>1, <1>2, TimingAssumption DEF Fresh, Fits, Single
<1> QED BY <1>1, <1>3, <1>4 DEF Begins

LEMMA OperationBegins == ASSUME Operation PROVE Begins \/ UNCHANGED tieVars
<1>0. /\ Heart \in Chans /\ Probe \in Chans /\ "recipe" \in TieTasks /\ "console" \in TieTasks
      /\ "detect" \in TieTasks
  BY ChansAssumption DEF TieTasks
<1>1. CASE run_mux_read
  <2>1. PICK ch \in Chans, ms \in SettleTimes : Begin("recipe", "mux_read", {ch}, ms)
    BY <1>1 DEF run_mux_read
  <2> QED BY <1>0, <2>1, BeginFresh, TimingAssumption
<1>2. CASE run_short_detect
  BY <1>0, <1>2, BeginFresh DEF run_short_detect
<1>3. CASE run_dut_heartbeat
  <2>1. Begin("recipe", "heartbeat", {Heart}, 20) BY <1>3 DEF run_dut_heartbeat
  <2> QED BY <1>0, <2>1, BeginFresh
<1>4. ASSUME NEW n \in Names, run_mux_snapshot(n) \/ run_mux_compare_snapshot(n)
      PROVE Begins \/ UNCHANGED tieVars
  <2>1. ScanFor("snapshot") \/ ScanFor("compare") \/ UNCHANGED tieVars
    BY <1>4 DEF run_mux_snapshot, run_mux_compare_snapshot
  <2>2. ASSUME NEW op \in {"snapshot", "compare"}, ScanFor(op) PROVE Begins \/ UNCHANGED tieVars
    <3>1. Begin("recipe", op, Chans, 20) \/ UNCHANGED tieVars BY <2>2 DEF ScanFor
    <3> QED BY <1>0, <3>1, BeginFresh
  <2> QED BY <2>1, <2>2
<1>5. CASE do_tie_read
  <2>1. PICK ch \in Chans, ms \in SettleTimes : BeginAtOnce("console", "tie_read", ch, ms)
    BY <1>5 DEF do_tie_read
  <2> QED BY <1>0, <2>1, BeginAtOnceFresh, TimingAssumption
<1>6. CASE run_mux_scan
  BY <1>0, <1>6, BeginFresh DEF run_mux_scan
<1>7. CASE dut_detect_sample
  BY <1>0, <1>7, BeginAtOnceFresh, TimingAssumption DEF dut_detect_sample
<1>8. ASSUME NEW t \in TieTasks, run_temp(t) PROVE Begins
  BY <1>8, TempFresh
<1> QED BY <1>1, <1>2, <1>3, <1>4, <1>5, <1>6, <1>7, <1>8 DEF Operation

-----------------------------------------------------------------------------
(***************************************************************************)
(* The converter: the invariant.                                           *)
(***************************************************************************)
LEMMA NoReadingIsOwn == last' = NoReading => (ReadingIsOwn /\ LiveHeartPasses)'
  BY DEF NoReading, ReadingIsOwn, LiveHeartPasses

\* Of a job that another task disturbs only what it asks for matters.
LEMMA Unalone ==
  ASSUME NEW t, NEW j, Fits(t, j) PROVE JobInv(t, [j EXCEPT !.alone = FALSE])'
<1> DEFINE k == [j EXCEPT !.alone = FALSE]
<1>1. /\ k \in JobRecord /\ k.alone = FALSE
      /\ k.op = j.op /\ k.at = j.at /\ k.todo = j.todo /\ k.settle = j.settle
  BY DEF Fits, JobRecord
<1> HIDE DEF k
<1>2. Fits(t, k) BY <1>1 DEF Fits
<1> QED BY <1>1, <1>2 DEF JobInv, WaitsOwn, WaitsInMode, Fits, JobRecord

\* A step of one task that disturbs nobody.
LEMMA OneJob ==
  ASSUME BoardInv, UNCHANGED shared, UNCHANGED tieScenario, NEW t \in TieTasks, NEW j \in JobRecord,
         job' = [job EXCEPT ![t] = j], JobInv(t, j)
  PROVE  BoardTypes' /\ \A u \in TieTasks : JobInv(u, job[u])'
<1>1. BoardTypes' BY DEF BoardInv, BoardTypes, shared
<1>2. ASSUME NEW u \in TieTasks PROVE JobInv(u, job[u])'
  <2>1. JobInv(u, job'[u])
    BY DEF BoardInv, BoardTypes
  <2> QED BY <2>1 DEF JobInv, WaitsOwn, WaitsInMode, HeartSeen, Level, shared, Fits, Taken, JobRecord
<1> QED BY <1>1, <1>2

LEMMA NoJobOK == \A t \in TieTasks : JobInv(t, NoJob)
<1> TAKE t \in TieTasks
<1>1. Fits(t, NoJob) BY NoJobFits DEF Fresh
<1>2. NoJob.op = "none" /\ NoJob.at = "none" BY DEF NoJob, Job
<1> QED BY <1>1, <1>2 DEF JobInv, WaitsOwn, WaitsInMode

LEMMA InitBoard == TieInit => BoardInv
<1> SUFFICES ASSUME TieInit PROVE BoardInv
  OBVIOUS
<1>1. \A t \in TieTasks : job[t] = NoJob /\ job[t] \in JobRecord
  BY NoJobFits DEF TieInit, Fresh, Fits
<1>2. BoardTypes
  <2>1. high \subseteq Chans /\ alive \in BOOLEAN /\ quiet \in 0..Beat
    BY TimingAssumption DEF TieInit
  <2>2. conv.level \in BOOLEAN BY DEF TieInit
  <2>3. job \in [TieTasks -> JobRecord] BY <1>1 DEF TieInit
  <2> QED BY <2>1, <2>2, <2>3 DEF BoardTypes
<1>3. ReadingIsOwn /\ LiveHeartPasses
  BY DEF TieInit, NoReading, ReadingIsOwn, LiveHeartPasses
<1> QED BY <1>1, <1>2, <1>3, NoJobOK DEF BoardInv

LEMMA BeginsBoard == ASSUME BoardInv, UNCHANGED tieScenario, Begins PROVE BoardInv'
<1>1. PICK t \in TieTasks, m \in {0, 1}, j \in JobRecord : Fresh(t, m, j) /\ SetMode(t, m, j)
  BY DEF Begins
<1>2. mode' = m /\ last' = NoReading /\ UNCHANGED <<sel, high, alive, quiet, conv, in7>>
  BY <1>1 DEF Begins, SetMode
<1>3. job'[t] = j /\ job' \in [TieTasks -> JobRecord]
  <2>1. \A u \in TieTasks : [job[u] EXCEPT !.alone = FALSE] \in JobRecord
    BY DEF BoardInv, BoardTypes, JobRecord
  <2>2. Disturbed(t, TRUE) \in [TieTasks -> JobRecord]
    BY <2>1 DEF Disturbed, BoardInv, BoardTypes
  <2> QED BY <1>1, <2>2 DEF SetMode, BoardInv, BoardTypes
<1>4. ASSUME NEW u \in TieTasks, u # t
      PROVE \/ job'[u] = job[u] /\ (m = mode \/ ~(job[u].at = "wait" /\ job[u].op = "temp"))
            \/ job'[u] = [job[u] EXCEPT !.alone = FALSE]
  <2>1. CASE m = mode BY <1>1, <1>4, <2>1 DEF SetMode, BoardInv, BoardTypes
  <2>2. CASE m # mode
    <3>1. job'[u] = Disturbed(t, TRUE)[u] BY <1>1, <1>4, <2>2 DEF SetMode, Disturbed
    <3> QED BY <1>4, <3>1 DEF Disturbed
  <2> QED BY <2>1, <2>2
<1>5. BoardTypes' BY <1>2, <1>3 DEF BoardInv, BoardTypes
<1>6. JobInv(t, job[t])'
  <2>1. j.op = "heartbeat" => Taken(j) = 0
    BY <1>1, TimingAssumption DEF Fresh, Taken
  <2>2. Fits(t, j) /\ (j.at = "wait" => j.op = "temp" /\ mode' = 0 /\ j.delay >= ROUND /\ j.done = {})
    BY <1>1, <1>2 DEF Fresh
  <2> QED BY <1>3, <2>1, <2>2 DEF JobInv, Fits, JobRecord, WaitsOwn, WaitsInMode, HeartSeen, Single, Taken
<1>7. ASSUME NEW u \in TieTasks, u # t PROVE JobInv(u, job[u])'
  <2>1. JobInv(u, job[u]) BY DEF BoardInv
  <2>2. CASE job'[u] = [job[u] EXCEPT !.alone = FALSE]
    BY <2>1, <2>2, Unalone DEF JobInv
  <2>3. CASE job'[u] = job[u] /\ (m = mode \/ ~(job[u].at = "wait" /\ job[u].op = "temp"))
    BY <1>2, <2>1, <2>3 DEF JobInv, Fits, JobRecord, WaitsOwn, WaitsInMode, HeartSeen, Level, Taken
  <2> QED BY <1>4, <1>7, <2>2, <2>3
<1> QED BY <1>2, <1>5, <1>6, <1>7, NoReadingIsOwn DEF BoardInv

LEMMA ConvertBoard ==
  ASSUME BoardInv, UNCHANGED tieScenario, NEW i \in Inputs, Convert(i) PROVE BoardInv'
<1>1. /\ conv' = IF i = "mux" THEN [ch |-> sel, level |-> sel \in high] ELSE conv
      /\ in7' = IF i = "in7" THEN mode ELSE in7
      /\ last' = NoReading /\ UNCHANGED <<sel, high, alive, quiet, mode>>
  BY DEF Convert
<1>2. ASSUME NEW t \in TieTasks
      PROVE job'[t] = job[t] \/ (job'[t] = [job[t] EXCEPT !.done = job[t].done \cup {i}])
  BY DEF Convert
<1>3. ASSUME NEW t \in TieTasks, NEW j, j = [job[t] EXCEPT !.done = job[t].done \cup {i}]
      PROVE  /\ j \in JobRecord /\ j.done = job[t].done \cup {i}
             /\ j.op = job[t].op /\ j.at = job[t].at /\ j.todo = job[t].todo /\ j.settle = job[t].settle
             /\ j.delay = job[t].delay /\ j.saw = job[t].saw /\ j.left = job[t].left /\ j.alone = job[t].alone
  BY <1>3 DEF BoardInv, BoardTypes, JobRecord
<1>4. conv'.level \in BOOLEAN /\ (i = "mux" => conv'.ch = sel /\ conv'.level = (sel \in high))
  <2>1. CASE i = "mux"
    <3>1. conv' = [ch |-> sel, level |-> sel \in high] BY <1>1, <2>1
    <3>2. conv'.ch = sel /\ conv'.level = (sel \in high) BY <3>1, Zenon
    <3> QED BY <3>2
  <2>2. CASE i # "mux" BY <1>1, <2>2 DEF BoardInv, BoardTypes
  <2> QED BY <2>1, <2>2
<1>5. BoardTypes'
  <2>1. job' \in [TieTasks -> JobRecord]
    BY <1>2, <1>3 DEF BoardInv, BoardTypes, Convert
  <2> QED BY <1>1, <1>4, <2>1 DEF BoardInv, BoardTypes
<1>6. ASSUME NEW t \in TieTasks PROVE JobInv(t, job[t])'
  <2> PICK j, k : j = job[t] /\ k = job'[t] OBVIOUS
  <2>1. JobInv(t, j) BY DEF BoardInv
  <2>2. /\ k \in JobRecord /\ k.done \in {j.done, j.done \cup {i}}
        /\ k.op = j.op /\ k.at = j.at /\ k.todo = j.todo /\ k.settle = j.settle
        /\ k.delay = j.delay /\ k.saw = j.saw /\ k.left = j.left /\ k.alone = j.alone
    BY <1>2, <1>3 DEF BoardInv, BoardTypes
  <2>3. Fits(t, k)' BY <2>1, <2>2 DEF JobInv, Fits, JobRecord
  <2>4. WaitsOwn(k)' BY <1>1, <1>4, <2>1, <2>2 DEF JobInv, WaitsOwn
  <2>5. WaitsInMode(k)' BY <1>1, <2>1, <2>2 DEF JobInv, WaitsInMode
  <2>6. ASSUME alive, "fail" \notin tieScenario, k.op = "heartbeat", k.alone PROVE HeartSeen(k)'
    <3>1. HeartSeen(j) /\ WaitsOwn(j) /\ j.todo = {Heart} BY <2>1, <2>2, <2>6 DEF JobInv, Fits
    <3>2. First({Heart}) = Heart BY ChansAssumption DEF First
    <3>3. j.at = "wait" => sel = Heart
      BY <2>2, <2>6, <3>1, <3>2 DEF WaitsOwn
    <3>4. Taken(k)' = Taken(j) BY <2>2 DEF Taken
    <3>5. j.at = "wait" /\ "mux" \in k.done /\ quiet # 0 => conv'.level = Level
      BY <1>1, <1>4, <2>2, <3>1, <3>3 DEF HeartSeen, Level
    <3> QED BY <1>1, <2>2, <3>1, <3>4, <3>5 DEF HeartSeen, Level
  <2> QED BY <1>1, <2>3, <2>4, <2>5, <2>6 DEF JobInv
<1> QED BY <1>1, <1>5, <1>6, NoReadingIsOwn DEF BoardInv

\* An edge makes the level the samples have seen the other one.
LEMMA EdgeBoard == ASSUME BoardInv, UNCHANGED tieScenario, Edge PROVE BoardInv'
<1>1. /\ alive /\ quiet = Beat /\ quiet' = 0 /\ last' = NoReading
      /\ UNCHANGED <<sel, alive, mode, conv, in7, job>>
      /\ high' = IF Heart \in high THEN high \ {Heart} ELSE high \cup {Heart}
  BY DEF Edge
<1>2. Heart \in Chans /\ Beat \in Nat /\ Beat >= 2 /\ SAMPLES \in Nat
  BY ChansAssumption, TimingAssumption
<1>3. BoardTypes' BY <1>1, <1>2 DEF BoardInv, BoardTypes
<1>4. Level' = ~Level BY <1>1 DEF Level
<1>5. ASSUME NEW t \in TieTasks PROVE JobInv(t, job[t])'
  <2> PICK j : j = job[t] OBVIOUS
  <2>1. JobInv(t, j) /\ job'[t] = j BY <1>1 DEF BoardInv
  <2>2. Fits(t, j)' /\ WaitsOwn(j)' /\ WaitsInMode(j)'
    BY <1>1, <2>1 DEF JobInv, Fits, JobRecord, WaitsOwn, WaitsInMode
  <2>3. ASSUME "fail" \notin tieScenario, j.op = "heartbeat", j.alone PROVE HeartSeen(j)'
    <3>1. HeartSeen(j) /\ Taken(j) \in Int
      BY <1>1, <1>2, <2>1, <2>3 DEF JobInv, Fits, JobRecord, Taken
    <3>2. Taken(j)' = Taken(j) BY DEF Taken
    <3>3. j.at = "wait" /\ Taken(j) >= 2 => Level \in j.saw
      BY <1>1, <1>2, <3>1 DEF HeartSeen
    <3>4. j.at = "wait" /\ Taken(j) >= Beat + 2 => (~Level) \in j.saw
      BY <1>1, <1>2, <3>1 DEF HeartSeen
    <3>5. /\ j.at = "wait" /\ Taken(j) >= 2 => (~Level') \in j.saw
          /\ j.at = "wait" /\ Taken(j) >= Beat + 2 => Level' \in j.saw
      BY <1>4, <3>3, <3>4 DEF Level
    <3> QED BY <1>1, <1>2, <3>1, <3>2, <3>5 DEF HeartSeen
  <2> QED BY <1>1, <2>1, <2>2, <2>3 DEF JobInv
<1> QED BY <1>1, <1>3, <1>5, NoReadingIsOwn DEF BoardInv

\* Who selects has the mux, and nobody else has.
LEMMA SelectBoard ==
  ASSUME BoardInv, UNCHANGED tieScenario, NEW t \in TieTasks, Select(t) PROVE BoardInv'
<1> PICK j : j = job[t] OBVIOUS
<1> PICK k : k = Delay(j, "wait", Settles(j.op, j.settle)) OBVIOUS
<1>1. /\ j.at = "next" /\ sel' = First(j.todo) /\ last' = NoReading
      /\ UNCHANGED <<high, alive, quiet, mode, conv, in7>>
  BY DEF Select
<1>2. JobInv(t, j) /\ j \in JobRecord BY DEF BoardInv, BoardTypes
<1>3. /\ k \in JobRecord /\ k.at = "wait" /\ k.delay = j.settle /\ k.done = {} /\ k.op = j.op
      /\ k.todo = j.todo /\ k.settle = j.settle /\ k.left = j.left /\ k.alone = j.alone
  <2>1. j.settle \in Nat BY <1>2 DEF JobRecord
  <2>2. k = [j EXCEPT !.at = "wait", !.delay = j.settle, !.done = {}] BY DEF Settles, Delay
  <2>3. k \in JobRecord BY <1>2, <2>1, <2>2 DEF JobRecord
  <2> QED BY <1>1, <1>2, <2>2 DEF JobRecord
<1>4. ASSUME NEW u \in TieTasks, u # t
      PROVE \/ job'[u] = job[u] /\ ~(job[u].at = "wait" /\ job[u].op # "temp")
            \/ job'[u] = [job[u] EXCEPT !.alone = FALSE]
  BY <1>4 DEF Select, Disturbed
<1>5. job'[t] = k /\ job' \in [TieTasks -> JobRecord]
  <2>1. \A u \in TieTasks : [job[u] EXCEPT !.alone = FALSE] \in JobRecord
    BY DEF BoardInv, BoardTypes, JobRecord
  <2>2. Disturbed(t, FALSE) \in [TieTasks -> JobRecord]
    BY <2>1 DEF Disturbed, BoardInv, BoardTypes
  <2>3. Disturbed(t, FALSE)[t] = j BY DEF Disturbed
  <2> QED BY <1>3, <2>2, <2>3 DEF Select
<1>6. BoardTypes' BY <1>1, <1>5 DEF BoardInv, BoardTypes
<1>7. JobInv(t, job[t])'
  <2>1. Fits(t, k)' BY <1>1, <1>2, <1>3 DEF JobInv, Fits, JobRecord
  <2>2. WaitsOwn(k)' BY <1>1, <1>2, <1>3 DEF JobInv, Fits, WaitsOwn
  <2>3. WaitsInMode(k)' BY <1>1, <1>2, <1>3 DEF JobInv, Fits, WaitsInMode
  <2>4. ASSUME alive, "fail" \notin tieScenario, k.op = "heartbeat", k.alone PROVE HeartSeen(k)'
    <3>1. Taken(k)' = 0 BY <1>1, <1>2, <1>3, <2>4 DEF JobInv, HeartSeen, Taken
    <3>2. quiet' \in Nat /\ Beat \in Nat
      BY <1>1, TimingAssumption DEF BoardInv, BoardTypes
    <3> QED BY <1>3, <3>1, <3>2 DEF HeartSeen
  <2> QED BY <1>1, <1>5, <2>1, <2>2, <2>3, <2>4 DEF JobInv
<1>8. ASSUME NEW u \in TieTasks, u # t PROVE JobInv(u, job[u])'
  <2>1. JobInv(u, job[u]) BY DEF BoardInv
  <2>2. CASE job'[u] = [job[u] EXCEPT !.alone = FALSE]
    BY <2>1, <2>2, Unalone DEF JobInv
  <2>3. CASE job'[u] = job[u] /\ ~(job[u].at = "wait" /\ job[u].op # "temp")
    BY <1>1, <2>1, <2>3 DEF JobInv, Fits, JobRecord, WaitsOwn, WaitsInMode, HeartSeen, Taken, Single
  <2> QED BY <1>4, <1>8, <2>2, <2>3
<1> QED BY <1>1, <1>6, <1>7, <1>8, NoReadingIsOwn DEF BoardInv

\* The steps that change one job and nothing that another looks at.
LEMMA StepsBoard ==
  ASSUME BoardInv, UNCHANGED tieScenario, NEW t \in TieTasks,
         \/ Started(t) \/ InitFails(t) \/ ReadTemp(t) \/ ScanNext(t) \/ ReadOne(t) \/ ScanEnds(t)
  PROVE  BoardInv'
<1> PICK j : j = job[t] OBVIOUS
<1>1. JobInv(t, j) /\ j \in JobRecord BY DEF BoardInv, BoardTypes
<1>2. NoJob \in JobRecord /\ JobInv(t, NoJob) BY NoJobOK DEF JobInv, Fits
<1>3. CASE Started(t)
  <2> PICK k : k = [j EXCEPT !.at = "next"] OBVIOUS
  <2>1. /\ k \in JobRecord /\ k.at = "next" /\ k.op = j.op /\ k.todo = j.todo /\ k.settle = j.settle
        /\ k.left = j.left /\ k.alone = j.alone
    BY <1>1 DEF JobRecord
  <2>2. /\ j.at = "init" /\ job' = [job EXCEPT ![t] = k] /\ last' = NoReading /\ UNCHANGED shared
    BY <1>3 DEF Started, At, shared
  <2>3. JobInv(t, k)
    BY <1>1, <2>1, <2>2 DEF JobInv, Fits, WaitsOwn, WaitsInMode, HeartSeen, Taken
  <2> QED BY <2>1, <2>2, <2>3, OneJob, NoReadingIsOwn DEF BoardInv
<1>4. CASE InitFails(t)
  <2>1. job' = [job EXCEPT ![t] = NoJob] /\ last' = NoReading /\ UNCHANGED shared
    BY <1>4 DEF InitFails, shared
  <2> QED BY <1>2, <2>1, OneJob, NoReadingIsOwn DEF BoardInv
<1>5. CASE ReadTemp(t)
  <2> PICK k : k = [j EXCEPT !.at = "restore"] OBVIOUS
  <2>1. k \in JobRecord /\ k.at = "restore" /\ k.op = j.op
    BY <1>1 DEF JobRecord
  <2>2. /\ j.op = "temp" /\ j.at = "wait" /\ (j.delay >= ROUND => j.done = Inputs)
        /\ job' = [job EXCEPT ![t] = k] /\ UNCHANGED shared
        /\ last' = [op |-> "temp", asked |-> "mode 0", got |-> IF in7 = 0 THEN "mode 0" ELSE "mode 1",
                    pass |-> TRUE, alone |-> j.alone]
    BY <1>5 DEF ReadTemp, Reading, At, shared
  <2>3. JobInv(t, k)
    BY <1>1, <2>1, <2>2 DEF JobInv, Fits, WaitsOwn, WaitsInMode, Single
  <2>4. j.alone => in7 = 0
    BY <1>1, <2>2 DEF JobInv, WaitsInMode, Inputs
  <2>5. (ReadingIsOwn /\ LiveHeartPasses)'
    BY <2>2, <2>4 DEF ReadingIsOwn, LiveHeartPasses
  <2> QED BY <2>1, <2>2, <2>3, <2>5, OneJob DEF BoardInv
<1>6. CASE ScanNext(t)
  <2>1. j.op \in Scans BY <1>6 DEF ScanNext
  <2>2. PICK seen \in Reads(t) :
          job' = [job EXCEPT ![t] = [j EXCEPT !.saw = j.saw \cup seen, !.at = "next",
                                              !.todo = j.todo \ {First(j.todo)}]]
    BY <1>6 DEF ScanNext, BoardInv, BoardTypes
  <2>3. seen \subseteq BOOLEAN BY DEF Reads, BoardInv, BoardTypes
  <2> PICK k : k = [j EXCEPT !.saw = j.saw \cup seen, !.at = "next", !.todo = j.todo \ {First(j.todo)}]
    OBVIOUS
  <2>4. k \in JobRecord /\ k.op = j.op /\ k.at = "next" BY <1>1, <2>3 DEF JobRecord
  <2>5. JobInv(t, k)
    BY <2>1, <2>4 DEF JobInv, Fits, WaitsOwn, WaitsInMode, Single, Scans
  <2>6. last' = NoReading /\ UNCHANGED shared BY <1>6 DEF ScanNext, shared
  <2> QED BY <2>2, <2>4, <2>5, <2>6, OneJob, NoReadingIsOwn DEF BoardInv
<1>7. CASE ReadOne(t)
  <2>1. /\ j.op \in Single /\ j.at = "wait" /\ (j.delay >= ROUND => j.done = Inputs)
        /\ job' = [job EXCEPT ![t] = NoJob] /\ UNCHANGED shared
        /\ last' = [op |-> j.op, asked |-> First(j.todo), got |-> conv.ch, pass |-> TRUE, alone |-> j.alone]
    BY <1>7 DEF ReadOne, Reading, At, shared, Single
  <2>2. j.alone => conv.ch = First(j.todo)
    BY <1>1, <2>1 DEF JobInv, WaitsOwn, Inputs
  <2>3. (ReadingIsOwn /\ LiveHeartPasses)'
    BY <2>1, <2>2 DEF ReadingIsOwn, LiveHeartPasses
  <2> QED BY <1>2, <2>1, <2>3, OneJob DEF BoardInv
<1>8. CASE ScanEnds(t)
  <2>1. job' = [job EXCEPT ![t] = NoJob] /\ UNCHANGED shared
    BY <1>8 DEF ScanEnds, shared
  <2>2. last'.asked = "all" /\ last'.got = "all" /\ last'.op \in Scans
    BY <1>8 DEF ScanEnds, Reading
  <2>3. (ReadingIsOwn /\ LiveHeartPasses)'
    BY <2>2 DEF ReadingIsOwn, LiveHeartPasses, Scans
  <2> QED BY <1>2, <2>1, <2>3, OneJob DEF BoardInv
<1> QED BY <1>3, <1>4, <1>5, <1>6, <1>7, <1>8

(***************************************************************************)
(* A sample of a beating DUT.  After the first one it is of the heartbeat, *)
(* and of its present level unless there was an edge since the last.       *)
(***************************************************************************)
LEMMA SampleSees ==
  ASSUME NEW j \in JobRecord, BoardTypes, alive, quiet < Beat, j.at = "wait", j.left \in 1..SAMPLES,
         j.delay >= ROUND => j.done = Inputs, HeartSeen(j), NEW saw, saw = j.saw \cup {conv.level}
  PROVE  /\ Taken(j) >= 1 /\ quiet >= 1 => Level \in saw
         /\ Taken(j) >= quiet + 2 => (~Level) \in saw
         /\ Taken(j) >= quiet + Beat + 2 => Level \in saw
<1>1. quiet \in Nat /\ Taken(j) \in Nat /\ Beat \in Nat
  BY TimingAssumption DEF BoardTypes, Taken
<1>2. Taken(j) >= 1 /\ quiet >= 1 => conv.level = Level
  BY <1>1 DEF HeartSeen, Inputs
<1> QED BY <1>1, <1>2 DEF HeartSeen

LEMMA SampleBoard ==
  ASSUME BoardInv, UNCHANGED tieScenario, NEW t \in TieTasks, SampleHeart(t) PROVE BoardInv'
<1> PICK j : j = job[t] OBVIOUS
<1>1. JobInv(t, j) /\ j \in JobRecord /\ BoardTypes BY DEF BoardInv, BoardTypes
<1>2. /\ j.op = "heartbeat" /\ j.at = "wait" /\ (j.delay >= ROUND => j.done = Inputs)
      /\ quiet < Beat \/ ~alive
      /\ quiet' = IF alive THEN quiet + 1 ELSE quiet
      /\ UNCHANGED <<sel, high, alive, mode, conv, in7>>
  BY DEF SampleHeart, At
<1>3. t = "recipe" /\ j.left \in 1..SAMPLES BY <1>1, <1>2 DEF JobInv, Fits, JobRecord
<1>4. PICK seen \in Reads(t) :
        LET saw == j.saw \cup seen IN
        IF LastSample(j.left)
        THEN /\ Reading(t, "all", "all", Beats(saw))
             /\ job' = [job EXCEPT ![t] = NoJob]
        ELSE /\ job' = [job EXCEPT ![t] = [Delay(j, "wait", 100) EXCEPT !.saw = saw, !.left = j.left - 1]]
             /\ last' = NoReading
  BY DEF SampleHeart, BoardInv, BoardTypes
<1> PICK saw : saw = j.saw \cup seen OBVIOUS
<1>5. saw \subseteq BOOLEAN
  BY <1>1 DEF Reads, BoardTypes, JobRecord
<1>6. quiet \in Nat /\ Beat \in Nat /\ SAMPLES \in Nat /\ SAMPLES >= Beat + 3 /\ quiet' \in 0..Beat
  BY <1>1, <1>2, TimingAssumption DEF BoardTypes
<1>7. alive /\ "fail" \notin tieScenario /\ j.alone =>
        /\ quiet' = quiet + 1 /\ quiet < Beat
        /\ Taken(j) >= 1 /\ quiet >= 1 => Level \in saw
        /\ Taken(j) >= quiet + 2 => (~Level) \in saw
        /\ Taken(j) >= quiet + Beat + 2 => Level \in saw
  <2> SUFFICES ASSUME alive, "fail" \notin tieScenario, j.alone
               PROVE  /\ quiet' = quiet + 1 /\ quiet < Beat
                      /\ Taken(j) >= 1 /\ quiet >= 1 => Level \in saw
                      /\ Taken(j) >= quiet + 2 => (~Level) \in saw
                      /\ Taken(j) >= quiet + Beat + 2 => Level \in saw
    OBVIOUS
  <2>1. HeartSeen(j) BY <1>1, <1>2 DEF JobInv
  <2>2. saw = j.saw \cup {conv.level} BY DEF Reads
  <2>3. quiet' = quiet + 1 /\ quiet < Beat BY <1>2
  <2> QED BY <1>1, <1>2, <1>3, <2>1, <2>2, <2>3, SampleSees
<1>8. Level' = Level BY <1>2 DEF Level
<1>9. CASE LastSample(j.left)
  <2>1. /\ job' = [job EXCEPT ![t] = NoJob]
        /\ last' = [op |-> "heartbeat", asked |-> "all", got |-> "all", pass |-> Beats(saw), alone |-> j.alone]
    BY <1>2, <1>4, <1>9 DEF Reading
  <2>2. alive /\ "fail" \notin tieScenario /\ j.alone => Beats(saw)
    <3> SUFFICES ASSUME alive, "fail" \notin tieScenario, j.alone PROVE saw = BOOLEAN
      BY DEF Beats
    <3>1. Taken(j) >= Beat + 2 /\ quiet < Beat /\ Taken(j) \in Int
      BY <1>3, <1>6, <1>7, <1>9 DEF LastSample, Taken
    <3>2. (~Level) \in saw BY <1>6, <1>7, <3>1
    <3>3. Level \in saw
      <4>1. CASE quiet >= 1 BY <1>6, <1>7, <3>1, <4>1
      <4>2. CASE quiet = 0 BY <1>6, <1>7, <3>1, <4>2
      <4> QED BY <1>6, <4>1, <4>2
    <3> QED BY <1>5, <3>2, <3>3 DEF Level
  <2>3. (ReadingIsOwn /\ LiveHeartPasses)'
    BY <1>2, <2>1, <2>2 DEF ReadingIsOwn, LiveHeartPasses
  <2>4. job'[t] = NoJob /\ job' \in [TieTasks -> JobRecord] /\ \A u \in TieTasks : u # t => job'[u] = job[u]
    BY <1>1, <2>1, NoJobOK DEF BoardTypes, JobInv, Fits
  <2>5. ASSUME NEW u \in TieTasks PROVE JobInv(u, job[u])'
    <3>1. CASE u = t
      BY <2>4, <3>1, NoJobFits DEF JobInv, Fresh, Fits, JobRecord, WaitsOwn, WaitsInMode, NoJob, Job
    <3>2. CASE u # t
      <4>1. JobInv(u, job[u]) /\ job[u].op # "heartbeat" /\ job'[u] = job[u]
        BY <1>3, <2>4, <3>2 DEF BoardInv, JobInv, Fits
      <4> QED BY <1>2, <4>1 DEF JobInv, Fits, JobRecord, WaitsOwn, WaitsInMode
    <3> QED BY <3>1, <3>2
  <2> QED BY <1>1, <1>2, <1>6, <2>3, <2>4, <2>5 DEF BoardInv, BoardTypes
<1>10. CASE ~LastSample(j.left)
  <2> PICK d : d = Delay(j, "wait", 100) OBVIOUS
  <2>1. d \in JobRecord /\ d.at = "wait" /\ d.delay = 100 /\ d.done = {} /\ d.op = j.op /\ d.todo = j.todo
        /\ d.settle = j.settle /\ d.alone = j.alone
    BY <1>1, DelayFits
  <2> PICK k : k = [d EXCEPT !.saw = saw, !.left = j.left - 1] OBVIOUS
  <2>2. j.left - 1 \in 1..SAMPLES BY <1>3, <1>6, <1>10 DEF LastSample
  <2>3. /\ k \in JobRecord /\ k.at = "wait" /\ k.delay = 100 /\ k.done = {} /\ k.op = j.op /\ k.todo = j.todo
        /\ k.alone = j.alone /\ k.saw = saw /\ k.left = j.left - 1
    <3>1. saw \in SUBSET BOOLEAN BY <1>5
    <3>2. [d EXCEPT !.saw = saw] \in JobRecord BY <2>1, <3>1 DEF JobRecord
    <3>3. \A e \in JobRecord : [e EXCEPT !.left = j.left - 1] \in JobRecord BY <2>2 DEF JobRecord
    <3>4. k = [[d EXCEPT !.saw = saw] EXCEPT !.left = j.left - 1] BY <2>1 DEF JobRecord
    <3>5. k \in JobRecord BY <3>2, <3>3, <3>4
    <3> QED BY <2>1, <3>5 DEF JobRecord
  <2>4. job' = [job EXCEPT ![t] = k] /\ last' = NoReading
    BY <1>4, <1>10
  <2>5. job'[t] = k /\ job' \in [TieTasks -> JobRecord] /\ \A u \in TieTasks : u # t => job'[u] = job[u]
    BY <1>1, <2>3, <2>4 DEF BoardTypes
  <2>6. JobInv(t, job[t])'
    <3>1. Fits(t, k)' /\ WaitsOwn(k)' /\ WaitsInMode(k)'
      BY <1>1, <1>2, <2>3 DEF JobInv, Fits, JobRecord, Single, WaitsOwn, WaitsInMode
    <3>2. ASSUME alive, "fail" \notin tieScenario, k.alone PROVE HeartSeen(k)'
      <4>1. Taken(k) = Taken(j) + 1 /\ Taken(j) \in Int /\ Taken(k)' = Taken(k)
        BY <1>3, <1>6, <2>3 DEF Taken
      <4>2. /\ Taken(k) >= 2 /\ quiet' >= 2 => Level \in k.saw
            /\ Taken(k) >= quiet' + 2 => (~Level) \in k.saw
            /\ Taken(k) >= quiet' + Beat + 2 => Level \in k.saw
        BY <1>6, <1>7, <2>3, <3>2, <4>1
      <4>3. k.delay >= ROUND BY <2>3, TimingAssumption
      <4>4. /\ Taken(k) >= 2 /\ quiet' >= 2 => Level' \in k.saw
            /\ Taken(k) >= quiet' + 2 => (~Level') \in k.saw
            /\ Taken(k) >= quiet' + Beat + 2 => Level' \in k.saw
        BY <1>8, <4>2
      <4> QED BY <2>3, <4>1, <4>3, <4>4 DEF HeartSeen
    <3> QED BY <1>2, <2>5, <3>1, <3>2 DEF JobInv
  <2>7. ASSUME NEW u \in TieTasks, u # t PROVE JobInv(u, job[u])'
    <3>1. JobInv(u, job[u]) /\ job[u].op # "heartbeat" /\ job'[u] = job[u]
      BY <1>3, <2>5, <2>7 DEF BoardInv, JobInv, Fits
    <3> QED BY <1>2, <3>1 DEF JobInv, Fits, JobRecord, WaitsOwn, WaitsInMode
  <2> QED BY <1>1, <1>2, <1>6, <2>4, <2>5, <2>6, <2>7, NoReadingIsOwn DEF BoardInv, BoardTypes
<1> QED BY <1>9, <1>10

LEMMA RestBoard ==
  ASSUME BoardInv, UNCHANGED tieScenario, UNCHANGED tieVars PROVE BoardInv'
  BY DEF tieVars, BoardInv, BoardTypes, JobInv, Fits, JobRecord, WaitsOwn, WaitsInMode, HeartSeen,
         Taken, Level, ReadingIsOwn, LiveHeartPasses

LEMMA NextBoard == BoardInv /\ [TieNext]_scanVars => BoardInv'
<1> SUFFICES ASSUME BoardInv, [TieNext]_scanVars PROVE BoardInv'
  OBVIOUS
<1>1. UNCHANGED tieScenario
  BY TableCases DEF TableStep, BeginSnapshot, TableFull, SnapshotRefused, CompareFinds, CompareFails,
                    Scanned, ScanFails, snapVars
<1>2. ASSUME NEW i \in Inputs, Convert(i) PROVE BoardInv' BY <1>1, <1>2, ConvertBoard
<1>3. CASE Edge BY <1>1, <1>3, EdgeBoard
<1>4. CASE Operation BY <1>1, <1>4, OperationBegins, BeginsBoard, RestBoard
<1>5. CASE DutScans \/ UNCHANGED scanVars BY <1>1, <1>5, RestBoard DEF DutScans, scanVars
<1>6. ASSUME NEW t \in TieTasks, RestoreMode(t) PROVE BoardInv'
  <2>1. Begins
    BY <1>6, NoJobFits DEF Begins, RestoreMode, Fresh, Fits
  <2> QED BY <1>1, <2>1, BeginsBoard
<1>7. ASSUME NEW t \in TieTasks, TieStep(t) PROVE BoardInv'
  BY <1>1, <1>6, <1>7, SelectBoard, StepsBoard, SampleBoard DEF TieStep
<1> QED BY <1>2, <1>3, <1>4, <1>5, <1>7 DEF TieNext

LEMMA BoardInvariant == TieSpec => []BoardInv
  BY InitBoard, NextBoard, PTL DEF TieSpec

(***************************************************************************)
(* g3_primitives.c:402-403, for any channels and any delays of a round or  *)
(* more: a settled reading is of the channel, or of the mode, that its     *)
(* task selected, unless another task selected meanwhile.                  *)
(***************************************************************************)
THEOREM ReadingsAreOwn == TieSpec => []ReadingIsOwn
<1>1. BoardInv => ReadingIsOwn BY DEF BoardInv
<1> QED BY <1>1, BoardInvariant, PTL

(***************************************************************************)
(* run_dut_heartbeat, for any beat of two samples or more and as many      *)
(* samples as a beat and three more: they see both levels, in whatever     *)
(* phase they begin.                                                       *)
(***************************************************************************)
THEOREM BeatIsSeen == TieSpec => []LiveHeartPasses
<1>1. BoardInv => LiveHeartPasses BY DEF BoardInv
<1> QED BY <1>1, BoardInvariant, PTL
=============================================================================
