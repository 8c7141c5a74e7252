----------------------------- MODULE VdacProofs -----------------------------
(***************************************************************************)
(* Proofs about Vdac, for any points, duties and voltages: the console and *)
(* the test cycle between them keep a DUT that was seen at a safe voltage, *)
(* and what a sweep calibrates is what the regulators give.                *)
(***************************************************************************)
EXTENDS Vdac, SequenceTheorems, TLAPS

(***************************************************************************)
(* The inductive invariants.                                               *)
(***************************************************************************)
CallNames == {"duty", "voltage", "enable", "read", "report", "save", "verdict"}
Calls == [do : CallNames, ch : Channels, arg : Int, must : BOOLEAN]

TypeOK ==
  /\ s_enabled \in [Channels -> BOOLEAN] /\ duty \in [Channels -> Int]
  /\ slope \in [Channels -> Int] /\ intercept \in [Channels -> Int]
  /\ cal_v50 \in [Channels -> Int] /\ cal_v90 \in [Channels -> Int]
  /\ s_dut_present \in BOOLEAN /\ s_first_report \in BOOLEAN /\ seated \in BOOLEAN
  /\ prog \in [Threads -> Seq(Calls)] /\ sm \in {"IDLE", "GATE", "TEST", "ENDED"}
  /\ scenario \in Scenarios

\* The channels that may be on: a DUT in the fixture can take their duty.
Safe == {c \in Channels : seated => duty[c] >= 75}

TurnsOn(call) == call.do = "enable" /\ call.arg = 1
\* A call that the interlock refuses together with the rest of its command.
Stops(call) == call.do \in {"duty", "voltage"} /\ call.must

\* What is to turn on a channel that is not safe sets its duty before, and
\* does not get there if the interlock refuses that.
Guarded(p, safe) ==
  \A i \in 1..Len(p) :
    TurnsOn(p[i]) => p[i].ch \in safe \/ \E j \in 1..(i - 1) : Stops(p[j]) /\ p[j].ch = p[i].ch

Watched ==
  /\ Known \/ Quiet
  /\ \A c \in Channels : s_enabled[c] => c \in Safe
  /\ \A t \in Threads : Guarded(prog[t], Safe)

\* Every reading that is still to come is taken with both channels at its duty.
Measured(p, d) ==
  \A i \in 1..Len(p) : p[i].do = "read" =>
    \/ i >= 3 /\ p[i - 2] = SetDuty(0, p[i].arg) /\ p[i - 1] = SetDuty(1, p[i].arg)
    \/ i = 2 /\ d[0] = p[i].arg /\ p[1] = SetDuty(1, p[i].arg)
    \/ i = 1 /\ d[0] = p[i].arg /\ d[1] = p[i].arg

Reads(p) == \E i \in 1..Len(p) : p[i].do = "read"
Interlocks == s_first_report \/ s_dut_present \/ seated

\* Without overlap the console and the cycle take turns.
TakeTurns ==
  /\ sm = "IDLE" => prog["cycle"] = <<>>
  /\ sm # "IDLE" => prog["console"] = <<>>

\* No duty of a sweep is refused once its first call was not.
Sweeps ==
  /\ ~Reads(prog["cycle"])
  /\ Measured(prog["console"], duty)
  /\ Reads(prog["console"]) /\ Interlocks =>
       LET call == Head(prog["console"]) IN call.do = "duty" /\ call.arg < 75 /\ call.must

Anchored ==
  \A c \in Channels :
    /\ cal_v50[c] \in {-1, Output(50)} /\ cal_v90[c] \in {-1, Output(90)}
    /\ slope[c] # 0 => slope[c] = -80 /\ intercept[c] = 11000

VdacInv ==
  /\ TypeOK
  /\ scenario \cap {"insert", "stale"} = {} => Watched
  /\ scenario \subseteq {"sample"} => TakeTurns /\ Sweeps /\ Anchored

-----------------------------------------------------------------------------
(***************************************************************************)
(* Programs: lists of calls.                                               *)
(***************************************************************************)
LEMMA Programs ==
  ASSUME NEW p \in Seq(Calls), p # <<>>
  PROVE  /\ Head(p) = p[1] /\ p[1] \in Calls /\ Len(p) \in Nat \ {0}
         /\ Tail(p) \in Seq(Calls) /\ Len(Tail(p)) = Len(p) - 1
         /\ \A i \in 1..Len(Tail(p)) : Tail(p)[i] = p[i + 1]
<1>1. Len(p) \in Nat \ {0} BY EmptySeq
<1> QED BY <1>1, HeadTailProperties, ElementOfSeq

LEMMA GuardedTail ==
  ASSUME NEW p \in Seq(Calls), p # <<>>, NEW S, NEW T, S \subseteq T, Guarded(p, S),
         Stops(p[1]) => p[1].ch \in T
  PROVE  Guarded(Tail(p), T)
<1> SUFFICES ASSUME NEW i \in 1..Len(Tail(p)), TurnsOn(Tail(p)[i]), Tail(p)[i].ch \notin T
             PROVE  \E j \in 1..(i - 1) : Stops(Tail(p)[j]) /\ Tail(p)[j].ch = Tail(p)[i].ch
  BY DEF Guarded
<1>1. /\ Len(p) \in Nat \ {0} /\ Len(Tail(p)) = Len(p) - 1
      /\ \A k \in 1..Len(Tail(p)) : Tail(p)[k] = p[k + 1]
  BY Programs
<1>2. i + 1 \in 1..Len(p) /\ Tail(p)[i] = p[i + 1] BY <1>1
<1>3. PICK j \in 1..i : Stops(p[j]) /\ p[j].ch = p[i + 1].ch
  BY <1>2 DEF Guarded
<1>4. j # 1 BY <1>2, <1>3
<1>5. j - 1 \in 1..(i - 1) /\ Tail(p)[j - 1] = p[j]
  <2>1. j - 1 \in 1..Len(Tail(p)) /\ j - 1 \in 1..(i - 1) /\ (j - 1) + 1 = j BY <1>1, <1>4
  <2> QED BY <1>1, <2>1
<1> QED BY <1>2, <1>3, <1>5

LEMMA GuardedMore ==
  ASSUME NEW p, NEW S, NEW T, S \subseteq T, Guarded(p, S)
  PROVE  Guarded(p, T)
  BY DEF Guarded

LEMMA MeasuredTail ==
  ASSUME NEW p \in Seq(Calls), p # <<>>, NEW d \in [Channels -> Int], NEW e, Measured(p, d),
         p[1].do = "duty" => e = [d EXCEPT ![p[1].ch] = p[1].arg]
  PROVE  Measured(Tail(p), e)
<1> SUFFICES ASSUME NEW i \in 1..Len(Tail(p)), Tail(p)[i].do = "read"
             PROVE  \/ i >= 3 /\ Tail(p)[i - 2] = SetDuty(0, Tail(p)[i].arg)
                              /\ Tail(p)[i - 1] = SetDuty(1, Tail(p)[i].arg)
                    \/ i = 2 /\ e[0] = Tail(p)[i].arg /\ Tail(p)[1] = SetDuty(1, Tail(p)[i].arg)
                    \/ i = 1 /\ e[0] = Tail(p)[i].arg /\ e[1] = Tail(p)[i].arg
  BY DEF Measured
<1>1. /\ Len(p) \in Nat \ {0} /\ Len(Tail(p)) = Len(p) - 1
      /\ \A k \in 1..Len(Tail(p)) : Tail(p)[k] = p[k + 1]
  BY Programs
<1>2. i + 1 \in 2..Len(p) /\ Tail(p)[i] = p[i + 1] BY <1>1
<1> DEFINE a == p[i + 1].arg
<1>3. \/ i + 1 >= 3 /\ p[(i + 1) - 2] = SetDuty(0, a) /\ p[(i + 1) - 1] = SetDuty(1, a)
      \/ i + 1 = 2 /\ d[0] = a /\ p[1] = SetDuty(1, a)
  BY <1>2 DEF Measured
<1>4. (i + 1) - 2 = i - 1 /\ (i + 1) - 1 = i OBVIOUS
<1>5. CASE i >= 3
  <2>1. /\ i - 2 \in 1..Len(Tail(p)) /\ (i - 2) + 1 = i - 1
        /\ i - 1 \in 1..Len(Tail(p)) /\ (i - 1) + 1 = i
    BY <1>1, <1>5
  <2> QED BY <1>1, <1>2, <1>3, <1>4, <1>5, <2>1
<1>6. CASE i = 2
  <2>1. p[1] = SetDuty(0, a) /\ p[2] = SetDuty(1, a) BY <1>3, <1>6
  <2>2. e[0] = a BY <2>1 DEF SetDuty, Channels
  <2>3. 1 \in 1..Len(Tail(p)) /\ 1 + 1 = 2 BY <1>6
  <2> QED BY <1>1, <1>2, <1>6, <2>1, <2>2, <2>3
<1>7. CASE i = 1
  <2>1. d[0] = a /\ p[1] = SetDuty(1, a) BY <1>3, <1>7
  <2>2. e[0] = a /\ e[1] = a BY <2>1 DEF SetDuty, Channels
  <2> QED BY <1>2, <1>7, <2>2
<1> QED BY <1>5, <1>6, <1>7

LEMMA ReadsTail ==
  ASSUME NEW p \in Seq(Calls), p # <<>>, Reads(Tail(p))
  PROVE  Reads(p)
<1>1. /\ Len(p) \in Nat \ {0} /\ Len(Tail(p)) = Len(p) - 1
      /\ \A k \in 1..Len(Tail(p)) : Tail(p)[k] = p[k + 1]
  BY Programs
<1>2. PICK i \in 1..Len(Tail(p)) : Tail(p)[i].do = "read" BY DEF Reads
<1>3. i + 1 \in 1..Len(p) /\ p[i + 1].do = "read" BY <1>1, <1>2
<1> QED BY <1>3 DEF Reads

LEMMA NoProgram ==
  ASSUME NEW S, NEW d
  PROVE  /\ <<>> \in Seq(Calls) /\ ~Reads(<<>>)
         /\ Guarded(<<>>, S) /\ Measured(<<>>, d)
  BY DEF Reads, Guarded, Measured

LEMMA MeasuredNoReads ==
  ASSUME NEW p, NEW d, ~Reads(p)
  PROVE  Measured(p, d)
  BY DEF Measured, Reads

LEMMA OneCall ==
  ASSUME NEW c \in Channels, NEW n \in Int
  PROVE  /\ SetDuty(c, n) \in Calls /\ MustDuty(c, n) \in Calls /\ SetVoltage(c, n) \in Calls
         /\ Enable(c) \in Calls /\ Disable(c) \in Calls
         /\ Measure("read", n) \in Calls /\ Measure("report", n) \in Calls
         /\ SaveCalibration \in Calls /\ GateVerdict \in Calls
  BY DEF Calls, CallNames, Channels, SetDuty, MustDuty, SetVoltage, Enable, Disable, Measure,
         SaveCalibration, GateVerdict

\* A command that sets a channel and turns it on.
LEMMA SetPrograms ==
  ASSUME NEW c \in Channels, NEW n \in Int, NEW S,
         NEW call \in {MustDuty(c, n), SetVoltage(c, n)}
  PROVE  LET p == <<call, Enable(c)>>
             q == Append(p, GateVerdict)
         IN  /\ p \in Seq(Calls) /\ Guarded(p, S) /\ ~Reads(p)
             /\ q \in Seq(Calls) /\ Guarded(q, S) /\ ~Reads(q)
<1> DEFINE p == <<call, Enable(c)>>
           q == <<call, Enable(c), GateVerdict>>
<1>1. /\ call \in Calls /\ Stops(call) /\ call.ch = c /\ call.do # "read" /\ call.do # "enable"
      /\ Enable(c) \in Calls /\ Enable(c).ch = c /\ Enable(c).do # "read"
      /\ GateVerdict \in Calls /\ GateVerdict.do = "verdict"
  <2>1. call \in Calls /\ Enable(c) \in Calls /\ GateVerdict \in Calls BY OneCall
  <2>2. Stops(call) /\ call.ch = c /\ call.do # "read" /\ call.do # "enable"
    BY DEF Stops, MustDuty, SetVoltage
  <2>3. Enable(c).ch = c /\ Enable(c).do # "read" /\ GateVerdict.do = "verdict"
    BY DEF Enable, GateVerdict
  <2> QED BY <2>1, <2>2, <2>3
<1>2. /\ p \in Seq(Calls) /\ Len(p) = 2 /\ p[1] = call /\ p[2] = Enable(c)
      /\ q \in Seq(Calls) /\ Len(q) = 3 /\ q[1] = call /\ q[2] = Enable(c) /\ q[3] = GateVerdict
      /\ Append(p, GateVerdict) = q
  <2> DEFINE e == Enable(c)
             g == GateVerdict
  <2> HIDE DEF e, g
  <2>1. call \in Calls /\ e \in Calls /\ g \in Calls BY <1>1 DEF e, g
  <2>2. ASSUME NEW x \in Calls, NEW y \in Calls, NEW z \in Calls
        PROVE  /\ <<x, y>> \in Seq(Calls) /\ <<x, y, z>> \in Seq(Calls)
               /\ Append(<<x, y>>, z) = <<x, y, z>>
    <3>1. <<x, y>> \in Seq(Calls) /\ <<x, y, z>> \in Seq(Calls) /\ Len(<<x, y, z>>) = 3
      OBVIOUS
    <3>2. /\ Append(<<x, y>>, z) \in Seq(Calls) /\ Len(Append(<<x, y>>, z)) = 3
          /\ \A i \in 1..3 : Append(<<x, y>>, z)[i] = <<x, y, z>>[i]
      BY <3>1, AppendProperties
    <3> QED BY <3>1, <3>2, SeqEqual
  <2> QED BY <2>1, <2>2 DEF e, g
<1>3. Guarded(p, S) /\ ~Reads(p)
  <2>1. \A i \in 1..2 : p[i].do # "read" BY <1>1, <1>2
  <2>2. \A i \in 1..2 : TurnsOn(p[i]) => i = 2 /\ p[i].ch = c BY <1>1, <1>2 DEF TurnsOn
  <2>3. 1 \in 1..(2 - 1) /\ Stops(p[1]) /\ p[1].ch = c BY <1>1, <1>2
  <2> QED BY <1>2, <2>1, <2>2, <2>3 DEF Guarded, Reads
<1>4. Guarded(q, S) /\ ~Reads(q)
  <2>1. \A i \in 1..3 : q[i].do # "read" BY <1>1, <1>2
  <2>2. \A i \in 1..3 : TurnsOn(q[i]) => i = 2 /\ q[i].ch = c BY <1>1, <1>2 DEF TurnsOn
  <2>3. 1 \in 1..(2 - 1) /\ Stops(q[1]) /\ q[1].ch = c BY <1>1, <1>2
  <2> QED BY <1>2, <2>1, <2>2, <2>3 DEF Guarded, Reads
<1> QED BY <1>2, <1>3, <1>4

\* What only turns channels off.
LEMMA OffPrograms ==
  ASSUME NEW S, NEW p \in {Off, dut_power_cut, <<Disable(0)>>}
  PROVE  p \in Seq(Calls) /\ Guarded(p, S) /\ ~Reads(p)
<1>1. \A c \in Channels : SetDuty(c, 0) \in Calls /\ Disable(c) \in Calls
  BY OneCall
<1>2. p \in Seq(Calls)
  <2>1. \A x, y, z, u \in Calls : <<x, y, z, u>> \in Seq(Calls) /\ <<x>> \in Seq(Calls) OBVIOUS
  <2>2. /\ SetDuty(0, 0) \in Calls /\ SetDuty(1, 0) \in Calls
        /\ Disable(0) \in Calls /\ Disable(1) \in Calls
    BY <1>1 DEF Channels
  <2> QED BY <2>1, <2>2 DEF Off, dut_power_cut
<1>3. \A i \in 1..Len(p) : ~TurnsOn(p[i]) /\ p[i].do # "read"
  BY DEF Off, dut_power_cut, TurnsOn, SetDuty, Disable
<1> QED BY <1>2, <1>3 DEF Guarded, Reads

\* The calls of a sweep.
LEMMA StepsOf ==
  ASSUME NEW points \in Seq(0..100), NEW what \in {"read", "report"}
  PROVE  /\ Steps(points, what) \in Seq(Calls) /\ Len(Steps(points, what)) = 3 * Len(points)
         /\ \A i \in 1..(3 * Len(points)) :
              LET call == Steps(points, what)[i]
              IN  /\ call.do \in {"duty", what}
                  /\ call.do = what => /\ i >= 3
                                       /\ Steps(points, what)[i - 2] = SetDuty(0, call.arg)
                                       /\ Steps(points, what)[i - 1] = SetDuty(1, call.arg)
<1> DEFINE n == 3 * Len(points)
           s == Steps(points, what)
           pct(i) == points[(i + 2) \div 3]
<1>1. Len(points) \in Nat /\ n \in Nat OBVIOUS
<1>2. ASSUME NEW i \in 1..n
      PROVE  /\ i % 3 = 1 => s[i] = SetDuty(0, pct(i))
             /\ i % 3 = 2 => s[i] = SetDuty(1, pct(i))
             /\ i % 3 = 0 => s[i] = Measure(what, pct(i))
             /\ i % 3 \in 0..2
             /\ pct(i) \in Int
  <2>1. i % 3 \in 0..2 BY <1>1
  <2>2. (i + 2) \div 3 \in 1..Len(points) BY <1>1
  <2>3. pct(i) \in 0..100 BY <2>2, ElementOfSeq
  <2> HIDE DEF pct
  <2>4. s[i] = CASE i % 3 = 1 -> SetDuty(0, pct(i)) [] i % 3 = 2 -> SetDuty(1, pct(i))
                 [] i % 3 = 0 -> Measure(what, pct(i))
    BY DEF Steps, pct
  <2>5. /\ i % 3 = 1 => s[i] = SetDuty(0, pct(i))
        /\ i % 3 = 2 => s[i] = SetDuty(1, pct(i))
        /\ i % 3 = 0 => s[i] = Measure(what, pct(i))
    <3> DEFINE r == i % 3
    <3>1. r \in 0..2 BY <2>1
    <3>2. s[i] = CASE r = 1 -> SetDuty(0, pct(i)) [] r = 2 -> SetDuty(1, pct(i))
                   [] r = 0 -> Measure(what, pct(i))
      BY <2>4
    <3> HIDE DEF r, s
    <3>3. /\ r = 1 => s[i] = SetDuty(0, pct(i))
          /\ r = 2 => s[i] = SetDuty(1, pct(i))
          /\ r = 0 => s[i] = Measure(what, pct(i))
      BY <3>1, <3>2
    <3> QED BY <3>3 DEF r, s
  <2>6. pct(i) \in Int
    <3>1. \A x \in 0..100 : x \in Int OBVIOUS
    <3> QED BY <2>3, <3>1
  <2> QED BY <2>1, <2>5, <2>6 DEF pct
<1>3. s = [i \in 1..n |-> s[i]] BY DEF Steps
<1>4. ASSUME NEW i \in 1..n PROVE s[i] \in Calls /\ s[i].do \in {"duty", what}
  <2>1. \A c \in Channels : SetDuty(c, pct(i)) \in Calls BY <1>2, OneCall
  <2>2. Measure(what, pct(i)) \in Calls BY <1>2, OneCall DEF Channels
  <2>3. s[i] \in {SetDuty(0, pct(i)), SetDuty(1, pct(i)), Measure(what, pct(i))} BY <1>2
  <2>4. s[i] \in Calls BY <2>1, <2>2, <2>3 DEF Channels
  <2>5. s[i].do \in {"duty", what} BY <2>3 DEF SetDuty, Measure
  <2> QED BY <2>4, <2>5
<1>5. s \in Seq(Calls) /\ Len(s) = n
  <2>1. s \in [1..n -> Calls] BY <1>3, <1>4
  <2> QED BY <1>1, <2>1
<1>6. ASSUME NEW i \in 1..n, s[i].do = what
      PROVE  i >= 3 /\ s[i - 2] = SetDuty(0, s[i].arg) /\ s[i - 1] = SetDuty(1, s[i].arg)
  <2>1. i % 3 = 0
    <3>1. \A x : SetDuty(0, x).do = "duty" /\ SetDuty(1, x).do = "duty" BY DEF SetDuty
    <3>2. i % 3 = 1 => s[i].do = "duty" BY <1>2, <3>1
    <3>3. i % 3 = 2 => s[i].do = "duty" BY <1>2, <3>1
    <3> QED BY <1>2, <1>6, <3>2, <3>3
  <2>2. /\ i - 2 \in 1..n /\ (i - 2) % 3 = 1 /\ ((i - 2) + 2) \div 3 = (i + 2) \div 3
        /\ i - 1 \in 1..n /\ (i - 1) % 3 = 2 /\ ((i - 1) + 2) \div 3 = (i + 2) \div 3
    BY <1>1, <2>1
  <2>3. pct(i - 2) = pct(i) /\ pct(i - 1) = pct(i) BY <2>2
  <2>4. s[i - 2] = SetDuty(0, pct(i)) /\ s[i - 1] = SetDuty(1, pct(i)) BY <1>2, <2>2, <2>3
  <2>5. s[i].arg = pct(i)
    <3>1. s[i] = Measure(what, pct(i)) BY <1>2, <2>1
    <3> QED BY <3>1 DEF Measure
  <2> QED BY <2>2, <2>4, <2>5
<1> QED BY <1>4, <1>5, <1>6

\* A sweep turns the channels on after it has set them to 0 %, and takes each
\* reading right after it has set both to its duty.
LEMMA SweepPrograms ==
  ASSUME NEW points \in Seq(0..100), NEW what \in {"read", "report"}, NEW S, NEW d,
         NEW p \in {SweepStarts \o Steps(points, what) \o Off,
                    SweepStarts \o Steps(points, what) \o Off \o <<SaveCalibration>>}
  PROVE  /\ p \in Seq(Calls) /\ Guarded(p, S) /\ Measured(p, d)
         /\ Head(p).do = "duty" /\ Head(p).arg < 75 /\ Head(p).must
<1> DEFINE q == Steps(points, what)
           n == Len(q)
           sweep == SweepStarts \o q \o Off
<1>1. /\ q \in Seq(Calls) /\ n \in Nat
      /\ \A i \in 1..n : /\ q[i].do \in {"duty", what}
                         /\ q[i].do = what => /\ i >= 3
                                              /\ q[i - 2] = SetDuty(0, q[i].arg)
                                              /\ q[i - 1] = SetDuty(1, q[i].arg)
  BY StepsOf
<1> HIDE DEF q, n
<1>2. SweepStarts \in Seq(Calls) /\ Off \in Seq(Calls) /\ <<SaveCalibration>> \in Seq(Calls)
      /\ Len(SweepStarts) = 4 /\ Len(Off) = 4 /\ Len(<<SaveCalibration>>) = 1
  <2>1. \A c \in Channels : MustDuty(c, 0) \in Calls /\ Enable(c) \in Calls BY OneCall
  <2>2. /\ MustDuty(0, 0) \in Calls /\ MustDuty(1, 0) \in Calls
        /\ Enable(0) \in Calls /\ Enable(1) \in Calls
    BY <2>1 DEF Channels
  <2>3. \A x, y, z, u \in Calls : <<x, y, z, u>> \in Seq(Calls) /\ <<x>> \in Seq(Calls) OBVIOUS
  <2>4. SweepStarts \in Seq(Calls) BY <2>2, <2>3 DEF SweepStarts
  <2>5. SaveCalibration \in Calls BY OneCall DEF Channels
  <2>6. <<SaveCalibration>> \in Seq(Calls) BY <2>3, <2>5
  <2>7. Len(SweepStarts) = 4 /\ Len(Off) = 4 /\ Len(<<SaveCalibration>>) = 1
    BY DEF SweepStarts, Off
  <2> QED BY <2>4, <2>6, <2>7, OffPrograms
<1>3. /\ sweep \in Seq(Calls) /\ Len(sweep) = n + 8
      /\ \A i \in 1..4 : sweep[i] = SweepStarts[i]
      /\ \A i \in 1..n : sweep[4 + i] = q[i]
      /\ \A i \in 1..4 : sweep[4 + n + i] = Off[i]
  <2> DEFINE a == SweepStarts \o q
  <2>1. /\ a \in Seq(Calls) /\ Len(a) = Len(SweepStarts) + Len(q)
        /\ \A i \in 1..(Len(SweepStarts) + Len(q)) :
             a[i] = IF i <= Len(SweepStarts) THEN SweepStarts[i] ELSE q[i - Len(SweepStarts)]
    <3>1. SweepStarts \in Seq(Calls) /\ q \in Seq(Calls) BY <1>1, <1>2
    <3>2. /\ a \in Seq(Calls) /\ Len(a) = Len(SweepStarts) + Len(q)
      BY ONLY <3>1, ConcatProperties
    <3>3. \A i \in 1..(Len(SweepStarts) + Len(q)) :
             a[i] = IF i <= Len(SweepStarts) THEN SweepStarts[i] ELSE q[i - Len(SweepStarts)]
      BY ONLY <3>1, ConcatProperties
    <3> QED BY <3>2, <3>3
  <2> HIDE DEF a
  <2>2. /\ a \in Seq(Calls) /\ Len(a) = 4 + n
        /\ \A i \in 1..(4 + n) : a[i] = IF i <= 4 THEN SweepStarts[i] ELSE q[i - 4]
    <3>1. Len(SweepStarts) = 4 /\ Len(q) = n BY <1>2 DEF n
    <3> QED BY <2>1, <3>1
  <2>3. /\ sweep \in Seq(Calls) /\ Len(sweep) = 4 + n + 4
        /\ \A i \in 1..(4 + n + 4) : sweep[i] = IF i <= 4 + n THEN a[i] ELSE Off[i - (4 + n)]
    <3>1. sweep = a \o Off BY DEF a
    <3>2. /\ a \o Off \in Seq(Calls) /\ Len(a \o Off) = Len(a) + Len(Off)
          /\ \A i \in 1..(Len(a) + Len(Off)) :
               (a \o Off)[i] = IF i <= Len(a) THEN a[i] ELSE Off[i - Len(a)]
      BY <1>2, <2>2, ConcatProperties
    <3>3. Len(a) = 4 + n /\ Len(Off) = 4 BY <1>2, <2>2
    <3> QED BY <3>1, <3>2, <3>3
  <2>4. ASSUME NEW i \in 1..4 PROVE sweep[i] = SweepStarts[i]
    <3>1. i \in 1..(4 + n) /\ i \in 1..(4 + n + 4) /\ i <= 4 + n /\ i <= 4 BY <1>1
    <3> QED BY <2>2, <2>3, <3>1
  <2>5. ASSUME NEW i \in 1..n PROVE sweep[4 + i] = q[i]
    <3>1. 4 + i \in 1..(4 + n) /\ 4 + i \in 1..(4 + n + 4) /\ (4 + i) - 4 = i /\ ~(4 + i <= 4)
      BY <1>1
    <3> QED BY <2>2, <2>3, <3>1
  <2>6. ASSUME NEW i \in 1..4 PROVE sweep[4 + n + i] = Off[i]
    <3>1. 4 + n + i \in 1..(4 + n + 4) /\ (4 + n + i) - (4 + n) = i /\ ~(4 + n + i <= 4 + n)
      BY <1>1
    <3> QED BY <2>3, <3>1
  <2>7. 4 + n + 4 = n + 8 BY <1>1
  <2>8. sweep \in Seq(Calls) /\ Len(sweep) = n + 8 BY <2>3, <2>7
  <2> QED BY <2>4, <2>5, <2>6, <2>8
<1>p. p \in {sweep, sweep \o <<SaveCalibration>>} BY DEF q
<1> HIDE DEF sweep
<1>4. /\ p \in Seq(Calls) /\ Len(p) \in {n + 8, n + 9}
      /\ \A i \in 1..(n + 8) : p[i] = sweep[i]
      /\ Len(p) = n + 9 => p[n + 9] = SaveCalibration
  <2>1. CASE p = sweep BY <1>1, <1>3, <2>1
  <2>2. CASE p = sweep \o <<SaveCalibration>>
    <3>1. /\ p \in Seq(Calls) /\ Len(p) = n + 8 + 1
          /\ \A i \in 1..(n + 8 + 1) : p[i] = IF i <= n + 8 THEN sweep[i]
                                              ELSE <<SaveCalibration>>[i - (n + 8)]
      BY <1>2, <1>3, <2>2, ConcatProperties
    <3>2. n + 9 \in 1..(n + 8 + 1) /\ ~(n + 9 <= n + 8) /\ (n + 9) - (n + 8) = 1 BY <1>1
    <3>3. p[n + 9] = SaveCalibration
      <4>1. p[n + 9] = <<SaveCalibration>>[(n + 9) - (n + 8)] BY <3>1, <3>2
      <4> QED BY <3>2, <4>1
    <3> QED BY <1>1, <3>1, <3>3
  <2> QED BY <1>p, <2>1, <2>2
\* What each call is.
<1>5. ASSUME NEW i \in 1..Len(p)
      PROVE  \/ i \in 1..4 /\ p[i] = SweepStarts[i]
             \/ i - 4 \in 1..n /\ p[i] = q[i - 4]
             \/ i - (4 + n) \in 1..4 /\ p[i] = Off[i - (4 + n)]
             \/ p[i] = SaveCalibration
  <2>1. CASE i <= 4
    <3>1. i \in 1..4 /\ i \in 1..(n + 8) BY <1>1, <2>1
    <3> QED BY <1>3, <1>4, <3>1
  <2>2. CASE i > 4 /\ i <= 4 + n
    <3>1. i - 4 \in 1..n /\ 4 + (i - 4) = i /\ i \in 1..(n + 8) BY <1>1, <2>2
    <3> QED BY <1>3, <1>4, <3>1
  <2>3. CASE i > 4 + n /\ i <= n + 8
    <3>1. i - (4 + n) \in 1..4 /\ 4 + n + (i - (4 + n)) = i /\ i \in 1..(n + 8) BY <1>1, <2>3
    <3> QED BY <1>3, <1>4, <3>1
  <2>4. CASE i > n + 8
    <3>1. i = n + 9 /\ Len(p) = n + 9 BY <1>1, <1>4, <2>4
    <3> QED BY <1>4, <3>1
  <2> QED BY <1>1, <2>1, <2>2, <2>3, <2>4
<1>6. /\ \A i \in 1..4 : SweepStarts[i].do # "read" /\ (TurnsOn(SweepStarts[i]) => i \in {3, 4})
      /\ SweepStarts[1] = MustDuty(0, 0) /\ SweepStarts[2] = MustDuty(1, 0)
      /\ SweepStarts[3].ch = 0 /\ SweepStarts[4].ch = 1
  BY DEF SweepStarts, MustDuty, Enable, TurnsOn
<1>7. \A i \in 1..4 : Off[i].do # "read" /\ ~TurnsOn(Off[i])
  BY DEF Off, SetDuty, Disable, TurnsOn
<1>8. SaveCalibration.do # "read" /\ ~TurnsOn(SaveCalibration)
  BY DEF SaveCalibration, TurnsOn
<1>9. Guarded(p, S)
  <2> SUFFICES ASSUME NEW i \in 1..Len(p), TurnsOn(p[i])
               PROVE  \E j \in 1..(i - 1) : Stops(p[j]) /\ p[j].ch = p[i].ch
    BY DEF Guarded
  <2>1. i \in {3, 4} /\ p[i] = SweepStarts[i]
    <3>1. \A k \in 1..n : ~TurnsOn(q[k]) BY <1>1 DEF TurnsOn
    <3> QED BY <1>5, <1>6, <1>7, <1>8, <3>1
  <2>2. p[1] = MustDuty(0, 0) /\ p[2] = MustDuty(1, 0)
    <3>1. 1 \in 1..(n + 8) /\ 2 \in 1..(n + 8) /\ 1 \in 1..4 /\ 2 \in 1..4 BY <1>1
    <3>2. p[1] = sweep[1] /\ p[2] = sweep[2] BY <1>4, <3>1
    <3>3. sweep[1] = SweepStarts[1] /\ sweep[2] = SweepStarts[2] BY <1>3, <3>1
    <3> QED BY <1>6, <3>2, <3>3
  <2>3. Stops(p[1]) /\ p[1].ch = 0 /\ Stops(p[2]) /\ p[2].ch = 1
    BY <2>2 DEF Stops, MustDuty
  <2>4. CASE i = 3
    <3>1. 1 \in 1..(i - 1) BY <2>4
    <3> QED BY <1>6, <2>1, <2>3, <2>4, <3>1
  <2>5. CASE i = 4
    <3>1. 2 \in 1..(i - 1) BY <2>5
    <3> QED BY <1>6, <2>1, <2>3, <2>5, <3>1
  <2> QED BY <2>1, <2>4, <2>5
<1>10. Measured(p, d)
  <2> SUFFICES ASSUME NEW i \in 1..Len(p), p[i].do = "read"
               PROVE  i >= 3 /\ p[i - 2] = SetDuty(0, p[i].arg) /\ p[i - 1] = SetDuty(1, p[i].arg)
    BY DEF Measured
  <2>1. i - 4 \in 1..n /\ p[i] = q[i - 4] BY <1>5, <1>6, <1>7, <1>8
  <2>2. /\ i - 4 >= 3
        /\ q[(i - 4) - 2] = SetDuty(0, p[i].arg) /\ q[(i - 4) - 1] = SetDuty(1, p[i].arg)
    <3>1. q[i - 4].do = what BY <1>1, <2>1
    <3> QED BY <1>1, <2>1, <3>1
  <2>3. /\ (i - 4) - 2 \in 1..n /\ 4 + ((i - 4) - 2) = i - 2 /\ i - 2 \in 1..(n + 8)
        /\ (i - 4) - 1 \in 1..n /\ 4 + ((i - 4) - 1) = i - 1 /\ i - 1 \in 1..(n + 8)
    BY <1>1, <2>1, <2>2
  <2>4. p[i - 2] = q[(i - 4) - 2] /\ p[i - 1] = q[(i - 4) - 1] BY <1>3, <1>4, <2>3
  <2> QED BY <2>1, <2>2, <2>4
<1>11. Head(p).do = "duty" /\ Head(p).arg < 75 /\ Head(p).must
  <2>1. p # <<>> /\ 1 \in 1..(n + 8) BY <1>1, <1>4
  <2>2. Head(p) = MustDuty(0, 0) BY <1>3, <1>4, <1>6, <2>1, Programs
  <2> QED BY <2>2 DEF MustDuty
<1> QED BY <1>4, <1>9, <1>10, <1>11

-----------------------------------------------------------------------------
(***************************************************************************)
(* What a step does.                                                       *)
(***************************************************************************)
\* The head of a task's program gets past the interlock,
Drives(t) ==
  /\ Head(prog[t]).do \in {"duty", "voltage"}
  /\ \E pct \in Int :
       /\ ~Interlocked(pct)
       /\ Head(prog[t]).do = "duty" => pct = Head(prog[t]).arg
       /\ duty' = [duty EXCEPT ![Head(prog[t]).ch] = pct]
  /\ Returns(t) /\ UNCHANGED s_enabled

\* or does not, which may end the command,
IsRefused(t) ==
  /\ Head(prog[t]).do \in {"duty", "voltage"}
  /\ Head(prog[t]).do = "duty" => Interlocked(Head(prog[t]).arg)
  /\ Refused(t)

\* or it switches a channel, or does not touch the regulators.
Switches(t) ==
  /\ Head(prog[t]).do = "enable"
  /\ s_enabled' = [s_enabled EXCEPT ![Head(prog[t]).ch] = (Head(prog[t]).arg = 1)]
  /\ Returns(t) /\ UNCHANGED duty
LooksOn(t) ==
  /\ Head(prog[t]).do \in {"read", "report", "save"}
  /\ Returns(t) /\ UNCHANGED rails

LEMMA QuotientIsInt ==
  ASSUME NEW a \in Int, NEW b \in Int \ {0}
  PROVE  Quotient(a, b) \in Int
  BY DEF Quotient

LEMMA StepOf ==
  ASSUME TypeOK, NEW t \in Threads, Step(t)
  PROVE  /\ prog[t] # <<>> /\ UNCHANGED <<dut, sm, scenario>>
         /\ Drives(t) \/ IsRefused(t) \/ Switches(t) \/ LooksOn(t)
<1>0. prog[t] # <<>> => Head(prog[t]) \in Calls
  BY Programs DEF TypeOK
<1>1. CASE vdac_set_duty(t)
  <2>1. prog[t] # <<>> /\ Head(prog[t]).do = "duty" /\ Head(prog[t]).arg \in Int
    BY <1>0, <1>1 DEF vdac_set_duty, Call, Calls
  <2> QED BY <1>1, <2>1 DEF vdac_set_duty, Drive, Drives, IsRefused
<1>2. CASE vdac_set_voltage(t)
  <2>1. /\ prog[t] # <<>> /\ Head(prog[t]).do = "voltage"
        /\ Head(prog[t]).arg \in Int /\ Head(prog[t]).ch \in Channels
    BY <1>0, <1>2 DEF vdac_set_voltage, Call, Calls
  <2> DEFINE c == Head(prog[t]).ch
             pct == DutyForMv(c, Head(prog[t]).arg)
  <2>2. CASE slope[c] = 0
    BY <1>2, <2>1, <2>2 DEF vdac_set_voltage, IsRefused
  <2>3. CASE slope[c] # 0
    <3>1. pct \in Int
      <4>1. intercept[c] \in Int /\ slope[c] \in Int \ {0} BY <2>1, <2>3 DEF TypeOK
      <4>2. Quotient(Head(prog[t]).arg - intercept[c], slope[c]) \in Int
        <5>1. Head(prog[t]).arg - intercept[c] \in Int BY <2>1, <4>1
        <5> QED BY <4>1, <5>1, QuotientIsInt
      <4> QED BY <4>2 DEF DutyForMv, Clamp
    <3>2. Drive(t, c, pct) BY <1>2, <2>3 DEF vdac_set_voltage
    <3> HIDE DEF pct
    <3>3. Drives(t) \/ IsRefused(t)
      BY <2>1, <3>1, <3>2 DEF Drive, Drives, IsRefused
    <3> QED BY <1>2, <2>1, <3>3 DEF vdac_set_voltage
  <2> QED BY <2>2, <2>3
<1>3. CASE vdac_set_enable(t) BY <1>3 DEF vdac_set_enable, Call, Switches, dut
<1>4. CASE ReadPoint(t) BY <1>4 DEF ReadPoint, Call, LooksOn
<1>5. CASE ReportPoint(t) BY <1>5 DEF ReportPoint, Call, LooksOn
<1>6. CASE Calibrate(t) BY <1>6 DEF Calibrate, Call, LooksOn
<1> QED BY <1>1, <1>2, <1>3, <1>4, <1>5, <1>6 DEF Step

\* The sweeps of the console.
LEMMA ConsolePrograms ==
  ASSUME TypeOK, NEW S, NEW d, NEW p \in {Char, Vdut, VdacChar}
  PROVE  /\ p \in Seq(Calls) /\ Guarded(p, S) /\ Measured(p, d)
         /\ Head(p).do = "duty" /\ Head(p).arg < 75 /\ Head(p).must
<1>1. CharPoints[scenario] \in Seq(0..100) BY PointsAssumption DEF TypeOK
<1>2. <<10, 50, 90>> \in Seq(0..100)
  <2>1. \A x, y, z \in 0..100 : <<x, y, z>> \in Seq(0..100) OBVIOUS
  <2>2. 10 \in 0..100 /\ 50 \in 0..100 /\ 90 \in 0..100 OBVIOUS
  <2> QED BY <2>1, <2>2
<1>3. CASE p \in {Char, VdacChar}
  <2>1. p \in {SweepStarts \o Steps(CharPoints[scenario], "read") \o Off,
               SweepStarts \o Steps(CharPoints[scenario], "read") \o Off \o <<SaveCalibration>>}
    BY <1>3 DEF Char, VdacChar
  <2> QED BY <1>1, <2>1, SweepPrograms
<1>4. CASE p = Vdut
  <2>1. p = SweepStarts \o Steps(<<10, 50, 90>>, "report") \o Off BY <1>4 DEF Vdut
  <2> QED BY <1>2, <2>1, SweepPrograms
<1> QED BY <1>3, <1>4

\* What the console or the cycle begins.
Begun(t, p) ==
  /\ prog' = [prog EXCEPT ![t] = p] /\ prog[t] = <<>>
  /\ UNCHANGED <<rails, dut, scenario>>
  /\ MayBegin(t) \/ sm = "TEST"
  /\ t = "console" => AtConsole /\ sm' = sm
  /\ t = "cycle" => sm' # "IDLE" /\ sm' \in {"GATE", "TEST", "ENDED"} /\ (sm = "IDLE" => MayBegin(t))
  /\ \/ UNCHANGED cal
     \/ /\ cal_v50' = [c \in Channels |-> -1] /\ cal_v90' = [c \in Channels |-> -1]
        /\ UNCHANGED <<slope, intercept>>

LEMMA ProgramsBegun ==
  ASSUME TypeOK,
         ConsoleSets \/ ConsoleOff \/ ConsoleSweeps \/ StartCycle \/ PowerCheck \/ CutPower
  PROVE  \E t \in Threads, p \in Seq(Calls) :
           /\ Begun(t, p) /\ Guarded(p, Safe) /\ Measured(p, duty)
           /\ Reads(p) => /\ t = "console"
                          /\ Head(p).do = "duty" /\ Head(p).arg < 75 /\ Head(p).must
<1> USE DEF Threads
<1>1. CASE ConsoleSets
  <2>0. PICK c \in Channels, n \in Int : \E call \in {MustDuty(c, n), SetVoltage(c, n)} :
          Begin("console", <<call, Enable(c)>>)
    <3>1. PICK c \in Channels :
            \/ \E pct \in Duties : Begin("console", <<MustDuty(c, pct), Enable(c)>>)
            \/ \E mv \in Voltages : Begin("console", <<SetVoltage(c, mv), Enable(c)>>)
      BY <1>1 DEF ConsoleSets
    <3>2. Duties \subseteq Int /\ Voltages \subseteq Int
      BY DutiesAssumption, VoltagesAssumption
    <3> QED BY <3>1, <3>2
  <2>1. PICK call \in {MustDuty(c, n), SetVoltage(c, n)} : Begin("console", <<call, Enable(c)>>)
    BY <2>0
  <2> DEFINE p == <<call, Enable(c)>>
  <2>2. p \in Seq(Calls) /\ Guarded(p, Safe) /\ ~Reads(p) BY SetPrograms
  <2> HIDE DEF p
  <2>3. Begun("console", p)
    BY <1>1, <2>1 DEF ConsoleSets, Begin, MayBegin, Begun, p
  <2> QED BY <2>2, <2>3, MeasuredNoReads
<1>2. CASE ConsoleOff
  <2>1. Off \in Seq(Calls) /\ Guarded(Off, Safe) /\ ~Reads(Off) BY OffPrograms
  <2>2. Begun("console", Off) BY <1>2 DEF ConsoleOff, Begin, MayBegin, Begun
  <2> QED BY <2>1, <2>2, MeasuredNoReads
<1>3. CASE ConsoleSweeps
  <2>1. PICK p \in {Char, Vdut, VdacChar} : Begin("console", p)
    BY <1>3 DEF ConsoleSweeps
  <2>2. /\ p \in Seq(Calls) /\ Guarded(p, Safe) /\ Measured(p, duty)
        /\ Head(p).do = "duty" /\ Head(p).arg < 75 /\ Head(p).must
    BY ConsolePrograms
  <2>3. Begun("console", p)
    BY <1>3, <2>1 DEF ConsoleSweeps, Begin, MayBegin, Begun
  <2> QED BY <2>2, <2>3
<1>4. ASSUME NEW mv \in Voltages
      PROVE  /\ PowerOn(mv) \in Seq(Calls) /\ Guarded(PowerOn(mv), Safe) /\ ~Reads(PowerOn(mv))
             /\ LET q == Append(PowerOn(mv), GateVerdict)
                IN  q \in Seq(Calls) /\ Guarded(q, Safe) /\ ~Reads(q)
  <2>1. mv \in Int /\ 0 \in Channels BY VoltagesAssumption DEF Channels
  <2>2. SetVoltage(0, mv) \in {MustDuty(0, mv), SetVoltage(0, mv)} OBVIOUS
  <2> QED BY <2>1, <2>2, SetPrograms DEF PowerOn
<1>5. CASE StartCycle
  <2>1. PICK mv \in Voltages : prog' = [prog EXCEPT !["cycle"] = Append(PowerOn(mv), GateVerdict)]
    BY <1>5 DEF StartCycle
  <2> DEFINE q == Append(PowerOn(mv), GateVerdict)
  <2>2. q \in Seq(Calls) /\ Guarded(q, Safe) /\ ~Reads(q) BY <1>4
  <2> HIDE DEF q
  <2>3. Begun("cycle", q) BY <1>5, <2>1 DEF StartCycle, MayBegin, Begun, q
  <2> QED BY <2>2, <2>3, MeasuredNoReads
<1>6. CASE PowerCheck
  <2>1. PICK mv \in Voltages : Begin("cycle", PowerOn(mv)) BY <1>6 DEF PowerCheck
  <2>2. Begun("cycle", PowerOn(mv)) BY <1>6, <2>1 DEF PowerCheck, Begin, MayBegin, Begun
  <2> QED BY <1>4, <2>2, MeasuredNoReads
<1>7. CASE CutPower
  <2>1. dut_power_cut \in Seq(Calls) /\ Guarded(dut_power_cut, Safe) /\ ~Reads(dut_power_cut)
    BY OffPrograms
  <2>2. Begun("cycle", dut_power_cut) BY <1>7 DEF CutPower, Begun
  <2> QED BY <2>1, <2>2, MeasuredNoReads
<1> QED BY <1>1, <1>2, <1>3, <1>5, <1>6, <1>7

\* The steps of Next, by what they do to the programs.
LEMMA NextCases ==
  ASSUME TypeOK, [Next]_vars
  PROVE  \/ \E t \in Threads : Step(t)
         \/ \E t \in Threads, p \in Seq(Calls) :
              /\ Begun(t, p) /\ Guarded(p, Safe) /\ Measured(p, duty)
              /\ Reads(p) => /\ t = "console"
                             /\ Head(p).do = "duty" /\ Head(p).arg < 75 /\ Head(p).must
         \/ Verdict("cycle")
         \/ GateUncalibrated \/ BackToIdle
         \/ Insert \/ Remove \/ Detect
         \/ UNCHANGED vars
  BY ProgramsBegun DEF Next

(***************************************************************************)
(* Types.                                                                  *)
(***************************************************************************)
LEMMA InitVdac == Init => VdacInv
<1> SUFFICES ASSUME Init PROVE VdacInv OBVIOUS
<1>1. TypeOK
  <2>1. prog \in [Threads -> Seq(Calls)] BY NoProgram DEF Init
  <2>2. slope \in [Channels -> Int] /\ intercept \in [Channels -> Int] BY DEF Init
  <2>3. cal_v50 \in [Channels -> Int] /\ cal_v90 \in [Channels -> Int] BY DEF Init
  <2>4. duty \in [Channels -> Int] /\ s_enabled \in [Channels -> BOOLEAN] BY DEF Init
  <2> QED BY <2>1, <2>2, <2>3, <2>4 DEF Init, TypeOK
<1>2. \A t \in Threads : prog[t] = <<>> BY DEF Init
<1>3. Watched
  BY <1>2, NoProgram DEF Init, Watched, Quiet, Known, Safe
<1>4. TakeTurns /\ Sweeps
  <2>1. prog["cycle"] = <<>> /\ prog["console"] = <<>> BY <1>2 DEF Threads
  <2> QED BY <2>1, NoProgram DEF TakeTurns, Sweeps
<1>5. Anchored BY DEF Init, Anchored
<1> QED BY <1>1, <1>3, <1>4, <1>5 DEF VdacInv

LEMMA NextTypes ==
  ASSUME TypeOK, [Next]_vars
  PROVE  TypeOK'
<1> USE DEF TypeOK
<1>1. ASSUME NEW t \in Threads, Step(t) PROVE TypeOK'
  <2>0. /\ prog[t] # <<>> /\ UNCHANGED <<dut, sm, scenario>>
        /\ Drives(t) \/ IsRefused(t) \/ Switches(t) \/ LooksOn(t)
    BY <1>1, StepOf
  <2>1. /\ Tail(prog[t]) \in Seq(Calls) /\ <<>> \in Seq(Calls)
        /\ Head(prog[t]).ch \in Channels
    <3>1. prog[t] \in Seq(Calls) OBVIOUS
    <3>2. Head(prog[t]) \in Calls BY <2>0, <3>1, Programs
    <3> QED BY <2>0, <3>1, <3>2, Programs, NoProgram DEF Calls
  <2>2. prog' \in [Threads -> Seq(Calls)]
    BY <2>0, <2>1 DEF Drives, IsRefused, Switches, LooksOn, Returns, Refused
  <2>3. duty' \in [Channels -> Int]
    BY <2>0, <2>1 DEF Drives, IsRefused, Switches, LooksOn, Refused, rails
  <2>4. s_enabled' \in [Channels -> BOOLEAN]
    BY <2>0, <2>1 DEF Drives, IsRefused, Switches, LooksOn, Refused, rails
  <2>5. /\ slope' \in [Channels -> Int] /\ intercept' \in [Channels -> Int]
        /\ cal_v50' \in [Channels -> Int] /\ cal_v90' \in [Channels -> Int]
    <3>1. CASE ReadPoint(t)
      <4>1. ASSUME NEW ok \in SUBSET Channels, NEW old \in [Channels -> Int]
            PROVE  Anchor(old, ok) \in [Channels -> Int]
        <5>1. \A n \in Int : Output(n) \in Int BY DEF Output
        <5> QED BY <5>1 DEF Anchor
      <4>2. PICK ok \in SUBSET Channels :
              /\ cal_v50' = IF Head(prog[t]).arg = 50 THEN Anchor(cal_v50, ok) ELSE cal_v50
              /\ cal_v90' = IF Head(prog[t]).arg = 90 THEN Anchor(cal_v90, ok) ELSE cal_v90
        BY <3>1 DEF ReadPoint
      <4>3. Anchor(cal_v50, ok) \in [Channels -> Int] /\ Anchor(cal_v90, ok) \in [Channels -> Int]
        BY <4>1
      <4> QED BY <3>1, <4>2, <4>3 DEF ReadPoint
    <3>2. CASE Calibrate(t)
      <4>1. \A c \in Channels : NewSlope(c) \in Int
        <5>1. ASSUME NEW c \in Channels PROVE NewSlope(c) \in Int
          <6>1. cal_v90[c] - cal_v50[c] \in Int /\ 90 - 50 \in Int \ {0} OBVIOUS
          <6> QED BY <6>1, QuotientIsInt DEF NewSlope
        <5> QED BY <5>1
      <4> QED BY <3>2, <4>1 DEF Calibrate
    <3>3. CASE UNCHANGED cal BY <3>3 DEF cal
    <3> QED BY <1>1, <3>1, <3>2, <3>3
            DEF Step, vdac_set_duty, vdac_set_voltage, vdac_set_enable, ReportPoint
  <2> QED BY <2>0, <2>2, <2>3, <2>4, <2>5 DEF dut
<1>2. ASSUME NEW t \in Threads, NEW p \in Seq(Calls), Begun(t, p) PROVE TypeOK'
  <2>1. prog' \in [Threads -> Seq(Calls)] BY <1>2 DEF Begun
  <2>2. sm' \in {"IDLE", "GATE", "TEST", "ENDED"} BY <1>2 DEF Begun, Threads
  <2>3. cal_v50' \in [Channels -> Int] /\ cal_v90' \in [Channels -> Int]
        /\ slope' \in [Channels -> Int] /\ intercept' \in [Channels -> Int]
    BY <1>2 DEF Begun, cal
  <2> QED BY <1>2, <2>1, <2>2, <2>3 DEF Begun, rails, dut
<1>3. CASE Verdict("cycle")
  <2>1. prog["cycle"] \in Seq(Calls) /\ prog["cycle"] # <<>> BY <1>3 DEF Verdict, Call, Threads
  <2>2. Tail(prog["cycle"]) \in Seq(Calls) BY <2>1, Programs
  <2>3. <<Disable(0)>> \in Seq(Calls) BY OffPrograms
  <2>4. prog' \in [Threads -> Seq(Calls)] BY <1>3, <2>2, <2>3 DEF Verdict, Returns
  <2> QED BY <1>3, <2>4 DEF Verdict, rails, cal, dut
<1>4. CASE GateUncalibrated BY <1>4 DEF GateUncalibrated, rails, cal, dut
<1>5. CASE BackToIdle BY <1>5 DEF BackToIdle, rails, cal, dut
<1>6. CASE Insert BY <1>6 DEF Insert, rails, cal
<1>7. CASE Remove BY <1>7 DEF Remove, rails, cal
<1>8. CASE Detect BY <1>8 DEF Detect, rails, cal
<1>9. CASE UNCHANGED vars BY <1>9 DEF vars, rails, cal, dut
<1> QED BY <1>1, <1>2, <1>3, <1>4, <1>5, <1>6, <1>7, <1>8, <1>9, NextCases

-----------------------------------------------------------------------------
(***************************************************************************)
(* What the detection has seen is kept at a safe voltage.                  *)
(***************************************************************************)
\* While anything is in use, the detection has seen what is in the fixture, so
\* the interlock accepts only what it can take.
LEMMA SafeStays ==
  ASSUME TypeOK, Known, UNCHANGED dut,
         NEW c \in Channels, NEW pct \in Int, ~Interlocked(pct), duty' = [duty EXCEPT ![c] = pct]
  PROVE  Safe \subseteq Safe' /\ c \in Safe'
<1>1. seated' = seated /\ (seated => pct >= 75)
  BY DEF Known, Interlocked, dut
<1>2. \A d \in Channels : duty'[d] = IF d = c THEN pct ELSE duty[d]
  BY DEF TypeOK
<1> QED BY <1>1, <1>2 DEF Safe

LEMMA NextWatched ==
  ASSUME TypeOK, Watched, [Next]_vars, scenario \cap {"insert", "stale"} = {}
  PROVE  Watched'
<1>1. ASSUME NEW t \in Threads, Step(t) PROVE Watched'
  <2> DEFINE p == prog[t]
             h == Head(p)
  <2>0. /\ p # <<>> /\ UNCHANGED <<dut, sm, scenario>>
        /\ Drives(t) \/ IsRefused(t) \/ Switches(t) \/ LooksOn(t)
    BY <1>1, StepOf
  <2>1. /\ p \in Seq(Calls) /\ h = p[1] /\ h \in Calls /\ h.ch \in Channels /\ 1 \in 1..Len(p)
        /\ Guarded(p, Safe)
    <3>1. p \in Seq(Calls) BY DEF TypeOK
    <3>2. h = p[1] /\ h \in Calls /\ Len(p) \in Nat \ {0} BY <2>0, <3>1, Programs
    <3> QED BY <3>1, <3>2 DEF Watched, Calls
  <2>2. Known /\ Known'
    BY <2>0 DEF Watched, Quiet, Known, dut
  <2>3. Safe \subseteq Safe' /\ (Drives(t) => h.ch \in Safe')
    <3>1. CASE Drives(t) BY <2>0, <2>1, <2>2, <3>1, SafeStays DEF Drives
    <3>2. CASE UNCHANGED duty /\ ~Drives(t) BY <2>0, <3>2 DEF Safe, dut
    <3>3. IsRefused(t) => UNCHANGED duty BY DEF IsRefused, Refused, rails
    <3>4. Switches(t) \/ LooksOn(t) => UNCHANGED duty BY DEF Switches, LooksOn, rails
    <3>5. Switches(t) \/ LooksOn(t) => ~Drives(t) BY DEF Switches, LooksOn, Drives
    <3>6. CASE IsRefused(t) /\ Drives(t) BY <2>0, <2>1, <2>2, <3>6, SafeStays DEF Drives
    <3> QED BY <2>0, <3>1, <3>2, <3>3, <3>4, <3>5
  <2>4. ASSUME NEW c \in Channels, s_enabled'[c] PROVE c \in Safe'
    <3>1. CASE s_enabled' = s_enabled BY <2>3, <2>4, <3>1 DEF Watched
    <3>2. CASE Switches(t)
      <4>1. s_enabled'[c] = IF c = h.ch THEN h.arg = 1 ELSE s_enabled[c]
        BY <3>2 DEF Switches, TypeOK
      <4>2. CASE c = h.ch
        <5>1. TurnsOn(p[1]) BY <2>1, <2>4, <3>2, <4>1, <4>2 DEF Switches, TurnsOn
        <5>2. p[1].ch \in Safe BY <2>1, <5>1 DEF Guarded
        <5> QED BY <2>1, <2>3, <4>2, <5>2
      <4>3. CASE c # h.ch BY <2>3, <2>4, <4>1, <4>3 DEF Watched
      <4> QED BY <4>2, <4>3
    <3> QED BY <2>0, <3>1, <3>2 DEF Drives, IsRefused, Refused, LooksOn, rails
  <2>5. ASSUME NEW u \in Threads PROVE Guarded(prog'[u], Safe')
    <3>1. Returns(t) => prog'[t] = Tail(p) BY DEF Returns, TypeOK
    <3>2. u # t => prog'[u] = prog[u]
      BY <2>0 DEF Drives, IsRefused, Switches, LooksOn, Returns, Refused, TypeOK
    <3>3. CASE u # t BY <2>3, <3>2, <3>3, GuardedMore DEF Watched
    <3>4. CASE u = t /\ Returns(t) /\ (Stops(h) => Drives(t))
      <4>1. Stops(p[1]) => p[1].ch \in Safe' BY <2>1, <2>3, <3>4
      <4> QED BY <2>0, <2>1, <2>3, <3>1, <3>4, <4>1, GuardedTail
    <3>5. CASE u = t /\ IsRefused(t)
      <4>1. CASE h.must
        <5>1. prog'[t] = <<>> BY <3>5, <4>1 DEF IsRefused, Refused, TypeOK
        <5> QED BY <3>5, <5>1, NoProgram
      <4>2. CASE ~h.must
        <5>1. Returns(t) BY <3>5, <4>2 DEF IsRefused, Refused, Returns, TypeOK
        <5>2. ~Stops(h) BY <4>2 DEF Stops
        <5> QED BY <3>4, <3>5, <5>1, <5>2
      <4> QED BY <4>1, <4>2
    <3>6. Drives(t) => Returns(t) BY DEF Drives
    <3>7. Switches(t) \/ LooksOn(t) => Returns(t) /\ ~Stops(h) BY DEF Switches, LooksOn, Stops
    <3> QED BY <2>0, <3>3, <3>4, <3>5, <3>6, <3>7
  <2> QED BY <2>2, <2>4, <2>5 DEF Watched
<1>2. ASSUME NEW t \in Threads, NEW p \in Seq(Calls), Begun(t, p), Guarded(p, Safe) PROVE Watched'
  <2>1. Known BY <1>2 DEF Begun, MayBegin, Watched, Quiet
  <2>2. Safe' = Safe /\ s_enabled' = s_enabled /\ Known' BY <1>2, <2>1 DEF Begun, Safe, Known, rails, dut
  <2>3. \A u \in Threads : prog'[u] = IF u = t THEN p ELSE prog[u] BY <1>2 DEF Begun, TypeOK
  <2> QED BY <1>2, <2>2, <2>3 DEF Watched
<1>3. CASE Verdict("cycle")
  <2>1. prog["cycle"] \in Seq(Calls) /\ prog["cycle"] # <<>> /\ "cycle" \in Threads
    BY <1>3 DEF Verdict, Call, Threads, TypeOK
  <2>2. Known /\ Known' BY <1>3, <2>1 DEF Verdict, Watched, Quiet, Known, dut
  <2>3. Safe' = Safe /\ s_enabled' = s_enabled BY <1>3 DEF Verdict, Safe, rails, dut
  <2>4. Guarded(Tail(prog["cycle"]), Safe)
    <3>1. ~Stops(prog["cycle"][1]) BY <1>3, <2>1, Programs DEF Verdict, Call, Stops
    <3> QED BY <2>1, <3>1, GuardedTail DEF Watched
  <2>5. Guarded(<<Disable(0)>>, Safe) BY OffPrograms
  <2>6. \A u \in Threads : Guarded(prog'[u], Safe)
    BY <1>3, <2>1, <2>4, <2>5 DEF Verdict, Returns, Watched, TypeOK
  <2> QED BY <2>2, <2>3, <2>6 DEF Watched
<1>4. CASE GateUncalibrated \/ BackToIdle
  <2>1. sm # "IDLE" /\ UNCHANGED <<rails, dut, prog>> BY <1>4 DEF GateUncalibrated, BackToIdle
  <2>2. Known /\ Known' BY <2>1 DEF Watched, Quiet, Known, dut
  <2> QED BY <2>1, <2>2 DEF Watched, Safe, rails, dut
<1>5. CASE Insert
  <2>1. Quiet /\ UNCHANGED <<rails, prog, sm>> BY <1>5 DEF Insert
  <2>2. Quiet' BY <2>1 DEF Quiet, rails
  <2>3. \A u \in Threads : Guarded(prog'[u], Safe') BY <2>2, NoProgram DEF Quiet
  <2> QED BY <2>2, <2>3 DEF Watched, Quiet
<1>6. CASE Remove
  <2>1. Safe \subseteq Safe' /\ Known' BY <1>6 DEF Remove, Safe, Known
  <2> QED BY <1>6, <2>1, GuardedMore DEF Remove, Watched, rails
<1>7. CASE Detect
  <2>1. Safe' = Safe /\ Known' BY <1>7 DEF Detect, Safe, Known, rails
  <2> QED BY <1>7, <2>1 DEF Detect, Watched, rails
<1>8. CASE UNCHANGED vars
  BY <1>8 DEF vars, rails, dut, Watched, Known, Quiet, Safe
<1> QED BY <1>1, <1>2, <1>3, <1>4, <1>5, <1>6, <1>7, <1>8, NextCases

-----------------------------------------------------------------------------
(***************************************************************************)
(* What a sweep measures is what it has set.                               *)
(***************************************************************************)
LEMMA NextSweeps ==
  ASSUME TypeOK, Watched, TakeTurns, Sweeps, [Next]_vars, scenario \subseteq {"sample"}
  PROVE  TakeTurns' /\ Sweeps'
<1>0. "console" \in Threads /\ "cycle" \in Threads BY DEF Threads
<1>1. ASSUME NEW t \in Threads, Step(t) PROVE TakeTurns' /\ Sweeps'
  <2> DEFINE p == prog[t]
             h == Head(p)
  <2>0. /\ p # <<>> /\ UNCHANGED <<dut, sm, scenario>>
        /\ Drives(t) \/ IsRefused(t) \/ Switches(t) \/ LooksOn(t)
    BY <1>1, StepOf
  <2>1. /\ p \in Seq(Calls) /\ h = p[1] /\ h \in Calls
    <3>1. p \in Seq(Calls) BY DEF TypeOK
    <3> QED BY <2>0, <3>1, Programs
  <2>2. /\ prog'[t] \in {Tail(p), <<>>}
        /\ \A u \in Threads \ {t} : prog'[u] = prog[u]
    BY <2>0 DEF Drives, IsRefused, Switches, LooksOn, Returns, Refused, TypeOK
  <2>3. Reads(prog'[t]) => Reads(p) /\ prog'[t] = Tail(p)
    BY <2>0, <2>1, <2>2, ReadsTail, NoProgram
  <2>4. CASE t = "cycle"
    <3>1. sm # "IDLE" /\ prog["console"] = <<>> /\ prog'["console"] = <<>>
      BY <1>0, <2>0, <2>2, <2>4 DEF TakeTurns
    <3>2. ~Reads(prog'["cycle"]) BY <2>3, <2>4 DEF Sweeps
    <3> QED BY <2>0, <3>1, <3>2, NoProgram DEF TakeTurns, Sweeps
  <2>5. CASE t = "console"
    <3>1. sm = "IDLE" /\ prog["cycle"] = <<>> /\ prog'["cycle"] = <<>>
      BY <1>0, <2>0, <2>2, <2>5 DEF TakeTurns
    <3>2. TakeTurns' /\ ~Reads(prog'["cycle"]) BY <2>0, <3>1, NoProgram DEF TakeTurns
    <3>3. CASE ~Reads(prog'[t]) BY <2>5, <3>2, <3>3, MeasuredNoReads DEF Sweeps
    <3>4. CASE Reads(prog'[t])
      <4>1. Reads(p) /\ prog'[t] = Tail(p) /\ Measured(p, duty)
        BY <2>3, <2>5, <3>4 DEF Sweeps
      <4>2. ~Interlocks' /\ (h.do = "duty" => Drives(t))
        <5>1. CASE Interlocks
          <6>1. h.do = "duty" /\ h.arg < 75 /\ h.must BY <2>5, <4>1, <5>1 DEF Sweeps
          <6>2. ~IsRefused(t)
            <7> SUFFICES ASSUME IsRefused(t) PROVE FALSE OBVIOUS
            <7>1. prog'[t] = <<>> BY <6>1 DEF IsRefused, Refused, TypeOK
            <7> QED BY <3>4, <7>1, NoProgram
          <6>3. Drives(t) BY <2>0, <6>1, <6>2 DEF Switches, LooksOn
          <6>4. ~Interlocked(h.arg) BY <6>1, <6>3 DEF Drives
          <6>5. Known BY <2>0 DEF Watched, Quiet
          <6> QED BY <2>0, <6>1, <6>3, <6>4, <6>5 DEF Interlocks, Interlocked, Known, dut
        <5>2. CASE ~Interlocks
          <6>1. ~IsRefused(t) \/ h.do # "duty" BY <5>2 DEF Interlocks, Interlocked, IsRefused
          <6> QED BY <2>0, <5>2, <6>1 DEF Interlocks, Switches, LooksOn, dut
        <5> QED BY <5>1, <5>2
      <4>3. p[1].do = "duty" => duty' = [duty EXCEPT ![p[1].ch] = p[1].arg]
        BY <2>1, <4>2 DEF Drives
      <4>4. duty \in [Channels -> Int] BY DEF TypeOK
      <4>5. Measured(Tail(p), duty') BY <2>0, <2>1, <4>1, <4>3, <4>4, MeasuredTail
      <4> QED BY <2>5, <3>2, <4>1, <4>2, <4>5 DEF Sweeps
    <3> QED BY <3>3, <3>4
  <2> QED BY <2>4, <2>5 DEF Threads
<1>2. ASSUME NEW t \in Threads, NEW p \in Seq(Calls), Begun(t, p), Measured(p, duty),
             Reads(p) => /\ t = "console"
                         /\ Head(p).do = "duty" /\ Head(p).arg < 75 /\ Head(p).must
      PROVE  TakeTurns' /\ Sweeps'
  <2>1. /\ \A u \in Threads : prog'[u] = IF u = t THEN p ELSE prog[u]
        /\ duty' = duty /\ "overlap" \notin scenario
    BY <1>2 DEF Begun, TypeOK, rails
  <2>2. CASE t = "console"
    <3>1. sm = "IDLE" /\ sm' = "IDLE" BY <1>2, <2>1, <2>2 DEF Begun, AtConsole
    <3>2. prog["cycle"] = <<>> /\ prog'["cycle"] = <<>>
      BY <1>0, <2>1, <2>2, <3>1 DEF TakeTurns
    <3>3. prog'["console"] = p BY <1>0, <2>1, <2>2
    <3> QED BY <1>2, <2>1, <3>1, <3>2, <3>3, NoProgram DEF TakeTurns, Sweeps
  <2>3. CASE t = "cycle"
    <3>1. prog["console"] = <<>> BY <1>0, <1>2, <2>1, <2>3 DEF Begun, MayBegin, TakeTurns
    <3>2. prog'["console"] = <<>> /\ prog'["cycle"] = p /\ sm' # "IDLE" /\ ~Reads(p)
      BY <1>0, <1>2, <2>1, <2>3, <3>1 DEF Begun
    <3> QED BY <3>2, NoProgram DEF TakeTurns, Sweeps
  <2> QED BY <2>2, <2>3 DEF Threads
<1>3. CASE Verdict("cycle")
  <2>1. prog["cycle"] \in Seq(Calls) /\ prog["cycle"] # <<>>
    BY <1>0, <1>3 DEF Verdict, Call, TypeOK
  <2>2. prog["console"] = <<>> /\ prog'["console"] = <<>>
    <3>1. prog["console"] = <<>> BY <2>1 DEF TakeTurns
    <3> QED BY <1>0, <1>3, <3>1 DEF Verdict, Returns, TypeOK
  <2>3. ~Reads(prog'["cycle"])
    <3>1. ~Reads(Tail(prog["cycle"])) BY <2>1, ReadsTail DEF Sweeps
    <3>2. ~Reads(<<Disable(0)>>) BY OffPrograms
    <3>3. prog'["cycle"] \in {Tail(prog["cycle"]), <<Disable(0)>>}
      BY <1>0, <1>3 DEF Verdict, Returns, TypeOK
    <3> QED BY <3>1, <3>2, <3>3
  <2>4. sm' # "IDLE" BY <1>3 DEF Verdict
  <2> QED BY <2>2, <2>3, <2>4, NoProgram DEF TakeTurns, Sweeps
<1>4. CASE GateUncalibrated
  BY <1>4 DEF GateUncalibrated, TakeTurns, Sweeps, Interlocks, rails, dut
<1>5. CASE BackToIdle
  BY <1>5 DEF BackToIdle, TakeTurns, Sweeps, Interlocks, rails, dut
<1>6. CASE Insert
  <2>1. Quiet /\ UNCHANGED <<prog, sm>> BY <1>6 DEF Insert
  <2>2. prog'["cycle"] = <<>> /\ prog'["console"] = <<>> BY <1>0, <2>1 DEF Quiet
  <2> QED BY <2>2, NoProgram DEF TakeTurns, Sweeps
<1>7. CASE Remove BY <1>7 DEF Remove, TakeTurns, Sweeps, Interlocks, rails
<1>8. CASE Detect BY <1>8 DEF Detect, TakeTurns, Sweeps, Interlocks, rails, TypeOK
<1>9. CASE UNCHANGED vars BY <1>9 DEF vars, TakeTurns, Sweeps, Interlocks, rails, dut
<1> QED BY <1>1, <1>2, <1>3, <1>4, <1>5, <1>6, <1>7, <1>8, <1>9, NextCases

\* The readings at 50 % and 90 % give the line that the regulators follow.
LEMMA LineThroughAnchors ==
  ASSUME NEW c \in Channels, cal_v50[c] = Output(50), cal_v90[c] = Output(90)
  PROVE  NewSlope(c) = -80 /\ cal_v50[c] - NewSlope(c) * 50 = 11000
<1>1. cal_v50[c] = 7000 /\ cal_v90[c] = 3800 BY DEF Output
<1>2. NewSlope(c) = Quotient(-3200, 40) BY <1>1 DEF NewSlope
<1>3. Quotient(-3200, 40) = -80 BY DEF Quotient
<1> QED BY <1>1, <1>2, <1>3

LEMMA NextAnchored ==
  ASSUME TypeOK, TakeTurns, Sweeps, Anchored, [Next]_vars
  PROVE  Anchored'
<1>1. ASSUME NEW t \in Threads, ReadPoint(t) PROVE Anchored'
  <2> DEFINE p == prog[t]
             n == Head(p).arg
  <2>1. p \in Seq(Calls) /\ p # <<>> /\ p[1].do = "read" /\ p[1].arg = n /\ 1 \in 1..Len(p)
    <3>1. p \in Seq(Calls) /\ p # <<>> /\ Head(p).do = "read" BY <1>1 DEF ReadPoint, Call, TypeOK
    <3>2. Head(p) = p[1] /\ Len(p) \in Nat \ {0} BY <3>1, Programs
    <3> QED BY <3>1, <3>2
  <2>2. Reads(p) BY <2>1 DEF Reads
  <2>3. t = "console" BY <2>2 DEF Sweeps, Threads
  <2>4. duty[0] = n /\ duty[1] = n
    BY <2>1, <2>3 DEF Sweeps, Measured
  <2>5. PICK ok \in SUBSET Channels :
          /\ cal_v50' = IF n = 50 THEN Anchor(cal_v50, ok) ELSE cal_v50
          /\ cal_v90' = IF n = 90 THEN Anchor(cal_v90, ok) ELSE cal_v90
    BY <1>1 DEF ReadPoint
  <2>6. \A c \in Channels : /\ Anchor(cal_v50, ok)[c] \in {cal_v50[c], Output(n)}
                            /\ Anchor(cal_v90, ok)[c] \in {cal_v90[c], Output(n)}
    BY <2>4 DEF Anchor, Channels
  <2>7. \A c \in Channels : /\ cal_v50'[c] \in {cal_v50[c], Output(50)}
                            /\ cal_v90'[c] \in {cal_v90[c], Output(90)}
    BY <2>5, <2>6
  <2> QED BY <1>1, <2>7 DEF ReadPoint, Anchored
<1>2. ASSUME NEW t \in Threads, Calibrate(t) PROVE Anchored'
  <2>1. ASSUME NEW c \in Channels
        PROVE  /\ cal_v50'[c] = -1 /\ cal_v90'[c] = -1
               /\ slope'[c] # 0 => slope'[c] = -80 /\ intercept'[c] = 11000
    <3>1. cal_v50'[c] = -1 /\ cal_v90'[c] = -1 BY <1>2 DEF Calibrate
    <3>2. CASE HasAnchors(c)
      <4>1. cal_v50[c] = Output(50) /\ cal_v90[c] = Output(90)
        BY <3>2 DEF HasAnchors, Anchored
      <4> QED BY <1>2, <3>1, <3>2, <4>1, LineThroughAnchors DEF Calibrate
    <3>3. CASE ~HasAnchors(c) BY <1>2, <3>1, <3>3 DEF Calibrate, Anchored
    <3> QED BY <3>2, <3>3
  <2> QED BY <2>1 DEF Anchored
<1>3. CASE UNCHANGED cal BY <1>3 DEF cal, Anchored
<1>4. ASSUME NEW t \in Threads, NEW p \in Seq(Calls), Begun(t, p) PROVE Anchored'
  BY <1>4 DEF Begun, Anchored, cal
<1>5. ASSUME NEW t \in Threads, Step(t) PROVE Anchored'
  BY <1>1, <1>2, <1>3, <1>5
     DEF Step, vdac_set_duty, vdac_set_voltage, vdac_set_enable, ReportPoint
<1> QED BY <1>3, <1>4, <1>5, NextCases
        DEF Verdict, GateUncalibrated, BackToIdle, Insert, Remove, Detect, vars

-----------------------------------------------------------------------------
LEMMA VdacInvariant == Spec => []VdacInv
<1>1. VdacInv /\ [Next]_vars => VdacInv'
  <2> SUFFICES ASSUME VdacInv, [Next]_vars PROVE VdacInv' OBVIOUS
  <2>1. TypeOK' BY NextTypes DEF VdacInv
  <2>2. scenario' = scenario
    <3>1. \A t \in Threads : Step(t) => scenario' = scenario BY StepOf DEF VdacInv
    <3> QED BY <3>1, NextCases
            DEF VdacInv, Begun, Verdict, GateUncalibrated, BackToIdle, Insert, Remove, Detect, vars
  <2>3. scenario \cap {"insert", "stale"} = {} => Watched' BY NextWatched DEF VdacInv
  <2>4. scenario \subseteq {"sample"} => TakeTurns' /\ Sweeps' /\ Anchored'
    <3> SUFFICES ASSUME scenario \subseteq {"sample"} PROVE TakeTurns' /\ Sweeps' /\ Anchored'
      OBVIOUS
    <3>1. TypeOK /\ Watched /\ TakeTurns /\ Sweeps /\ Anchored
      <4>1. scenario \cap {"insert", "stale"} = {} OBVIOUS
      <4> QED BY <4>1 DEF VdacInv
    <3> QED BY <3>1, NextSweeps, NextAnchored
  <2> QED BY <2>1, <2>2, <2>3, <2>4 DEF VdacInv
<1> QED BY <1>1, InitVdac, PTL DEF Spec

(***************************************************************************)
(* cmd_vdac.c:82-85: whatever the console and the test cycle do between    *)
(* each other, with any duties, targets and calibration, a regulator that  *)
(* is on gives a DUT in the fixture no more than it is rated for, if it    *)
(* was seen when they were given the command.                              *)
(***************************************************************************)
THEOREM SeenDutIsSafe == Spec => []DutRatedVoltage
<1>1. VdacInv => DutRatedVoltage BY DEF VdacInv, Watched, Safe, DutRatedVoltage
<1> QED BY <1>1, VdacInvariant, PTL

(***************************************************************************)
(* cmd_vdac.c:258-265: over any points, and whichever readings fail, what  *)
(* a sweep calibrates is the line that the regulators follow.              *)
(***************************************************************************)
THEOREM SweepsMeasure == Spec => []CalibrationIsMeasured
<1>1. VdacInv => CalibrationIsMeasured BY DEF VdacInv, Anchored, CalibrationIsMeasured
<1> QED BY <1>1, VdacInvariant, PTL
=============================================================================
