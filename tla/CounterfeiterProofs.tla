------------------------ MODULE CounterfeiterProofs ------------------------
(***************************************************************************)
(* The generated fakes record and answer calls as a test expects, however  *)
(* many goroutines there are and however their calls overlap.              *)
(***************************************************************************)
EXTENDS Counterfeiter, TLAPS

Callers == [pc : {"outside", "record", "answer"}, method : Methods \cup {""}, arg : Nat, index : Nat,
            specific : BOOLEAN, ret : Results \cup {Zero}]

Shape ==
    /\ argsForCall \in [Methods -> Seq(Nat)] /\ invocations \in [Methods -> Seq(Nat)]
    /\ mutex \in [Methods -> Goroutines \cup {NoCaller}]
    /\ caller \in [Goroutines -> Callers]
    /\ DOMAIN returnsOnCall = Methods
    /\ \A m \in Methods : \A i \in DOMAIN returnsOnCall[m] : returnsOnCall[m][i] \in Results
    /\ calls \in Nat

\* The mutex of a method is held by the caller that is recording its call, and
\* by no other.
Held ==
    /\ \A m \in Methods : mutex[m] # NoCaller =>
          caller[mutex[m]].pc = "record" /\ caller[mutex[m]].method = m
    /\ \A x \in Goroutines : caller[x].pc = "record" => mutex[caller[x].method] = x

\* ArgsForCall(i) shows these arguments.
Shown(args, i, arg) == i \in Nat /\ i + 1 \in DOMAIN args /\ args[i + 1] = arg

\* A call in progress knows its position and what was programmed for it.
Known(x) ==
    caller[x].pc # "outside" =>
        /\ caller[x].method \in Methods
        /\ Shown(argsForCall[caller[x].method], caller[x].index, caller[x].arg)
        /\ IF caller[x].index \in DOMAIN returnsOnCall[caller[x].method]
           THEN caller[x].specific = TRUE /\ caller[x].ret = returnsOnCall[caller[x].method][caller[x].index]
           ELSE caller[x].specific = FALSE

\* A call that has been answered was given what was programmed for it.
Right(a) ==
    /\ a.method \in Methods
    /\ Shown(argsForCall[a.method], a.index, a.arg)
    /\ a.result = Programmed(a.method, a.index)

\* Nothing is programmed any more once a test has made a call.
Quiet == calls = 0 => answered = {} /\ \A x \in Goroutines : caller[x].pc = "outside"

\* The calls that the test has counted are among the invocations.
Counted ==
    /\ counted.calls \in Nat
    /\ counted.calls > 0 => counted.method \in Methods /\ counted.calls <= Len(invocations[counted.method])

Inv ==
    /\ Shape /\ Held /\ Quiet /\ InvocationsAgree /\ Counted
    /\ \A x \in Goroutines : Known(x)
    /\ \A a \in answered : Right(a)
-----------------------------------------------------------------------------
\* A goroutine that is not in a method is there.
LEMMA OutsideShape == Outside \in Callers /\ Outside.pc = "outside"
BY DEF Outside, Callers

\* Recording a call moves no other.
LEMMA AppendShows ==
    ASSUME NEW args \in Seq(Nat), NEW e \in Nat, NEW j, NEW arg, Shown(args, j, arg)
    PROVE  Shown(Append(args, e), j, arg)
<1>1. j \in Nat /\ j + 1 \in 1 .. Len(args) /\ args[j + 1] = arg
  BY DEF Shown
<1>2. Len(Append(args, e)) = Len(args) + 1 /\ Append(args, e)[j + 1] = args[j + 1] /\ Append(args, e) \in Seq(Nat)
  BY <1>1
<1>3. j + 1 \in DOMAIN Append(args, e)
  BY <1>1, <1>2
<1> QED
  BY <1>1, <1>2, <1>3 DEF Shown

\* Programming happens before the first call, when nothing depends on it.
LEMMA ProgrammingInv ==
    ASSUME Inv, More, Shape' PROVE Inv'
<1>1. /\ calls = 0 /\ UNCHANGED <<argsForCall, invocations, mutex, caller, answered, counted, calls>>
      /\ answered = {} /\ \A x \in Goroutines : caller[x].pc = "outside"
  BY DEF More, Resting, Inv, Quiet
<1>2. Held' /\ Quiet' /\ InvocationsAgree' /\ Counted'
  BY <1>1 DEF Inv, Held, Quiet, InvocationsAgree, Counted
<1>3. /\ \A x \in Goroutines : Known(x)'
      /\ \A a \in answered' : Right(a)'
  BY <1>1 DEF Known
<1> QED
  BY <1>2, <1>3 DEF Inv

\* The caller that takes the lock appends its arguments at its own position.
LEMMA LockInv ==
    ASSUME NEW x \in Goroutines, NEW m \in Methods, Inv, Lock(x, m)
    PROVE  Inv'
<1> USE DEF Inv
<1> DEFINE i == Len(argsForCall[m])
           specific == i \in DOMAIN returnsOnCall[m]
           ret == IF specific THEN returnsOnCall[m][i] ELSE Zero
           me == [pc |-> "record", method |-> m, arg |-> calls + 1, index |-> i, specific |-> specific, ret |-> ret]
<1>1. /\ calls' = calls + 1 /\ mutex[m] = NoCaller /\ caller[x].pc = "outside"
      /\ mutex' = [mutex EXCEPT ![m] = x]
      /\ argsForCall' = [argsForCall EXCEPT ![m] = Append(argsForCall[m], calls + 1)]
      /\ UNCHANGED <<stub, returns, returnsOnCall, invocations, answered, counted>>
  BY OutsideShape DEF Lock, programs
<1>2. caller' = [caller EXCEPT ![x] = me]
  BY DEF Lock
<1>3. /\ calls \in Nat /\ argsForCall[m] \in Seq(Nat) /\ i \in Nat /\ calls + 1 \in Nat
      /\ argsForCall \in [Methods -> Seq(Nat)] /\ mutex \in [Methods -> Goroutines \cup {NoCaller}]
      /\ caller \in [Goroutines -> Callers]
  BY DEF Shape
<1>4. ret \in Results \cup {Zero}
  BY DEF Shape
<1>5. /\ me.pc = "record" /\ me.method = m /\ me.arg = calls + 1 /\ me.index = i /\ me.ret = ret
  OBVIOUS
<1>6. me \in Callers
  <2>1. specific \in BOOLEAN
    OBVIOUS
  <2> HIDE DEF specific, ret, i
  <2> QED
    BY <1>3, <1>4, <2>1 DEF Callers
<1>7. IF i \in DOMAIN returnsOnCall[m]
      THEN me.specific = TRUE /\ ret = returnsOnCall[m][i]
      ELSE me.specific = FALSE
  <2>1. me.specific = specific
    <3> HIDE DEF specific, ret, i
    <3> QED OBVIOUS
  <2>2. IF i \in DOMAIN returnsOnCall[m] THEN specific = TRUE ELSE specific = FALSE
    <3>1. specific \in BOOLEAN /\ (specific <=> i \in DOMAIN returnsOnCall[m])
      OBVIOUS
    <3> HIDE DEF specific, i
    <3>2. CASE i \in DOMAIN returnsOnCall[m]
      <4>1. specific = TRUE
        BY <3>1, <3>2, Zenon
      <4> QED BY <3>2, <4>1
    <3>3. CASE i \notin DOMAIN returnsOnCall[m]
      <4>1. specific = FALSE
        BY <3>1, <3>3, Zenon
      <4> QED BY <3>3, <4>1
    <3> QED
      BY <3>2, <3>3
  <2>3. i \in DOMAIN returnsOnCall[m] => ret = returnsOnCall[m][i]
    OBVIOUS
  <2> HIDE DEF me, specific, ret, i
  <2> QED
    BY <2>1, <2>2, <2>3
<1> HIDE DEF me, ret, specific
<1>8. caller'[x] = me /\ \A y \in Goroutines \ {x} : caller'[y] = caller[y]
  BY <1>2, <1>3
<1>9. /\ argsForCall'[m] = Append(argsForCall[m], calls + 1)
      /\ \A n \in Methods \ {m} : argsForCall'[n] = argsForCall[n]
      /\ mutex'[m] = x /\ \A n \in Methods \ {m} : mutex'[n] = mutex[n]
  BY <1>1, <1>3
<1>10. Shape'
  BY <1>1, <1>2, <1>3, <1>6 DEF Shape
<1>11. Held'
  <2>1. ASSUME NEW n \in Methods, mutex'[n] # NoCaller
        PROVE  caller'[mutex'[n]].pc = "record" /\ caller'[mutex'[n]].method = n
    <3>1. CASE n = m
      BY <1>5, <1>8, <1>9, <3>1
    <3>2. CASE n # m
      <4>1. mutex'[n] = mutex[n] /\ mutex[n] \in Goroutines \ {x}
        BY <1>1, <1>3, <1>9, <2>1, <3>2 DEF Held
      <4> QED
        BY <1>8, <2>1, <4>1 DEF Held
    <3> QED
      BY <3>1, <3>2
  <2>2. ASSUME NEW y \in Goroutines, caller'[y].pc = "record"
        PROVE  mutex'[caller'[y].method] = y
    <3>1. CASE y = x
      BY <1>5, <1>8, <1>9, <3>1
    <3>2. CASE y # x
      <4>1. caller'[y] = caller[y] /\ mutex[caller[y].method] = y /\ caller[y].method \in Methods
        BY <1>8, <2>2, <3>2 DEF Held, Known
      <4> QED
        BY <1>1, <1>9, <4>1, FakesAssumption
    <3> QED
      BY <3>1, <3>2
  <2> QED
    BY <2>1, <2>2 DEF Held
<1>12. Quiet' /\ Counted'
  BY <1>1, <1>3 DEF Quiet, Counted
<1>13. InvocationsAgree'
  <2> SUFFICES ASSUME NEW n \in Methods
               PROVE  argsForCall'[n] = invocations'[n] \o
                          (IF mutex'[n] = NoCaller THEN <<>> ELSE <<caller'[mutex'[n]].arg>>)
    BY DEF InvocationsAgree
  <2>1. argsForCall[n] = invocations[n] \o (IF mutex[n] = NoCaller THEN <<>> ELSE <<caller[mutex[n]].arg>>)
    BY DEF InvocationsAgree
  <2>2. CASE n = m
    <3>1. argsForCall[m] = invocations[m] /\ invocations[m] \in Seq(Nat)
      BY <1>1, <2>1, <2>2 DEF Shape
    <3>2. argsForCall'[m] = invocations[m] \o <<calls + 1>>
      BY <1>3, <1>9, <3>1
    <3>3. mutex'[n] = x /\ x # NoCaller /\ caller'[x].arg = calls + 1
      BY <1>5, <1>8, <1>9, <2>2, FakesAssumption
    <3> QED
      BY <1>1, <2>2, <3>2, <3>3
  <2>3. CASE n # m
    <3>1. mutex[n] # NoCaller => mutex[n] \in Goroutines \ {x}
      BY <1>1, <1>3 DEF Held
    <3> QED
      BY <1>1, <1>8, <1>9, <2>1, <2>3, <3>1
  <2> QED
    BY <2>2, <2>3
<1>14. ASSUME NEW n \in Methods, NEW j, NEW arg, Shown(argsForCall[n], j, arg)
       PROVE  Shown(argsForCall'[n], j, arg)
  BY <1>3, <1>9, <1>14, AppendShows
<1>15. ASSUME NEW y \in Goroutines PROVE Known(y)'
  <2>1. CASE y = x
    <3>1. Shown(argsForCall'[m], i, calls + 1)
      BY <1>3, <1>9 DEF Shown
    <3> HIDE DEF i
    <3> QED
      BY <1>1, <1>5, <1>7, <1>8, <2>1, <3>1 DEF Known
  <2>2. CASE y # x
    <3>1. caller'[y] = caller[y] /\ Known(y)
      BY <1>8, <2>2
    <3> QED
      BY <1>1, <3>1, <1>14 DEF Known
  <2> QED
    BY <2>1, <2>2
<1>16. ASSUME NEW a \in answered' PROVE Right(a)'
  <2>1. Right(a)
    BY <1>1
  <2> QED
    BY <1>1, <1>14, <2>1 DEF Right, Programmed
<1> QED
  BY <1>10, <1>11, <1>12, <1>13, <1>15, <1>16

\* The caller that holds the lock completes Invocations before it unlocks.
LEMMA RecordInv ==
    ASSUME NEW x \in Goroutines, NEW m \in Methods, Inv, Record(x, m)
    PROVE  Inv'
<1> USE DEF Inv
<1>1. /\ caller[x].pc = "record" /\ caller[x].method = m /\ mutex[m] = x
      /\ invocations' = [invocations EXCEPT ![m] = Append(invocations[m], caller[x].arg)]
      /\ mutex' = [mutex EXCEPT ![m] = NoCaller]
      /\ caller' = [caller EXCEPT ![x] = [caller[x] EXCEPT !.pc = "answer"]]
      /\ UNCHANGED <<stub, returns, returnsOnCall, argsForCall, answered, counted, calls>>
  BY DEF Record, In, programs, Held
<1>2. /\ caller \in [Goroutines -> Callers] /\ caller[x] \in Callers /\ caller[x].arg \in Nat
      /\ invocations \in [Methods -> Seq(Nat)] /\ mutex \in [Methods -> Goroutines \cup {NoCaller}]
  BY DEF Shape, Callers
<1>3. caller'[x] = [caller[x] EXCEPT !.pc = "answer"] /\ \A y \in Goroutines \ {x} : caller'[y] = caller[y]
  BY <1>1, <1>2
<1>4. /\ caller'[x] \in Callers /\ caller'[x].pc = "answer" /\ caller'[x].method = m
      /\ caller'[x].arg = caller[x].arg /\ caller'[x].index = caller[x].index
      /\ caller'[x].specific = caller[x].specific /\ caller'[x].ret = caller[x].ret
  BY <1>1, <1>2, <1>3 DEF Callers
<1>5. /\ mutex'[m] = NoCaller /\ \A n \in Methods \ {m} : mutex'[n] = mutex[n]
      /\ invocations'[m] = Append(invocations[m], caller[x].arg)
      /\ \A n \in Methods \ {m} : invocations'[n] = invocations[n]
  BY <1>1, <1>2
<1>6. Shape'
  <2>1. caller' \in [Goroutines -> Callers]
    BY <1>1, <1>2, <1>3, <1>4
  <2> QED
    BY <1>1, <1>2, <2>1 DEF Shape
<1>7. \A n \in Methods \ {m} : mutex[n] # x
  BY <1>1, FakesAssumption DEF Held
<1>8. Held'
  <2>1. ASSUME NEW n \in Methods, mutex'[n] # NoCaller
        PROVE  caller'[mutex'[n]].pc = "record" /\ caller'[mutex'[n]].method = n
    <3>1. n # m /\ mutex'[n] = mutex[n] /\ mutex[n] \in Goroutines \ {x}
      BY <1>2, <1>5, <1>7, <2>1
    <3> QED
      BY <1>3, <2>1, <3>1 DEF Held
  <2>2. ASSUME NEW y \in Goroutines, caller'[y].pc = "record"
        PROVE  mutex'[caller'[y].method] = y
    <3>1. y # x /\ caller'[y] = caller[y] /\ mutex[caller[y].method] = y /\ caller[y].method \in Methods
      <4>1. y # x
        BY <1>4, <2>2
      <4>2. caller'[y] = caller[y] /\ caller[y].pc = "record" /\ Known(y)
        BY <1>3, <2>2, <4>1
      <4> QED
        BY <4>1, <4>2 DEF Held, Known
    <3> QED
      BY <1>1, <1>5, <3>1
  <2> QED
    BY <2>1, <2>2 DEF Held
<1>9. Quiet' /\ Counted'
  <2>1. \A n \in Methods : Len(invocations[n]) \in Nat /\ Len(invocations'[n]) >= Len(invocations[n])
    BY <1>2, <1>5
  <2>2. counted.calls \in Nat
    BY DEF Counted
  <2> QED
    BY <1>1, <2>1, <2>2 DEF Quiet, Counted
<1>10. InvocationsAgree'
  <2> SUFFICES ASSUME NEW n \in Methods
               PROVE  argsForCall'[n] = invocations'[n] \o
                          (IF mutex'[n] = NoCaller THEN <<>> ELSE <<caller'[mutex'[n]].arg>>)
    BY DEF InvocationsAgree
  <2>1. argsForCall[n] = invocations[n] \o (IF mutex[n] = NoCaller THEN <<>> ELSE <<caller[mutex[n]].arg>>)
    BY DEF InvocationsAgree
  <2>2. CASE n = m
    <3>1. argsForCall[m] = invocations[m] \o <<caller[x].arg>> /\ invocations[m] \in Seq(Nat)
      BY <1>1, <1>2, <2>1, <2>2, FakesAssumption
    <3>2. argsForCall[m] = invocations'[m] /\ invocations'[m] \in Seq(Nat)
      BY <1>2, <1>5, <3>1
    <3>3. invocations'[m] \o <<>> = invocations'[m]
      BY <3>2
    <3> QED
      BY <1>1, <1>5, <2>2, <3>2, <3>3
  <2>3. CASE n # m
    BY <1>1, <1>2, <1>3, <1>5, <1>7, <2>1, <2>3
  <2> QED
    BY <2>2, <2>3
<1>11. ASSUME NEW y \in Goroutines PROVE Known(y)'
  <2>1. CASE y = x
    <3>1. Known(x) /\ caller[x].pc # "outside"
      BY <1>1
    <3> QED
      BY <1>1, <1>4, <2>1, <3>1 DEF Known
  <2>2. CASE y # x
    BY <1>1, <1>3, <2>2 DEF Known
  <2> QED
    BY <2>1, <2>2
<1>12. \A a \in answered' : Right(a)'
  BY <1>1 DEF Right, Programmed
<1> QED
  BY <1>6, <1>8, <1>9, <1>10, <1>11, <1>12

\* The answer is the one that was looked up under the lock, whatever calls
\* have been recorded since.
LEMMA AnswerInv ==
    ASSUME NEW x \in Goroutines, NEW m \in Methods, Inv, Answer(x, m)
    PROVE  Inv'
<1> USE DEF Inv
<1> DEFINE result == IF stub[m] THEN "stub" ELSE IF caller[x].specific THEN caller[x].ret ELSE returns[m]
           given == [method |-> m, index |-> caller[x].index, arg |-> caller[x].arg, result |-> result]
<1>1. /\ caller[x].pc = "answer" /\ caller[x].method = m
      /\ caller' = [caller EXCEPT ![x] = Outside]
      /\ UNCHANGED <<stub, returns, returnsOnCall, argsForCall, invocations, mutex, counted, calls>>
  BY DEF Answer, Return, In, programs
<1>2. answered' = answered \cup {given}
  BY DEF Answer, Return
<1>3. caller \in [Goroutines -> Callers]
  BY DEF Shape
<1>4. caller'[x] = Outside /\ \A y \in Goroutines \ {x} : caller'[y] = caller[y]
  BY <1>1, <1>3
<1>5. Shape'
  BY <1>1, <1>3, OutsideShape DEF Shape
<1>6. \A n \in Methods : mutex[n] # x
  BY <1>1, FakesAssumption DEF Held
<1>7. Held'
  <2>1. ASSUME NEW n \in Methods, mutex[n] # NoCaller
        PROVE  mutex[n] \in Goroutines \ {x}
    BY <1>6, <2>1 DEF Shape
  <2> QED
    BY <1>1, <1>4, <2>1, OutsideShape DEF Held
<1>8. calls # 0 /\ Quiet' /\ Counted'
  BY <1>1 DEF Quiet, Counted
<1>9. InvocationsAgree'
  <2> SUFFICES ASSUME NEW n \in Methods
               PROVE  argsForCall'[n] = invocations'[n] \o
                          (IF mutex'[n] = NoCaller THEN <<>> ELSE <<caller'[mutex'[n]].arg>>)
    BY DEF InvocationsAgree
  <2>1. argsForCall[n] = invocations[n] \o (IF mutex[n] = NoCaller THEN <<>> ELSE <<caller[mutex[n]].arg>>)
    BY DEF InvocationsAgree
  <2>2. mutex[n] # NoCaller => caller'[mutex[n]] = caller[mutex[n]]
    BY <1>4, <1>6 DEF Shape
  <2> QED
    BY <1>1, <2>1, <2>2
<1>10. ASSUME NEW y \in Goroutines PROVE Known(y)'
  BY <1>1, <1>4, OutsideShape DEF Known
<1>11. ASSUME NEW a \in answered' PROVE Right(a)'
  <2>1. CASE a = given
    <3>1. /\ a.method = m /\ a.index = caller[x].index /\ a.arg = caller[x].arg /\ a.result = result
      <4> HIDE DEF result
      <4> QED BY <2>1
    <3>2. /\ Shown(argsForCall[m], caller[x].index, caller[x].arg)
          /\ IF caller[x].index \in DOMAIN returnsOnCall[m]
             THEN caller[x].specific = TRUE /\ caller[x].ret = returnsOnCall[m][caller[x].index]
             ELSE caller[x].specific = FALSE
      BY <1>1 DEF Known
    <3>3. result = Programmed(m, caller[x].index)
      BY <3>2 DEF Programmed
    <3> HIDE DEF result
    <3> QED
      BY <1>1, <3>1, <3>2, <3>3 DEF Right, Programmed
  <2>2. CASE a \in answered
    BY <1>1, <2>2 DEF Right, Programmed
  <2> QED
    BY <1>2, <2>1, <2>2
<1> QED
  BY <1>5, <1>7, <1>8, <1>9, <1>10, <1>11

\* While the test holds RLock no caller is between ArgsForCall and Invocations.
LEMMA CallCountInv ==
    ASSUME NEW m \in Methods, Inv, CallCount(m)
    PROVE  Inv'
<1> USE DEF Inv
<1>1. /\ mutex[m] = NoCaller /\ counted' = [method |-> m, calls |-> Len(argsForCall[m])]
      /\ UNCHANGED <<stub, returns, returnsOnCall, argsForCall, invocations, mutex, caller, answered, calls>>
  BY DEF CallCount, programs
<1>2. argsForCall[m] = invocations[m] \o <<>> /\ invocations[m] \in Seq(Nat) /\ argsForCall[m] \in Seq(Nat)
  BY <1>1 DEF InvocationsAgree, Shape
<1>3. Len(argsForCall[m]) \in Nat /\ Len(argsForCall[m]) <= Len(invocations[m])
  BY <1>2
<1>4. counted'.method = m /\ counted'.calls = Len(argsForCall[m])
  BY <1>1
<1>5. Counted'
  BY <1>1, <1>3, <1>4 DEF Counted
<1>6. Shape'
  BY <1>1, <1>3 DEF Shape
<1>7. Held' /\ Quiet' /\ InvocationsAgree'
  BY <1>1 DEF Held, Quiet, InvocationsAgree
<1>8. /\ \A x \in Goroutines : Known(x)'
      /\ \A a \in answered' : Right(a)'
  BY <1>1 DEF Known, Right, Programmed
<1> QED
  BY <1>5, <1>6, <1>7, <1>8

\* The methods of a fake preserve the invariant, with results and without.
LEMMA MethodInv ==
    ASSUME NEW m \in Methods, Inv, Method(m) \/ Procedure(m)
    PROVE  Inv'
<1>1. CASE \E x \in Goroutines : Body(x, m)
  BY <1>1, LockInv, RecordInv, AnswerInv DEF Body
<1>2. CASE Stub(m)
  <2>1. More /\ UNCHANGED returnsOnCall
    BY <1>2 DEF Stub
  <2>2. Shape'
    BY <2>1 DEF More, Inv, Shape
  <2> QED
    BY <2>1, <2>2, ProgrammingInv
<1>3. ASSUME NEW r \in Results, Returns(m, r) PROVE Inv'
  <2>1. More /\ UNCHANGED returnsOnCall
    BY <1>3 DEF Returns
  <2>2. Shape'
    BY <2>1 DEF More, Inv, Shape
  <2> QED
    BY <2>1, <2>2, ProgrammingInv
<1>4. ASSUME NEW r \in Results, NEW i, ReturnsOnCall(m, i, r) PROVE Inv'
  <2>1. More /\ returnsOnCall' = [returnsOnCall EXCEPT ![m] = Put(returnsOnCall[m], i, r)]
    BY <1>4 DEF ReturnsOnCall
  <2>2. /\ DOMAIN returnsOnCall' = Methods
        /\ \A n \in Methods : \A j \in DOMAIN returnsOnCall'[n] : returnsOnCall'[n][j] \in Results
    BY <2>1 DEF Inv, Shape, Put
  <2>3. Shape'
    BY <2>1, <2>2 DEF More, Inv, Shape
  <2> QED
    BY <2>1, <2>3, ProgrammingInv
<1>5. CASE CallCount(m)
  BY <1>5, CallCountInv
<1> QED
  BY <1>1, <1>2, <1>3, <1>4, <1>5 DEF Method, Procedure
-----------------------------------------------------------------------------
NewFake ==
    /\ argsForCall = Fresh(<<>>) /\ invocations = Fresh(<<>>) /\ returnsOnCall = Fresh(EmptyMap)
    /\ mutex = Fresh(NoCaller)
    /\ caller \in [Goroutines -> Callers] /\ \A x \in Goroutines : caller[x].pc = "outside"
    /\ answered = {} /\ calls = 0 /\ counted = NotCounted

\* A fake that has just been made has seen no call.
LEMMA FreshInv == NewFake => Inv
<1> SUFFICES ASSUME NewFake PROVE Inv
  OBVIOUS
<1> USE DEF NewFake
<1>1. Shape
  BY DEF Fresh, Shape, EmptyMap
<1>2. Held /\ Quiet /\ Counted
  <2>1. counted.calls = 0
    BY DEF NotCounted
  <2>2. Counted
    BY <2>1 DEF Counted
  <2> QED
    BY <2>2 DEF Fresh, Held, Quiet
<1>3. InvocationsAgree
  <2> SUFFICES ASSUME NEW n \in Methods
               PROVE  argsForCall[n] = invocations[n] \o
                          (IF mutex[n] = NoCaller THEN <<>> ELSE <<caller[mutex[n]].arg>>)
    BY DEF InvocationsAgree
  <2>1. argsForCall[n] = <<>> /\ invocations[n] = <<>> /\ mutex[n] = NoCaller
    BY DEF Fresh
  <2> QED
    BY <2>1
<1>4. \A x \in Goroutines : Known(x)
  BY DEF Known
<1> QED
  BY <1>1, <1>2, <1>3, <1>4 DEF Inv

\* The fakes of a first test are new.
LEMMA InitInv == Init => Inv
<1> SUFFICES ASSUME Init PROVE Inv
  OBVIOUS
<1>1. caller \in [Goroutines -> Callers] /\ \A x \in Goroutines : caller[x].pc = "outside"
  BY OutsideShape DEF Init
<1> QED
  BY <1>1, FreshInv DEF Init, NewFake

\* Every step of a test preserves the invariant.
LEMMA NextInv == Inv /\ [Next]_vars => Inv'
<1> SUFFICES ASSUME Inv, [Next]_vars PROVE Inv'
  OBVIOUS
<1>1. CASE BulkSyncServer
  BY <1>1, MethodInv, FakesAssumption
  DEF BulkSyncServer, SendAndClose, Recv, SetHeader, SendHeader, SetTrailer, Context, SendMsg, RecvMsg
<1>2. CASE Config
  BY <1>2, MethodInv, FakesAssumption
  DEF Config, CreateDestinationRuleResources, CreateGatewayResources, CreateServiceEntryResources,
      CreateSidecarResources, CreateVirtualServiceResources, EmptyResponse
<1>3. CASE BeforeEach
  <2>1. /\ caller' \in [Goroutines -> Callers]
        /\ \A x \in Goroutines : caller'[x].pc = "outside"
    BY <1>3, OutsideShape DEF BeforeEach, Inv, Shape
  <2>2. mutex' = Fresh(NoCaller)
    <3>1. \A m \in Methods : mutex[m] = NoCaller
      BY <1>3, OutsideShape DEF BeforeEach, Inv, Shape, Held
    <3> QED
      BY <1>3, <3>1 DEF BeforeEach, Inv, Shape, Fresh
  <2>3. /\ argsForCall' = Fresh(<<>>) /\ invocations' = Fresh(<<>>) /\ returnsOnCall' = Fresh(EmptyMap)
        /\ answered' = {} /\ calls' = 0 /\ counted' = NotCounted
    BY <1>3 DEF BeforeEach
  <2>4. NewFake'
    BY <2>1, <2>2, <2>3 DEF NewFake, Fresh, NotCounted
  <2> QED
    BY <2>4, FreshInv, PTL
<1>4. CASE UNCHANGED vars
  BY <1>4 DEF vars, programs, Inv, Shape, Held, Quiet, InvocationsAgree, Known, Right, Programmed, Counted
<1> QED
  BY <1>1, <1>2, <1>3, <1>4 DEF Next

\* Inv holds in every reachable state.
THEOREM InductiveInvariant == Spec => []Inv
BY InitInv, NextInv, PTL DEF Spec

\* The i-th programmed result goes to the call that ArgsForCall(i) shows,
\* however many goroutines call the fake at the same time.
THEOREM AnswersRight == Spec => []AnswersMatch
<1>1. Inv => AnswersMatch
  BY DEF Inv, AnswersMatch, Right, Shown
<1> QED
  BY <1>1, InductiveInvariant, PTL

\* Invocations agrees with ArgsForCall, but for the call whose caller holds the
\* lock.
THEOREM InvocationsRight == Spec => []InvocationsAgree
<1>1. Inv => InvocationsAgree
  BY DEF Inv
<1> QED
  BY <1>1, InductiveInvariant, PTL

\* A count that a test polls while the calls go on includes only calls that are
\* recorded in ArgsForCall and in Invocations alike, and it stays good.
THEOREM CountsRight == Spec => []CountedIsRecorded
<1>1. Inv => CountedIsRecorded
  <2> SUFFICES ASSUME Inv, NEW i \in 1 .. counted.calls
               PROVE  /\ i \in DOMAIN invocations[counted.method]
                      /\ invocations[counted.method][i] = argsForCall[counted.method][i]
    BY DEF CountedIsRecorded
  <2> DEFINE n == counted.method
             more == IF mutex[n] = NoCaller THEN <<>> ELSE <<caller[mutex[n]].arg>>
  <2>1. n \in Methods /\ counted.calls \in Nat /\ counted.calls <= Len(invocations[n])
    BY DEF Inv, Shape, Counted
  <2>2. argsForCall[n] = invocations[n] \o more /\ invocations[n] \in Seq(Nat)
    BY <2>1 DEF Inv, InvocationsAgree, Shape
  <2>3. more \in Seq(Nat)
    <3>1. CASE mutex[n] = NoCaller
      BY <3>1
    <3>2. CASE mutex[n] # NoCaller
      <4>1. mutex[n] \in Goroutines
        BY <2>1, <3>2 DEF Inv, Shape
      <4>2. caller[mutex[n]].arg \in Nat
        BY <4>1 DEF Inv, Shape, Callers
      <4> QED
        BY <3>2, <4>2
    <3> QED
      BY <3>1, <3>2
  <2> HIDE DEF n, more
  <2>4. i \in 1 .. Len(invocations[n])
    BY <2>1, <2>2 DEF n
  <2>5. invocations[n][i] = argsForCall[n][i]
    BY <2>2, <2>3, <2>4
  <2> QED
    BY <2>2, <2>4, <2>5 DEF n
<1> QED
  BY <1>1, InductiveInvariant, PTL
=============================================================================
