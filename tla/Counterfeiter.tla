--------------------------- MODULE Counterfeiter ---------------------------
(***************************************************************************)
(* The generated fakes that the tests of copilot rely on, here those of    *)
(* the bulk sync stream (testhelpers/fakebulksyncserver.go) and of the     *)
(* Istio resources (snapshot/fakes/config.go).  A test programs what the   *)
(* methods return, lets goroutines call them, polls how often they were    *)
(* called while the calls go on, and then reads their arguments.           *)
(*                                                                         *)
(* Programming happens while no call is in progress: in the fake of the    *)
(* stream it takes no lock, and in both a stub may vanish between the test *)
(* for nil and the call.  Invocations takes the locks in the opposite      *)
(* order of the methods, so it may only be used then.                      *)
(***************************************************************************)
EXTENDS GoMap, Integers, Sequences, SequencesExt

CONSTANTS
    Goroutines,     \* the callers
    Methods,        \* of the fakes
    Results,        \* values a test programs
    Zero,           \* the zero value of a result
    NoCaller,       \* a mutex that is free
    MaxCalls,       \* bound: calls of a test
    MaxProgrammed   \* bound: programmed results of a test

\* Methods holds those of the two fakes, and no goroutine is nobody.
ASSUME FakesAssumption ==
    /\ {"SendAndClose", "Recv", "SetHeader", "SendHeader", "SetTrailer", "Context", "SendMsg", "RecvMsg",
        "CreateDestinationRuleResources", "CreateGatewayResources", "CreateServiceEntryResources",
        "CreateSidecarResources", "CreateVirtualServiceResources", "EmptyResponse"} \subseteq Methods
    /\ NoCaller \notin Goroutines

VARIABLES
    stub,           \* fake.mStub, TRUE if set
    returns,        \* fake.mReturns
    returnsOnCall,  \* fake.mReturnsOnCall, by index
    argsForCall,    \* fake.mArgsForCall; the argument is the number of the call
    invocations,
    mutex,          \* fake.mMutex
    caller,         \* where each goroutine is in a method, with its locals
    answered,       \* the calls that have returned
    counted,        \* the calls that the test was shown when it last looked
    calls, programmed

programs == <<stub, returns, returnsOnCall, programmed>>
vars == <<programs, argsForCall, invocations, mutex, caller, answered, counted, calls>>

Outside == [pc |-> "outside", method |-> "", arg |-> 0, index |-> 0, specific |-> FALSE, ret |-> Zero]
NotCounted == [method |-> "", calls |-> 0]
Resting == calls = 0 /\ \A x \in Goroutines : caller[x] = Outside
-----------------------------------------------------------------------------
(***************************************************************************)
(* Programming.  A new result removes the stub.                            *)
(***************************************************************************)
More == Resting /\ programmed < MaxProgrammed /\ programmed' = programmed + 1
        /\ UNCHANGED <<argsForCall, invocations, mutex, caller, answered, counted, calls>>

Stub(m) == More /\ stub' = [stub EXCEPT ![m] = TRUE] /\ UNCHANGED <<returns, returnsOnCall>>

Returns(m, r) ==
    /\ More
    /\ stub' = [stub EXCEPT ![m] = FALSE]
    /\ returns' = [returns EXCEPT ![m] = r]
    /\ UNCHANGED returnsOnCall

ReturnsOnCall(m, i, r) ==
    /\ More
    /\ stub' = [stub EXCEPT ![m] = FALSE]
    /\ returnsOnCall' = [returnsOnCall EXCEPT ![m] = Put(@, i, r)]
    /\ UNCHANGED returns
-----------------------------------------------------------------------------
(***************************************************************************)
(* A call: under the lock of the method the result for this call is looked *)
(* up and the arguments are recorded, then in the map of all invocations,  *)
(* which has a lock of its own; the answer is given without a lock.        *)
(***************************************************************************)
Lock(x, m) ==
    /\ calls < MaxCalls /\ calls' = calls + 1
    /\ caller[x] = Outside /\ mutex[m] = NoCaller
    /\ mutex' = [mutex EXCEPT ![m] = x]
    /\ LET i == Len(argsForCall[m])
           specific == i \in DOMAIN returnsOnCall[m]
       IN  caller' = [caller EXCEPT ![x] = [pc |-> "record", method |-> m, arg |-> calls + 1, index |-> i,
                         specific |-> specific, ret |-> IF specific THEN returnsOnCall[m][i] ELSE Zero]]
    /\ argsForCall' = [argsForCall EXCEPT ![m] = Append(@, calls + 1)]
    /\ UNCHANGED <<programs, invocations, answered, counted>>

In(x, m, pc) == caller[x].pc = pc /\ caller[x].method = m

\* Faulty variant: Unlock comes before recordInvocation.
UnlockFirst(x, m) ==
    \/ /\ In(x, m, "record") /\ mutex[m] = x
       /\ mutex' = [mutex EXCEPT ![m] = NoCaller]
       /\ UNCHANGED <<programs, argsForCall, invocations, caller, answered, counted, calls>>
    \/ /\ In(x, m, "record") /\ mutex[m] # x
       /\ invocations' = [invocations EXCEPT ![m] = Append(@, caller[x].arg)]
       /\ caller' = [caller EXCEPT ![x].pc = "answer"]
       /\ UNCHANGED <<programs, argsForCall, mutex, answered, counted, calls>>

\* recordInvocation and Unlock.
Record(x, m) ==
    /\ In(x, m, "record")
    /\ invocations' = [invocations EXCEPT ![m] = Append(@, caller[x].arg)]
    /\ mutex' = [mutex EXCEPT ![m] = NoCaller]
    /\ caller' = [caller EXCEPT ![x].pc = "answer"]
    /\ UNCHANGED <<programs, argsForCall, answered, counted, calls>>

Return(x, m, result) ==
    /\ In(x, m, "answer")
    /\ caller' = [caller EXCEPT ![x] = Outside]
    /\ answered' = answered \cup {[method |-> m, index |-> caller[x].index, arg |-> caller[x].arg, result |-> result]}
    /\ UNCHANGED <<programs, argsForCall, invocations, mutex, counted, calls>>

\* Faulty variant: the index is taken from the length after the unlock.
AnswerByCount(x, m) ==
    LET i == Len(argsForCall[m]) - 1 IN
    Return(x, m, IF stub[m] THEN "stub"
                 ELSE IF i \in DOMAIN returnsOnCall[m] THEN returnsOnCall[m][i] ELSE returns[m])

Answer(x, m) ==
    Return(x, m, IF stub[m] THEN "stub" ELSE IF caller[x].specific THEN caller[x].ret ELSE returns[m])

Body(x, m) == Lock(x, m) \/ Record(x, m) \/ Answer(x, m)

\* Faulty variant: the arguments are counted without the lock.
CallCountUnlocked(m) ==
    /\ argsForCall[m] # <<>>
    /\ counted' = [method |-> m, calls |-> Len(argsForCall[m])]
    /\ UNCHANGED <<programs, argsForCall, invocations, mutex, caller, answered, calls>>

\* The test reads the number of calls under RLock, at any time.  Zero tells it
\* nothing, and it polls again.
CallCount(m) ==
    /\ mutex[m] = NoCaller /\ argsForCall[m] # <<>>
    /\ counted' = [method |-> m, calls |-> Len(argsForCall[m])]
    /\ UNCHANGED <<programs, argsForCall, invocations, mutex, caller, answered, calls>>

\* A method with results, and one without, which has nothing but a stub.
Method(m) ==
    \/ Stub(m) \/ CallCount(m)
    \/ \E r \in Results : Returns(m, r) \/ \E i \in 0 .. MaxCalls - 1 : ReturnsOnCall(m, i, r)
    \/ \E x \in Goroutines : Body(x, m)
Procedure(m) == Stub(m) \/ CallCount(m) \/ \E x \in Goroutines : Body(x, m)
-----------------------------------------------------------------------------
(***************************************************************************)
(* FakeCloudControllerCopilot_BulkSyncServer.                              *)
(***************************************************************************)
SendAndClose == Method("SendAndClose")
Recv         == Method("Recv")
SetHeader    == Method("SetHeader")
SendHeader   == Method("SendHeader")
SetTrailer   == Procedure("SetTrailer")
Context      == Method("Context")
SendMsg      == Method("SendMsg")
RecvMsg      == Method("RecvMsg")

BulkSyncServer == SendAndClose \/ Recv \/ SetHeader \/ SendHeader \/ SetTrailer \/ Context \/ SendMsg \/ RecvMsg
-----------------------------------------------------------------------------
(***************************************************************************)
(* Config.                                                                 *)
(***************************************************************************)
CreateDestinationRuleResources == Method("CreateDestinationRuleResources")
CreateGatewayResources         == Method("CreateGatewayResources")
CreateServiceEntryResources    == Method("CreateServiceEntryResources")
CreateSidecarResources         == Method("CreateSidecarResources")
CreateVirtualServiceResources  == Method("CreateVirtualServiceResources")
EmptyResponse                  == Method("EmptyResponse")

Config ==
    \/ CreateDestinationRuleResources \/ CreateGatewayResources \/ CreateServiceEntryResources
    \/ CreateSidecarResources \/ CreateVirtualServiceResources \/ EmptyResponse
-----------------------------------------------------------------------------
Fresh(v) == [m \in Methods |-> v]

Init ==
    /\ stub = Fresh(FALSE) /\ returns = Fresh(Zero) /\ returnsOnCall = Fresh(EmptyMap)
    /\ argsForCall = Fresh(<<>>) /\ invocations = Fresh(<<>>)
    /\ mutex = Fresh(NoCaller)
    /\ caller = [x \in Goroutines |-> Outside]
    /\ answered = {} /\ counted = NotCounted
    /\ calls = 0 /\ programmed = 0

\* The next test makes a new fake.
BeforeEach ==
    /\ \A x \in Goroutines : caller[x] = Outside
    /\ stub' = Fresh(FALSE) /\ returns' = Fresh(Zero) /\ returnsOnCall' = Fresh(EmptyMap)
    /\ argsForCall' = Fresh(<<>>) /\ invocations' = Fresh(<<>>)
    /\ answered' = {} /\ counted' = NotCounted
    /\ calls' = 0 /\ programmed' = 0
    /\ UNCHANGED <<mutex, caller>>

Next == BulkSyncServer \/ Config \/ BeforeEach

Spec == Init /\ [][Next]_vars
-----------------------------------------------------------------------------
(***************************************************************************)
(* Properties.                                                             *)
(***************************************************************************)
\* What a test has programmed for a call.
Programmed(m, i) ==
    IF stub[m] THEN "stub" ELSE IF i \in DOMAIN returnsOnCall[m] THEN returnsOnCall[m][i] ELSE returns[m]

\* However the callers overlap, the i-th programmed result goes to the call
\* whose argument ArgsForCall(i) shows, and to no other.
AnswersMatch ==
    \A a \in answered : /\ argsForCall[a.method][a.index + 1] = a.arg
                        /\ a.result = Programmed(a.method, a.index)

\* Invocations shows the calls of a method in the order of ArgsForCall: it may
\* lack the one whose caller holds the lock, and nothing else.
InvocationsAgree ==
    \A m \in Methods : argsForCall[m] = invocations[m] \o
        (IF mutex[m] = NoCaller THEN <<>> ELSE <<caller[mutex[m]].arg>>)

\* A count that a test has polled while the calls go on stays good: every call
\* it includes has been recorded completely, in ArgsForCall and in Invocations,
\* so that the test may go on to read its arguments.
CountedIsRecorded ==
    \A i \in 1 .. counted.calls :
        /\ i \in DOMAIN invocations[counted.method]
        /\ invocations[counted.method][i] = argsForCall[counted.method][i]
=============================================================================
