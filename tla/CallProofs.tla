------------------------------ MODULE CallProofs ------------------------------
(***************************************************************************)
(* The thread that calls and is called back, and the values of one call.   *)
(*                                                                         *)
(* ThreadInv is an inductive invariant of NativeThread, for every          *)
(* threshold and every depth of nested calls and callbacks.                *)
(* InvocationInv is an inductive invariant of Invocation, for every set of *)
(* machines and of signatures: what Java puts into words or registers C    *)
(* takes out as it was meant, object by object and byte by byte, and the   *)
(* result the same way back.                                               *)
(***************************************************************************)
EXTENDS NativeThread, Invocation, FiniteSetTheorems, TLAPS

(***************************************************************************)
(* The thread                                                              *)
(***************************************************************************)
\* Frames of both kinds are frames.
LEMMA FrameTypes ==
  /\ \A s, t \in BOOLEAN, p \in {"buffer", "pointers"} : CallFrame(s, p, t) \in Frames
  /\ \A d \in BOOLEAN : ClosureFrame(d) \in Frames
BY DEF CallFrame, ClosureFrame, Frames

\* A new thread satisfies the invariant.
LEMMA InitInv == ThreadInit => ThreadInv
<1> SUFFICES ASSUME ThreadInit PROVE ThreadInv
  OBVIOUS
<1> USE NativeThreadAssumption DEF ThreadInit
<1>1. ThreadTypeOK
  <2> DEFINE c == CallFrame(FALSE, "buffer", FALSE)
  <2>1. c \in Frames
    BY DEF CallFrame, Frames
  <2>2. frame = [i \in 1 .. MaxDepth |-> c]
    OBVIOUS
  <2> HIDE DEF c
  <2>3. frame \in [1 .. MaxDepth -> Frames]
    BY <2>1, <2>2
  <2>4. attachedVm \in BOOLEAN /\ pending \in BOOLEAN /\ lost \in BOOLEAN
    BY Zenon
  <2>5. attached \in {"vm", "jffi", "other", "no"}
    OBVIOUS
  <2>6. depth \in 0 .. MaxDepth /\ attachCount \in Nat
    OBVIOUS
  <2> QED BY <2>3, <2>6 DEF ThreadTypeOK
<1>2. Alternates
  BY DEF Alternates
<1>3. DetachInv
  BY DEF DetachInv
<1>4. ThrewInv
  BY DEF ThrewInv
<1>5. AttachedWhileJavaActive
  BY DEF AttachedWhileJavaActive, JavaActive
<1>6. NoPendingInJava
  BY DEF NoPendingInJava
<1>7. AttachmentAccounted
  BY DEF AttachmentAccounted
<1>8. LostOnlyIfKept
  BY DEF LostOnlyIfKept
<1> QED BY <1>1, <1>2, <1>3, <1>4, <1>5, <1>6, <1>7, <1>8 DEF ThreadInv

\* A call from Java pushes a call frame.
LEMMA InvokeInv ==
  ASSUME ThreadInv, NEW saves \in BOOLEAN, NEW path \in {"buffer", "pointers"},
         Invoke(saves, path)
  PROVE  ThreadInv'
<1> USE NativeThreadAssumption DEF ThreadInv, Invoke, threadData, history
<1>1. ThreadTypeOK'
  BY DEF Push, Frames, CallFrame, ThreadTypeOK
<1>2. Alternates'
  BY DEF Alternates, InJava, Push, CallFrame, ThreadTypeOK
<1>3. DetachInv'
  BY DEF DetachInv, Push, CallFrame, ThreadTypeOK
<1>4. ThrewInv'
  BY DEF ThrewInv, InNative, Push, CallFrame, ThreadTypeOK
<1>5. AttachedWhileJavaActive'
  BY DEF ThreadTypeOK, InJava, JavaActive, AttachedWhileJavaActive
<1>6. NoPendingInJava'
  BY DEF ThreadTypeOK, NoPendingInJava
<1>7. AttachmentAccounted'
  BY DEF ThreadTypeOK, Push, AttachmentAccounted
<1>8. LostOnlyIfKept'
  BY DEF ThreadTypeOK, LostOnlyIfKept
<1> QED BY <1>1, <1>2, <1>3, <1>4, <1>5, <1>6, <1>7, <1>8

\* A return to Java delivers the pending exception.
LEMMA InvokeReturnInv ==
  ASSUME ThreadInv, InvokeReturn
  PROVE  ThreadInv'
<1> USE NativeThreadAssumption DEF ThreadInv, InvokeReturn, SavedError, threadData, history
<1>1. ThreadTypeOK'
  <2>1. error' \in Errnos /\ lastErrno' \in Errnos
    BY DEF ThreadTypeOK
  <2>2. lost' \in BOOLEAN /\ pending' \in BOOLEAN
    OBVIOUS
  <2>3. depth' \in 0 .. MaxDepth
    BY DEF ThreadTypeOK
  <2> QED BY <2>2 DEF ThreadTypeOK
<1>2. Alternates'
  BY DEF Alternates, ThreadTypeOK
<1>3. DetachInv'
  BY DEF DetachInv, Alternates, InNative, ThreadTypeOK
<1>4. ThrewInv'
  BY DEF ThrewInv, Alternates, InNative, ThreadTypeOK
<1>5. AttachedWhileJavaActive'
  BY DEF ThreadTypeOK, JavaActive, AttachedWhileJavaActive
<1>6. NoPendingInJava'
  BY DEF ThreadTypeOK, NoPendingInJava
<1>7. AttachmentAccounted'
  BY DEF ThreadTypeOK, Alternates, DetachInv, InNative, AttachmentAccounted
<1>8. LostOnlyIfKept'
  BY DEF ThreadTypeOK, ThrewInv, InNative, LostOnlyIfKept
<1> QED BY <1>1, <1>2, <1>3, <1>4, <1>5, <1>6, <1>7, <1>8

\* setLastError changes errno and its saved value only.
LEMMA SetLastErrorInv ==
  ASSUME ThreadInv, NEW e \in Errnos, SetLastError(e)
  PROVE  ThreadInv'
<1> USE NativeThreadAssumption DEF ThreadInv, SetLastError, threadData, history
<1>1. ThreadTypeOK'
  BY DEF ThreadTypeOK
<1>2. Alternates'
  BY DEF Alternates
<1>3. DetachInv'
  BY DEF DetachInv
<1>4. ThrewInv'
  BY DEF ThrewInv, InNative
<1>5. AttachedWhileJavaActive'
  BY DEF ThreadTypeOK, JavaActive, AttachedWhileJavaActive
<1>6. NoPendingInJava'
  BY DEF ThreadTypeOK, NoPendingInJava
<1>7. AttachmentAccounted'
  BY DEF ThreadTypeOK, AttachmentAccounted
<1>8. LostOnlyIfKept'
  BY DEF ThreadTypeOK, LostOnlyIfKept
<1> QED BY <1>1, <1>2, <1>3, <1>4, <1>5, <1>6, <1>7, <1>8

\* errno changes behind the back of jffi.
LEMMA ChangeErrnoInv ==
  ASSUME ThreadInv, NEW e \in Errnos, ChangeErrno(e)
  PROVE  ThreadInv'
<1> USE NativeThreadAssumption DEF ThreadInv, ChangeErrno, threadData, history
<1>1. ThreadTypeOK'
  BY DEF ThreadTypeOK
<1>2. Alternates'
  BY DEF Alternates
<1>3. DetachInv'
  BY DEF DetachInv
<1>4. ThrewInv'
  BY DEF ThrewInv, InNative
<1>5. AttachedWhileJavaActive'
  BY DEF ThreadTypeOK, JavaActive, AttachedWhileJavaActive
<1>6. NoPendingInJava'
  BY DEF ThreadTypeOK, InJava, NoPendingInJava
<1>7. AttachmentAccounted'
  BY DEF ThreadTypeOK, AttachmentAccounted
<1>8. LostOnlyIfKept'
  BY DEF ThreadTypeOK, LostOnlyIfKept
<1> QED BY <1>1, <1>2, <1>3, <1>4, <1>5, <1>6, <1>7, <1>8

\* A callback on a thread that is attached will not detach it.
LEMMA BeginAttachedInv ==
  ASSUME ThreadInv, BeginAttached
  PROVE  ThreadInv'
<1> USE NativeThreadAssumption DEF ThreadInv, BeginAttached, threadData, history
<1>1. ThreadTypeOK'
  <2> DEFINE c == ClosureFrame(FALSE)
  <2>1. c \in Frames
    BY DEF ClosureFrame, Frames
  <2>a. /\ depth < MaxDepth /\ depth' = depth + 1
        /\ frame' = [frame EXCEPT ![depth + 1] = c]
    BY DEF Push
  <2> HIDE DEF c
  <2>2. frame' \in [1 .. MaxDepth -> Frames] /\ depth' \in 0 .. MaxDepth
    BY <2>1, <2>a DEF ThreadTypeOK
  <2> QED BY <2>2 DEF ThreadTypeOK
<1>2. Alternates'
  BY DEF Alternates, InNative, Push, ClosureFrame, ThreadTypeOK
<1>3. DetachInv'
  BY DEF DetachInv, Push, ClosureFrame, ThreadTypeOK
<1>4. ThrewInv'
  BY DEF ThrewInv, Push, ClosureFrame, ThreadTypeOK
<1>5. AttachedWhileJavaActive'
  BY DEF ThreadTypeOK, AttachedWhileJavaActive
<1>6. NoPendingInJava'
  BY DEF ThreadTypeOK, NoPendingInJava
<1>7. AttachmentAccounted'
  BY DEF ThreadTypeOK, Push, AttachmentAccounted
<1>8. LostOnlyIfKept'
  BY DEF ThreadTypeOK, LostOnlyIfKept
<1> QED BY <1>1, <1>2, <1>3, <1>4, <1>5, <1>6, <1>7, <1>8

\* A callback that attaches the thread detaches it, or it is kept attached.
LEMMA BeginAttachInv ==
  ASSUME ThreadInv, BeginAttach
  PROVE  ThreadInv'
<1> USE NativeThreadAssumption DEF ThreadInv, BeginAttach, KeepsAttachment, threadData,
    history
<1> DEFINE d == ~KeepsAttachment
<1>a. d \in BOOLEAN /\ ClosureFrame(d) \in Frames
  <2>1. d \in BOOLEAN
    OBVIOUS
  <2> QED BY FrameTypes
<1>b. /\ depth < MaxDepth /\ depth' = depth + 1
      /\ frame' = [frame EXCEPT ![depth + 1] = ClosureFrame(d)]
      /\ attachedVm' = (attachedVm \/ ~d)
  BY DEF Push
<1>1. ThreadTypeOK'
  <2>1. frame' \in [1 .. MaxDepth -> Frames] /\ depth' \in 0 .. MaxDepth
    BY <1>a, <1>b DEF ThreadTypeOK
  <2>2. attachedVm' \in BOOLEAN
    OBVIOUS
  <2>3. attachCount' \in Nat
    BY DEF ThreadTypeOK
  <2> QED BY <2>1, <2>3 DEF ThreadTypeOK
<1>2. Alternates'
  BY DEF Alternates, InNative, Push, ClosureFrame, ThreadTypeOK
<1>3. DetachInv'
  <2>1. depth = 0 /\ kind = "native"
    BY DEF ThreadTypeOK, AttachedWhileJavaActive, JavaActive, InNative, Alternates
  <2>2. frame'[1].detach <=> d
    <3>1. ClosureFrame(d).detach = d
      BY Zenon DEF ClosureFrame
    <3> DEFINE c == ClosureFrame(d)
    <3>2. frame' = [frame EXCEPT ![1] = c] /\ 1 \in 1 .. MaxDepth
      BY <1>b, <2>1
    <3> HIDE DEF c
    <3>3. frame'[1] = c
      BY <3>2 DEF ThreadTypeOK
    <3> QED BY <3>1, <3>3, Zenon DEF c
  <2>3. attached' = "jffi" /\ kind' = "native" /\ depth' = 1
    BY <1>b, <2>1
  <2>4. attachedVm' \/ frame'[1].detach
    BY <2>2
  <2>5. Win32 => ~attachedVm'
    BY DEF DetachInv
  <2> HIDE DEF d
  <2> QED BY <2>3, <2>4, <2>5 DEF DetachInv
<1>4. ThrewInv'
  BY DEF ThrewInv, Push, ClosureFrame, ThreadTypeOK
<1>5. AttachedWhileJavaActive'
  BY DEF ThreadTypeOK, AttachedWhileJavaActive
<1>6. NoPendingInJava'
  BY DEF ThreadTypeOK, NoPendingInJava
<1>7. AttachmentAccounted'
  BY DEF ThreadTypeOK, InNative, Push, AttachmentAccounted
<1>8. LostOnlyIfKept'
  BY DEF ThreadTypeOK, LostOnlyIfKept
<1> QED BY <1>1, <1>2, <1>3, <1>4, <1>5, <1>6, <1>7, <1>8

\* A failed attachment ends the thread.
LEMMA BeginAttachFailsInv ==
  ASSUME ThreadInv, BeginAttachFails
  PROVE  ThreadInv'
<1> USE NativeThreadAssumption DEF ThreadInv, BeginAttachFails, threadData, history
<1>1. ThreadTypeOK'
  BY DEF ThreadTypeOK
<1>2. Alternates'
  BY DEF Alternates
<1>3. DetachInv'
  BY DEF DetachInv, InNative
<1>4. ThrewInv'
  BY DEF ThrewInv
<1>5. AttachedWhileJavaActive'
  BY DEF ThreadTypeOK, AttachedWhileJavaActive
<1>6. NoPendingInJava'
  BY DEF ThreadTypeOK, InJava, NoPendingInJava
<1>7. AttachmentAccounted'
  BY DEF ThreadTypeOK, AttachmentAccounted
<1>8. LostOnlyIfKept'
  BY DEF ThreadTypeOK, LostOnlyIfKept
<1> QED BY <1>1, <1>2, <1>3, <1>4, <1>5, <1>6, <1>7, <1>8

\* closure_end detaches only at the bottom of the stack.
LEMMA CallbackReturnInv ==
  ASSUME ThreadInv, NEW threw \in BOOLEAN, CallbackReturn(threw)
  PROVE  ThreadInv'
<1> USE NativeThreadAssumption DEF ThreadInv, CallbackReturn, ClearsException, Below,
    threadData, history
<1>1. ThreadTypeOK'
  BY DEF Frames, CallFrame, ThreadTypeOK
<1>2. Alternates'
  BY DEF Alternates, InJava, CallFrame, ThreadTypeOK
<1>3. DetachInv'
  BY DEF DetachInv, Alternates, InJava, CallFrame, ThreadTypeOK
<1>4. ThrewInv'
  BY DEF ThrewInv, Alternates, DetachInv, InJava, InNative, CallFrame, ThreadTypeOK
<1>5. AttachedWhileJavaActive'
  BY DEF ThreadTypeOK, Alternates, DetachInv, JavaActive, AttachedWhileJavaActive
<1>6. NoPendingInJava'
  BY DEF ThreadTypeOK, Alternates, InJava, CallFrame, NoPendingInJava
<1>7. AttachmentAccounted'
  BY DEF ThreadTypeOK, DetachInv, AttachmentAccounted
<1>8. LostOnlyIfKept'
  BY DEF ThreadTypeOK, LostOnlyIfKept
<1> QED BY <1>1, <1>2, <1>3, <1>4, <1>5, <1>6, <1>7, <1>8

\* Other native code attaches the thread.
LEMMA OtherAttachInv ==
  ASSUME ThreadInv, OtherAttach
  PROVE  ThreadInv'
<1> USE NativeThreadAssumption DEF ThreadInv, OtherAttach, threadData, history
<1>1. ThreadTypeOK'
  BY DEF ThreadTypeOK
<1>2. Alternates'
  BY DEF Alternates
<1>3. DetachInv'
  BY DEF DetachInv, InNative
<1>4. ThrewInv'
  BY DEF ThrewInv, InNative
<1>5. AttachedWhileJavaActive'
  BY DEF ThreadTypeOK, AttachedWhileJavaActive
<1>6. NoPendingInJava'
  BY DEF ThreadTypeOK, InJava, NoPendingInJava
<1>7. AttachmentAccounted'
  BY DEF ThreadTypeOK, AttachmentAccounted
<1>8. LostOnlyIfKept'
  BY DEF ThreadTypeOK, LostOnlyIfKept
<1> QED BY <1>1, <1>2, <1>3, <1>4, <1>5, <1>6, <1>7, <1>8

\* Other native code detaches the thread, with no Java method active.
LEMMA OtherDetachInv ==
  ASSUME ThreadInv, OtherDetach
  PROVE  ThreadInv'
<1> USE NativeThreadAssumption DEF ThreadInv, OtherDetach, threadData, history
<1>1. ThreadTypeOK'
  BY DEF ThreadTypeOK
<1>2. Alternates'
  BY DEF Alternates
<1>3. DetachInv'
  BY DEF DetachInv, InNative
<1>4. ThrewInv'
  BY DEF ThrewInv
<1>5. AttachedWhileJavaActive'
  BY DEF ThreadTypeOK, InNative, JavaActive, AttachedWhileJavaActive
<1>6. NoPendingInJava'
  BY DEF ThreadTypeOK, NoPendingInJava
<1>7. AttachmentAccounted'
  BY DEF ThreadTypeOK, AttachmentAccounted
<1>8. LostOnlyIfKept'
  BY DEF ThreadTypeOK, LostOnlyIfKept
<1> QED BY <1>1, <1>2, <1>3, <1>4, <1>5, <1>6, <1>7, <1>8

\* thread_data_free detaches what was kept attached.
LEMMA ThreadExitInv ==
  ASSUME ThreadInv, ThreadExit
  PROVE  ThreadInv'
<1> USE NativeThreadAssumption DEF ThreadInv, ThreadExit, threadData, history
<1>1. ThreadTypeOK'
  BY DEF ThreadTypeOK
<1>2. Alternates'
  BY DEF Alternates
<1>3. DetachInv'
  BY DEF DetachInv
<1>4. ThrewInv'
  BY DEF ThrewInv
<1>5. AttachedWhileJavaActive'
  BY DEF ThreadTypeOK, AttachedWhileJavaActive
<1>6. NoPendingInJava'
  BY DEF ThreadTypeOK, InJava, NoPendingInJava
<1>7. AttachmentAccounted'
  BY DEF ThreadTypeOK, DetachInv, AttachmentAccounted
<1>8. LostOnlyIfKept'
  BY DEF ThreadTypeOK, LostOnlyIfKept
<1> QED BY <1>1, <1>2, <1>3, <1>4, <1>5, <1>6, <1>7, <1>8

\* Every step preserves the invariant.
LEMMA NextInv == ThreadInv /\ [ThreadNext]_threadVars => ThreadInv'
<1> SUFFICES ASSUME ThreadInv, [ThreadNext]_threadVars PROVE ThreadInv'
  OBVIOUS
<1>1. CASE UNCHANGED threadVars
  BY <1>1 DEF threadVars, ThreadInv, Alternates, DetachInv, ThrewInv, InJava, InNative, JavaActive, AttachedWhileJavaActive, NoPendingInJava, AttachmentAccounted, LostOnlyIfKept, ThreadTypeOK
<1>2. CASE \E saves \in BOOLEAN, path \in {"buffer", "pointers"} : Invoke(saves, path)
  BY <1>2, InvokeInv
<1>3. CASE \E e \in Errnos : SetLastError(e) \/ ChangeErrno(e)
  BY <1>3, SetLastErrorInv, ChangeErrnoInv
<1>4. CASE \E threw \in BOOLEAN : CallbackReturn(threw)
  BY <1>4, CallbackReturnInv
<1>5. CASE InvokeReturn \/ BeginAttached \/ BeginAttach \/ BeginAttachFails
  BY <1>5, InvokeReturnInv, BeginAttachedInv, BeginAttachInv, BeginAttachFailsInv
<1>6. CASE OtherAttach \/ OtherDetach \/ ThreadExit
  BY <1>6, OtherAttachInv, OtherDetachInv, ThreadExitInv
<1> QED BY <1>1, <1>2, <1>3, <1>4, <1>5, <1>6 DEF ThreadNext

\* The invariant holds in every reachable state.
THEOREM ThreadInvariance == ThreadSpec => []ThreadInv
<1> QED BY InitInv, NextInv, PTL DEF ThreadSpec

\* However deep callbacks nest, none detaches the thread under a Java method
\* that is still active on its stack.
THEOREM NeverDetachedUnderJava == ThreadSpec => []AttachedWhileJavaActive
<1>1. ThreadInv => AttachedWhileJavaActive
  BY DEF ThreadInv
<1> QED BY <1>1, ThreadInvariance, PTL

\* Java code never runs with an exception pending in the JNIEnv.
THEOREM JavaStartsClean == ThreadSpec => []NoPendingInJava
<1>1. ThreadInv => NoPendingInJava
  BY DEF ThreadInv
<1> QED BY <1>1, ThreadInvariance, PTL

\* Attachments balance, for every threshold: none is left behind by a callback
\* unrecorded or by a thread at its end.
THEOREM AttachmentsBalance == ThreadSpec => []AttachmentAccounted
<1>1. ThreadInv => AttachmentAccounted
  BY DEF ThreadInv
<1> QED BY <1>1, ThreadInvariance, PTL

\* Exceptions of callbacks reach their Java caller on every thread that jffi
\* does not keep attached.
THEOREM ExceptionsDelivered == ThreadSpec => []LostOnlyIfKept
<1>1. ThreadInv => LostOnlyIfKept
  BY DEF ThreadInv
<1> QED BY <1>1, ThreadInvariance, PTL

(***************************************************************************)
(* Bytes                                                                   *)
(***************************************************************************)
\* A value is a function of the numbers of its bytes; so is what is read.
LEMMA ValueBytes ==
  ASSUME NEW x, NEW w, NEW n \in Nat
  PROVE  Value(x, w, n) = [k \in 0..(n - 1) |-> Value(x, w, n)[k]]
BY DEF Value

\* A number read from memory is a function on its bytes.
LEMMA ReadBytes ==
  ASSUME NEW n \in Nat, NEW at, NEW mem
  PROVE  Read(mem, at, n) = [k \in 0..(n - 1) |-> Read(mem, at, n)[k]]
BY DEF Read, Order

\* Byte k of a value below its width, and of a result.
LEMMA ValueByte ==
  ASSUME NEW x, NEW w \in Nat, NEW n \in Nat, NEW k, k \in 0..(n - 1)
  PROVE  Value(x, w, n)[k] = Append(x, IF k < w THEN k ELSE Sign)
BY DEF Value

\* Byte k of the result.
LEMMA ResultByte ==
  ASSUME NEW k
  PROVE  Append(<<"r", 0>>, k) = <<"r", 0, k>>
<1>1. <<"r", 0>> = [i \in 1..2 |-> IF i = 1 THEN "r" ELSE 0]
  OBVIOUS
<1>2. <<"r", 0, k>> = [i \in 1..3 |-> IF i = 1 THEN "r" ELSE IF i = 2 THEN 0 ELSE k]
  OBVIOUS
<1>3. <<"r", 0>> \in Seq({"r", 0}) /\ Len(<<"r", 0>>) = 2
  OBVIOUS
<1>4. Append(<<"r", 0>>, k) = [i \in 1..3 |-> IF i = 1 THEN "r" ELSE IF i = 2 THEN 0 ELSE k]
  BY <1>1, <1>3
<1> QED BY <1>2, <1>4

\* Where byte k of a number of n bytes at `at' is.
Place(at, n, k) == IF machine.be THEN at + (n - 1 - k) ELSE at + k

\* Byte k of a number read from memory is at its place.
LEMMA ReadByte ==
  ASSUME NEW mem, NEW at \in Nat, NEW n \in Nat, NEW k, k \in 0..(n - 1), machine.be \in BOOLEAN
  PROVE  Read(mem, at, n)[k] = mem[Place(at, n, k)]
<1>1. n - 1 - k \in 0..(n - 1)
  OBVIOUS
<1> QED BY <1>1 DEF Read, Order, Place

\* Byte k of a number written to memory is at its place.
LEMMA StoreByte ==
  ASSUME NEW mem, NEW at \in Nat, NEW n \in Nat, NEW k, k \in 0..(n - 1), machine.be \in BOOLEAN,
         at..(at + n - 1) \subseteq DOMAIN mem, NEW num
  PROVE  Store(mem, at, n, num)[Place(at, n, k)] = num[k]
<1>1. CASE machine.be
  <2>1. at + (n - 1 - k) \in at..(at + n - 1) /\ at + (n - 1 - k) - at \in 0..(n - 1)
        /\ n - 1 - (at + (n - 1 - k) - at) = k
    OBVIOUS
  <2>2. Store(mem, at, n, num)[at + (n - 1 - k)] = Order(n, num)[at + (n - 1 - k) - at]
    BY <2>1 DEF Store
  <2>3. Order(n, num)[at + (n - 1 - k) - at] = num[n - 1 - (at + (n - 1 - k) - at)]
    BY <1>1, <2>1 DEF Order
  <2> QED BY <1>1, <2>1, <2>2, <2>3 DEF Place
<1>2. CASE ~machine.be
  <2>1. at + k \in at..(at + n - 1) /\ at + k - at \in 0..(n - 1) /\ at + k - at = k
    OBVIOUS
  <2>2. Store(mem, at, n, num)[at + k] = Order(n, num)[at + k - at]
    BY <2>1 DEF Store
  <2>3. Order(n, num)[at + k - at] = num[at + k - at]
    BY <1>2, <2>1 DEF Order
  <2> QED BY <1>2, <2>1, <2>2, <2>3 DEF Place
<1> QED BY <1>1, <1>2

\* A whole number in memory is read back.
LEMMA ReadBack ==
  ASSUME NEW w \in Nat, NEW at \in Nat, NEW mem, NEW num,
         \A k \in 0..(w - 1) : mem[Place(at, w, k)] = num[k], machine.be \in BOOLEAN
  PROVE  Read(mem, at, w) = [k \in 0..(w - 1) |-> num[k]]
<1>1. \A k \in 0..(w - 1) : w - 1 - k \in 0..(w - 1)
  OBVIOUS
<1>2. \A k \in 0..(w - 1) : Read(mem, at, w)[k] = num[k]
  BY <1>1 DEF Read, Order, Place
<1>3. Read(mem, at, w) = [k \in 0..(w - 1) |-> Read(mem, at, w)[k]]
  BY ReadBytes, Zenon
<1> HIDE DEF Read
<1> QED BY <1>2, <1>3

\* What Classified and the entry points exclude: the widths of what is left.
LEMMA Machine ==
  ASSUME machine \in Machines
  PROVE  /\ machine.be \in BOOLEAN /\ machine.addr \in {4, 8} /\ machine.addr \in Nat
         /\ machine.be => machine.cpu = "other"
         /\ machine.cpu = "i386" => machine.addr = 4
BY InvocationAssumption

\* Sizes of the types on the machines that jffi runs on.
LEMMA Sizes ==
  ASSUME machine \in Machines, NEW t \in Types
  PROVE  /\ Size(machine, t) \in {1, 4, 8, 12} /\ Size(machine, t) \in Nat
         /\ t # "struct" => Size(machine, t) <= 8
         /\ t = "ptr" => Size(machine, t) = machine.addr
         /\ t = "i8" => Size(machine, t) = 1
         /\ t \in {"i32", "f32"} => Size(machine, t) = 4
         /\ t = "i64" => Size(machine, t) = 8
         /\ Size(machine, t) = 1 => t \in {"i8", "void"}
BY Machine DEF Size, Types

(***************************************************************************)
(* The result                                                              *)
(***************************************************************************)
\* One call: a machine, a signature, and an entry point that takes it.
CallOK == machine \in Machines /\ sig \in Signatures /\ road \in Roads /\ Takes(road, sig)

\* The types of a signature.
LEMMA SignatureTypes ==
  ASSUME sig \in Signatures
  PROVE  /\ sig.ret \in Types
         /\ Len(sig.params) \in Nat /\ Params = 1..Len(sig.params)
         /\ \A i \in Params : TypeOf(i) \in Types \ {"void"} /\ HowOf(i) \in Hows
         /\ \A i \in Params : HowOf(i) # "value" => TypeOf(i) \in {"ptr", "struct"}
<1> DEFINE P == [type : Types \ {"void"}, how : Hows]
<1>1. sig.params \in Seq(P)
  BY InvocationAssumption
<1> HIDE DEF P
<1>2. Len(sig.params) \in Nat /\ DOMAIN sig.params = 1..Len(sig.params)
      /\ \A i \in DOMAIN sig.params : sig.params[i] \in P
  BY <1>1
<1> USE DEF P
<1> QED BY <1>2, InvocationAssumption DEF Params, TypeOf, HowOf

\* Way, Takes and Classified: a C call that bypasses libffi is made on little-
\* endian machines only, for integers that fit the registers used.
LEMMA Direct ==
  ASSUME CallOK, ctx = Classified
  PROVE  /\ Way \in {"jint", "jlong", "ffi"}
         /\ Way # "ffi" => /\ ~machine.be
                           /\ sig.ret = "void" \/ IsInt(sig.ret)
                           /\ \A i \in Params : IsInt(TypeOf(i))
         /\ Way = "jint" => \A i \in Params : Size(machine, TypeOf(i)) <= 4
<1>1. sig.ret \in Types /\ \A i \in Params : TypeOf(i) \in Types \ {"void"}
  BY SignatureTypes DEF CallOK
<1>2. Way \in {"jint", "jlong", "ffi"}
  BY DEF Way, CallOK, Roads
<1>3. machine.be \in BOOLEAN /\ machine.addr \in {4, 8} /\ (machine.be => machine.cpu = "other")
      /\ (machine.cpu = "i386" => machine.addr = 4)
  BY Machine DEF CallOK
<1>4. \A i \in Params : \A t : t = TypeOf(i) => t \in AllTypes
  BY DEF AllTypes
<1>5. sig.ret \in AllTypes
  BY DEF AllTypes
<1>6. CASE road = "int"
  <2>1. sig.ret \in {"i8", "i32", "void"} /\ \A i \in Params : TypeOf(i) \in {"i8", "i32"}
    BY <1>1, <1>6 DEF CallOK, Takes, Params, TypeOf
  <2>2. Way # "ffi" => ~machine.be
    BY <1>3, <1>6 DEF Way
  <2>3. \A i \in Params : Size(machine, TypeOf(i)) <= 4
    BY <2>1, Sizes DEF CallOK, Types
  <2> QED BY <1>2, <2>1, <2>2, <2>3 DEF IsInt
<1>7. CASE road = "long"
  <2>1. sig.ret = "void" \/ IsInt(sig.ret)
    BY <1>7 DEF CallOK, Takes
  <2>2. \A i \in Params : IsInt(TypeOf(i))
    BY <1>1, <1>7 DEF CallOK, Takes, Params, TypeOf
  <2>3. Way # "ffi" => ~machine.be /\ Way = "jlong"
    BY <1>3, <1>7 DEF Way
  <2> QED BY <1>2, <2>1, <2>2, <2>3
<1>8. CASE road = "numeric" /\ Way = "jlong"
  <2>1. ctx.fastLong
    BY <1>8 DEF Way
  <2>2. machine.cpu # "other" /\ \A t \in AllTypes : FastLong(t) \/ t = "void"
    BY <2>1 DEF Classified
  <2>3. \A t \in AllTypes : IsInt(t) \/ t = "void"
    BY <2>2 DEF FastLong
  <2>4. \A i \in Params : IsInt(TypeOf(i))
    BY <1>1, <1>4, <2>3
  <2> QED BY <1>2, <1>3, <1>5, <1>8, <2>2, <2>3, <2>4
<1>9. CASE road = "numeric" /\ Way = "jint"
  <2>1. ctx.fastInt
    BY <1>9 DEF Way
  <2>2. machine.cpu # "other" /\ \A t \in AllTypes : FastInt(t) \/ t = "void"
    BY <2>1 DEF Classified
  <2>3. \A t \in AllTypes : t \in {"i8", "i32"} \/ (t = "ptr" /\ machine.addr = 4) \/ t = "void"
    BY <1>3, <2>2 DEF FastInt
  <2>4. \A i \in Params : TypeOf(i) \in {"i8", "i32"} \/ (TypeOf(i) = "ptr" /\ machine.addr = 4)
    BY <1>1, <1>4, <2>3
  <2>5. \A i \in Params : Size(machine, TypeOf(i)) <= 4
    BY <1>1, <2>4, Sizes DEF CallOK
  <2>6. sig.ret = "void" \/ IsInt(sig.ret)
    BY <1>5, <2>3 DEF IsInt
  <2>7. \A i \in Params : IsInt(TypeOf(i))
    BY <2>4 DEF IsInt
  <2> QED BY <1>2, <1>3, <2>2, <2>5, <2>6, <2>7
<1>10. CASE road \in {"buffer", "heap"}
  BY <1>10 DEF Way
<1> QED BY <1>2, <1>6, <1>7, <1>8, <1>9, <1>10 DEF CallOK, Roads

\* How many bytes of the FFIValue the result takes.
Stored ==
  LET w == Size(machine, sig.ret)
  IN  IF IsInt(sig.ret) /\ w < ArgSize THEN ArgSize ELSE w

\* ReturnValue: byte j of the result is where the byte order puts it.
LEMMA Returned ==
  ASSUME CallOK, ctx = Classified, sig.ret \notin {"void", "struct"},
         NEW j, j \in 0..(Size(machine, sig.ret) - 1)
  PROVE  ReturnValue[Place(0, Stored, j)] = <<"r", 0, j>>
<1> DEFINE w == Size(machine, sig.ret)  n == Stored
<1>1. sig.ret \in Types
  BY SignatureTypes DEF CallOK
<1>2. machine.be \in BOOLEAN /\ w \in Nat /\ w <= 8 /\ n \in Nat /\ w <= n /\ n <= 8
  BY <1>1, Sizes, Machine DEF CallOK, Stored, ArgSize
<1>3. j \in Nat /\ j < w /\ j \in 0..(n - 1)
  BY <1>2
<1>4. CASE Way = "ffi"
  <2> DEFINE num == Value(<<"r", 0>>, w, n)
  <2>1. ReturnValue = Store(Junk, 0, n, num)
    BY <1>4 DEF ReturnValue, Stored
  <2>2. num[j] = <<"r", 0, j>>
    BY <1>2, <1>3, ValueByte, ResultByte
  <2>3. 0..(0 + n - 1) \subseteq DOMAIN Junk
    BY <1>2 DEF Junk
  <2> HIDE DEF num, n
  <2>4. Store(Junk, 0, n, num)[Place(0, n, j)] = num[j]
    <3> DEFINE mem == Junk
    <3>1. 0..(0 + n - 1) \subseteq DOMAIN mem /\ n \in Nat /\ j \in 0..(n - 1) /\ machine.be \in BOOLEAN
      BY <1>2, <1>3, <2>3
    <3> HIDE DEF mem
    <3>2. Store(mem, 0, n, num)[Place(0, n, j)] = num[j]
      BY <3>1, StoreByte, Z3
    <3> QED BY <3>2 DEF mem
  <2> QED BY <2>1, <2>2, <2>4 DEF n
<1>5. CASE Way # "ffi"
  <2>1. ~machine.be /\ IsInt(sig.ret)
    BY <1>5, Direct
  <2>2. ReturnValue = Order(8, Answer(w, 8))
    BY <1>5, <2>1 DEF ReturnValue
  <2>3. j \in 0..7 /\ j \in 0..(8 - 1) /\ Place(0, n, j) = j
    BY <1>2, <1>3, <2>1 DEF Place
  <2>4. Order(8, Answer(w, 8))[j] = Answer(w, 8)[j]
    BY <2>1, <2>3 DEF Order
  <2> QED BY <1>3, <2>2, <2>3, <2>4 DEF Answer
<1> QED BY <1>4, <1>5

\* Reading it with enough bytes, on a big-endian machine exactly those stored.
LEMMA ReadResult ==
  ASSUME CallOK, ctx = Classified, sig.ret \notin {"void", "struct"},
         NEW j, j \in 0..(Size(machine, sig.ret) - 1),
         NEW m \in Nat, Size(machine, sig.ret) <= m, machine.be => m = Stored
  PROVE  Read(ReturnValue, 0, m)[j] = <<"r", 0, j>>
<1>1. sig.ret \in Types /\ machine.be \in BOOLEAN
  BY SignatureTypes, Machine DEF CallOK
<1>2. Size(machine, sig.ret) \in Nat
  BY <1>1, Sizes DEF CallOK
<1>3. j \in 0..(m - 1) /\ Place(0, m, j) = Place(0, Stored, j)
  BY <1>1, <1>2 DEF Place
<1>4. ReturnValue[Place(0, Stored, j)] = <<"r", 0, j>>
  BY Returned
<1>5. Read(ReturnValue, 0, m)[j] = ReturnValue[Place(0, m, j)]
  BY <1>1, <1>3, ReadByte
<1> QED BY <1>3, <1>4, <1>5

\* The bytes added to a result repeat its sign.
LEMMA Widened ==
  ASSUME NEW num, NEW n \in Nat, NEW j \in 0..7
  PROVE  Widen(num, n)[j] = IF j < n THEN num[j] ELSE <<"r", 0, Sign>>
BY DEF Widen

\* Result, over each entry point.
LEMMA ResultRight ==
  ASSUME CallOK, ctx = Classified, sig.ret # "void", ~FloatFromWrongHalf
  PROVE  /\ \A j \in 0..(Size(machine, sig.ret) - 1) : Result[j] = <<"r", 0, j>>
         /\ road = "buffer" /\ sig.ret = "ptr" => \A j \in machine.addr..7 : Result[j] = Zero
<1> DEFINE w == Size(machine, sig.ret)
<1>1. sig.ret \in {"i8", "i32", "i64", "f32", "ptr"}
  <2>1. sig.ret # "struct"
    BY DEF CallOK, Takes, Roads, IsInt
  <2> QED BY <2>1, SignatureTypes DEF CallOK, Types
<1>2. /\ machine.be \in BOOLEAN /\ ArgSize \in {4, 8} /\ ArgSize = machine.addr
      /\ sig.ret = "i8" => w = 1
      /\ sig.ret \in {"i32", "f32"} => w = 4
      /\ sig.ret = "i64" => w = 8
      /\ sig.ret = "ptr" => w = ArgSize
  BY <1>1, Machine, Sizes DEF CallOK, ArgSize, Types
<1>3. /\ sig.ret \in {"i8", "i32", "ptr"} => Stored = ArgSize
      /\ sig.ret = "i64" => Stored = 8
      /\ sig.ret = "f32" => Stored = 4
  BY <1>1, <1>2 DEF Stored, IsInt
<1> HIDE DEF w
<1>4. ASSUME NEW m \in {4, 8}, w <= m, machine.be => m = Stored,
             NEW j \in 0..(w - 1)
      PROVE  Read(ReturnValue, 0, m)[j] = <<"r", 0, j>>
  <2>1. sig.ret \notin {"void", "struct"} /\ m \in Nat
    BY <1>1, <1>4
  <2> QED BY <1>4, <2>1, ReadResult DEF w
<1>5. ASSUME NEW m \in {4, 8}, NEW n \in {4, 8}, w <= m, w <= n, machine.be => m = Stored,
             NEW j \in 0..(w - 1)
      PROVE  Widen(Read(ReturnValue, 0, m), n)[j] = <<"r", 0, j>>
  <2>1. j \in 0..7 /\ j < n /\ n \in Nat
    BY <1>1, <1>2, <1>5
  <2>2. Read(ReturnValue, 0, m)[j] = <<"r", 0, j>>
    BY <1>4, <1>5
  <2> HIDE DEF Read, ReturnValue
  <2> QED BY <2>1, <2>2, Widened
<1>6. ASSUME sig.ret \in {"i8", "i32", "f32", "ptr"}, w <= 4, machine.be => ArgSize = Stored, NEW j \in 0..(w - 1)
      PROVE  ReturnInt[j] = <<"r", 0, j>>
  BY <1>1, <1>2, <1>3, <1>5, <1>6 DEF ReturnInt
<1>7. ASSUME w <= 8, machine.be => IF w > ArgSize THEN Stored = 8 ELSE Stored = ArgSize, NEW j \in 0..(w - 1)
      PROVE  RETVAL[j] = <<"r", 0, j>>
  BY <1>1, <1>2, <1>4, <1>5, <1>7 DEF RETVAL, w
<1>8. CASE road = "int"
  <2>1. sig.ret \in {"i8", "i32"}
    BY <1>1, <1>8 DEF CallOK, Takes
  <2> QED BY <1>2, <1>3, <1>5, <1>8, <2>1 DEF Result, w
<1>9. CASE road = "long"
  <2>1. sig.ret \in {"i8", "i32", "i64", "ptr"}
    BY <1>1, <1>9 DEF CallOK, Takes, IsInt
  <2> QED BY <1>2, <1>3, <1>4, <1>7, <1>9, <2>1 DEF Result, w
<1>10. CASE road = "numeric"
  <2>1. sig.ret = "f32" => (machine.be => ArgSize = 4)
    BY <1>2, <1>10 DEF FloatFromWrongHalf
  <2> QED BY <1>1, <1>2, <1>3, <1>7, <1>10, <2>1 DEF Result, w
<1>11. CASE road = "buffer"
  <2>1. CASE sig.ret = "ptr"
    <3>1. CASE ArgSize = 8
      BY <1>2, <1>3, <1>4, <1>11, <2>1, <3>1 DEF Result, BufferResult, w
    <3>2. CASE ArgSize = 4
      <4>1. \A j \in 0..(w - 1) : ReturnInt[j] = <<"r", 0, j>>
        BY <1>2, <1>3, <1>6, <2>1, <3>2
      <4>2. Result = [j \in 0..7 |-> IF j < 4 THEN ReturnInt[j] ELSE Zero]
        BY <1>2, <1>11, <2>1, <3>2 DEF Result, BufferResult
      <4> QED BY <1>2, <2>1, <3>2, <4>1, <4>2 DEF w
    <3> QED BY <1>2, <3>1, <3>2
  <2>2. CASE sig.ret \in {"i8", "i32"}
    BY <1>2, <1>3, <1>6, <1>11, <2>2 DEF Result, BufferResult, w
  <2>3. CASE sig.ret = "i64"
    BY <1>2, <1>3, <1>4, <1>11, <2>3 DEF Result, BufferResult, w
  <2>4. CASE sig.ret = "f32"
    BY <1>2, <1>3, <1>5, <1>11, <2>4 DEF Result, BufferResult, w
  <2> QED BY <1>1, <2>1, <2>2, <2>3, <2>4
<1>12. CASE road = "heap"
  <2>1. sig.ret = "f32" => (machine.be => ArgSize = 4)
    BY <1>2, <1>12 DEF FloatFromWrongHalf
  <2>2. CASE w = 8
    BY <1>1, <1>2, <1>3, <1>4, <1>12, <2>2 DEF Result, w
  <2>3. CASE w # 8
    <3>1. w <= 4 /\ sig.ret \in {"i8", "i32", "f32", "ptr"} /\ (machine.be => ArgSize = Stored)
      BY <1>1, <1>2, <1>3, <2>1, <2>3
    <3> QED BY <1>6, <1>12, <2>3, <3>1 DEF Result, w
  <2> QED BY <2>2, <2>3
<1> QED BY <1>8, <1>9, <1>10, <1>11, <1>12 DEF CallOK, Roads

(***************************************************************************)
(* Induction over the stages of a sort, as a fact about sets               *)
(***************************************************************************)
\* Every set of natural numbers has a least element: n is less than m where
\* 1 .. n is a proper subset of 1 .. m, and proper subsets are well-founded.
LEMMA Least ==
  ASSUME NEW T \in SUBSET Nat, T # {}
  PROVE  \E x \in T : \A y \in T : x <= y
<1> DEFINE R == StrictSubsetOrdering(Nat)
           F == FiniteSubsetsOf(Nat)
           I == {1 .. x : x \in T}
<1>1. IsWellFoundedOn(R, F)
  BY FS_StrictSubsetOrderingWellFounded
<1>2. \A x \in Nat : 1 .. x \in F
  <2>1. ASSUME NEW x \in Nat PROVE 1 .. x \in SUBSET Nat /\ IsFiniteSet(1 .. x)
    BY FS_Interval
  <2> QED BY <2>1 DEF FiniteSubsetsOf
<1>3. I \subseteq F /\ I # {}
  BY <1>2
<1>4. PICK m \in I : \A y \in I : <<y, m>> \notin R
  <2> HIDE DEF R, F, I
  <2> QED BY <1>1, <1>3, WFMin
<1>5. PICK x \in T : m = 1 .. x
  OBVIOUS
<1>6. ASSUME NEW y \in T, y < x PROVE FALSE
  <2>1. 1 .. y \in I /\ 1 .. y \in SUBSET Nat /\ 1 .. x \in SUBSET Nat
    BY <1>6
  <2>2. x \in 1 .. x /\ x \notin 1 .. y
    BY <1>6
  <2>3. 1 .. y \subseteq 1 .. x /\ 1 .. y # 1 .. x
    BY <1>6, <2>2
  <2>4. <<1 .. y, 1 .. x>> \in R
    BY <2>1, <2>3 DEF StrictSubsetOrdering
  <2> QED BY <2>1, <2>4, <1>4, <1>5
<1> QED BY <1>6

\* What holds of 0 and passes on to the next number holds of all.
LEMMA Induction ==
  ASSUME NEW T \in SUBSET Nat, 0 \in T, \A n \in T : n + 1 \in T
  PROVE  T = Nat
<1>1. ASSUME Nat \ T # {} PROVE FALSE
  <2>1. PICK x \in Nat \ T : \A y \in Nat \ T : x <= y
    <3>1. Nat \ T \in SUBSET Nat
      OBVIOUS
    <3> QED BY <1>1, <3>1, Least
  <2>2. x - 1 \in Nat /\ x - 1 + 1 = x
    OBVIOUS
  <2>3. x - 1 \in T
    BY <2>1, <2>2
  <2> QED BY <2>1, <2>2, <2>3
<1> QED BY <1>1

(***************************************************************************)
(* Positions in ascending order                                            *)
(***************************************************************************)
\* Ascending: the k-th member of S, for every k up to their number.
LEMMA AscendingOrder ==
  ASSUME NEW n \in Nat, NEW S \in SUBSET (1..n)
  PROVE  /\ IsFiniteSet(S) /\ Cardinality(S) \in 0..n
         /\ Ascending(S) \in [1..Cardinality(S) -> S]
         /\ Len(Ascending(S)) = Cardinality(S)
         /\ \A i \in S : \E k \in 1..Cardinality(S) : Ascending(S)[k] = i
         /\ IsInjective(Ascending(S))
<1> DEFINE c == Cardinality(S)
<1>1. IsFiniteSet(1..n) /\ Cardinality(1..n) = n
  BY FS_Interval
<1>2. IsFiniteSet(S) /\ c \in Nat /\ c <= n
  BY <1>1, FS_Subset, FS_CardinalityType
<1> HIDE DEF c
<1>3. ASSUME NEW i \in S
      PROVE  Rank(S, i) \in 1..c
  <2> DEFINE U == {j \in S : j <= i}
  <2>1. U \in SUBSET S /\ i \in U
    OBVIOUS
  <2>2. IsFiniteSet(U) /\ Cardinality(U) <= c /\ Cardinality(U) \in Nat
    BY <1>2, <2>1, FS_Subset, FS_CardinalityType DEF c
  <2>3. Cardinality(U) # 0
    BY <2>1, <2>2, FS_EmptySet
  <2> QED BY <1>2, <2>2, <2>3 DEF Rank
<1>4. ASSUME NEW i \in S, NEW j \in S, i < j
      PROVE  Rank(S, i) # Rank(S, j)
  <2> DEFINE U == {x \in S : x <= i}  V == {x \in S : x <= j}
  <2>1. U \in SUBSET V /\ j \in V /\ j \notin U /\ V \in SUBSET S
    <3>1. i \in Nat /\ j \in Nat /\ \A x \in S : x \in Nat
      OBVIOUS
    <3>2. \A x \in S : x <= i => x <= j
      BY <1>4, <3>1
    <3>3. j \notin U /\ j <= j
      BY <1>4, <3>1
    <3> QED BY <3>2, <3>3, Zenon
  <2>2. IsFiniteSet(V)
    BY <1>2, <2>1, FS_Subset
  <2> HIDE DEF U, V
  <2>3. Cardinality(V) # Cardinality(U)
    BY <2>1, <2>2, FS_Subset
  <2> QED BY <2>3 DEF Rank, U, V
<1>5. ASSUME NEW i \in S, NEW j \in S, Rank(S, i) = Rank(S, j)
      PROVE  i = j
  <2>1. i \in Nat /\ j \in Nat
    OBVIOUS
  <2> QED BY <1>4, <1>5, <2>1
<1> DEFINE f == [i \in S |-> Rank(S, i)]
<1>6. f \in Injection(S, 1..c)
  BY <1>3, <1>5 DEF Injection, IsInjective
<1>7. IsFiniteSet(1..c) /\ Cardinality(1..c) = c
  BY <1>2, FS_Interval
<1>8. f \in Surjection(S, 1..c)
  <2> HIDE DEF f
  <2> QED BY <1>6, <1>7, FS_Injection DEF c
<1>9. ASSUME NEW k \in 1..c
      PROVE  Ascending(S)[k] \in S /\ Rank(S, Ascending(S)[k]) = k
  <2>1. \E i \in S : Rank(S, i) = k
    BY <1>8 DEF Surjection
  <2>2. Ascending(S)[k] = CHOOSE i \in S : Rank(S, i) = k
    BY DEF Ascending, c
  <2> HIDE DEF Rank, Ascending
  <2> QED BY <2>1, <2>2
<1>10. Ascending(S) = [k \in 1..c |-> Ascending(S)[k]]
  BY DEF Ascending, c
<1>11. Len(Ascending(S)) = c
  BY <1>2 DEF Ascending, c
<1> HIDE DEF Ascending
<1>12. Ascending(S) \in [1..c -> S]
  BY <1>9, <1>10
<1>13. \A i \in S : \E k \in 1..c : Ascending(S)[k] = i
  <2>1. ASSUME NEW i \in S PROVE Ascending(S)[Rank(S, i)] = i
    <3>1. Rank(S, i) \in 1..c
      BY <1>3
    <3> QED BY <3>1, <1>5, <1>9
  <2> QED BY <2>1, <1>3
<1>14. IsInjective(Ascending(S))
  <2>1. DOMAIN Ascending(S) = 1..c
    BY <1>12
  <2> QED BY <1>9, <2>1 DEF IsInjective
<1> QED BY <1>2, <1>11, <1>12, <1>13, <1>14 DEF c

\* Objects and NonDirect are orderings of sets of parameters.
LEMMA Positions ==
  ASSUME sig \in Signatures, NEW S \in SUBSET Params
  PROVE  /\ IsFiniteSet(S) /\ Cardinality(S) \in 0..Len(sig.params)
         /\ Ascending(S) \in [1..Cardinality(S) -> S]
         /\ Len(Ascending(S)) = Cardinality(S)
         /\ \A i \in S : \E k \in 1..Cardinality(S) : Ascending(S)[k] = i
         /\ IsInjective(Ascending(S))
<1>1. Len(sig.params) \in Nat /\ S \in SUBSET (1..Len(sig.params))
  BY SignatureTypes
<1> QED BY <1>1, AscendingOrder

(***************************************************************************)
(* The sorting of objects                                                  *)
(***************************************************************************)
Others(dir) == {c \in DOMAIN dir : ~dir[c]}

\* The list of strategies of K objects.
Strategies(dir) == dir \in Seq(BOOLEAN)

\* What Sorted has after each stage.
Stages(dir, n, st) ==
  st = [p \in 0..n |-> IF p = 0 THEN [next |-> 1, places |-> [i \in DOMAIN dir |-> i]]
                       ELSE Stage(st[p - 1], p, dir)]

\* The recursive function in Sorted exists.
LEMMA SortedStages ==
  ASSUME NEW dir, NEW n \in Nat
  PROVE  \E st : Stages(dir, n, st) /\ Sorted(dir, n) = st[n]
<1> DEFINE start == [next |-> 1, places |-> [i \in DOMAIN dir |-> i]]
           T == {m \in Nat : \E st : Stages(dir, m, st)}
<1>1. 0 \in T
  <2> DEFINE f == [p \in 0..0 |-> start]
  <2>1. Stages(dir, 0, f)
    BY DEF Stages
  <2> QED BY <2>1
<1>2. ASSUME NEW m \in T PROVE m + 1 \in T
  <2>1. PICK f : Stages(dir, m, f)
    OBVIOUS
  <2> DEFINE g == [p \in 0..(m + 1) |-> IF p = m + 1 THEN Stage(f[m], m + 1, dir) ELSE f[p]]
  <2>2. ASSUME NEW p \in 0..(m + 1)
        PROVE  g[p] = IF p = 0 THEN start ELSE Stage(g[p - 1], p, dir)
    <3>1. CASE p = 0
      BY <2>1, <3>1 DEF Stages
    <3>2. CASE p # 0 /\ p # m + 1
      <4>1. p - 1 \in 0..m /\ p - 1 \in 0..(m + 1) /\ p - 1 # m + 1 /\ p \in 0..m
        BY <3>2
      <4>2. g[p] = f[p] /\ g[p - 1] = f[p - 1]
        BY <3>2, <4>1
      <4>3. f[p] = Stage(f[p - 1], p, dir)
        BY <2>1, <3>2, <4>1 DEF Stages
      <4> HIDE DEF g
      <4> QED BY <3>2, <4>2, <4>3
    <3>3. CASE p = m + 1
      <4>1. p - 1 = m /\ m \in 0..(m + 1) /\ m # m + 1 /\ p # 0
        BY <3>3
      <4>2. g[p] = Stage(f[m], p, dir) /\ g[p - 1] = f[m]
        BY <3>3, <4>1
      <4> HIDE DEF g
      <4> QED BY <4>1, <4>2
    <3> QED BY <3>1, <3>2, <3>3
  <2>3. g = [p \in 0..(m + 1) |-> g[p]]
    OBVIOUS
  <2> HIDE DEF g
  <2>4. Stages(dir, m + 1, g)
    BY <2>2, <2>3 DEF Stages
  <2> QED BY <2>4
<1> HIDE DEF T
<1>3. n \in T
  <2>1. T \in SUBSET Nat
    BY DEF T
  <2> QED BY <1>1, <1>2, <2>1, Induction
<1>4. \E st : Stages(dir, n, st)
  BY <1>3 DEF T
<1>5. Stages(dir, n, CHOOSE st : Stages(dir, n, st))
  BY <1>4
<1>6. Sorted(dir, n) = (CHOOSE st : Stages(dir, n, st))[n]
  BY DEF Sorted, Stages
<1> QED BY <1>5, <1>6

\* The state after p stages: places name objects, and while p of them are not
\* direct, the first p places are these, in order.
StageOK(st, p, dir) ==
  /\ st = [next |-> st.next, places |-> st.places]
  /\ st.next \in 1..(Len(dir) + 1)
  /\ st.places \in [1..Len(dir) -> 1..Len(dir)]
  /\ p <= Cardinality(Others(dir)) =>
       /\ \A q \in 1..p : st.places[q] \in Others(dir) /\ st.places[q] < st.next
       /\ \A q, r \in 1..p : q < r => st.places[q] < st.places[r]
       /\ Cardinality({c \in Others(dir) : c < st.next}) = p

\* How many objects are not direct.
LEMMA OthersCount ==
  ASSUME NEW dir, Strategies(dir)
  PROVE  /\ Len(dir) \in Nat /\ DOMAIN dir = 1..Len(dir)
         /\ Others(dir) \in SUBSET (1..Len(dir))
         /\ IsFiniteSet(Others(dir)) /\ Cardinality(Others(dir)) \in 0..Len(dir)
<1>1. Len(dir) \in Nat /\ DOMAIN dir = 1..Len(dir)
  BY DEF Strategies
<1>2. Others(dir) \in SUBSET (1..Len(dir))
  BY <1>1 DEF Others
<1>3. IsFiniteSet(1..Len(dir)) /\ Cardinality(1..Len(dir)) = Len(dir)
  <2> DEFINE n == Len(dir)
  <2>1. n \in Nat
    BY <1>1
  <2> HIDE DEF n
  <2>2. IsFiniteSet(1..n) /\ Cardinality(1..n) = n
    BY <2>1, FS_Interval
  <2> QED BY <2>2 DEF n
<1>4. IsFiniteSet(Others(dir)) /\ Cardinality(Others(dir)) <= Len(dir) /\ Cardinality(Others(dir)) \in Nat
  BY <1>2, <1>3, FS_Subset, FS_CardinalityType
<1> QED BY <1>1, <1>2, <1>4

\* Stage: one more object found and put in its place.
LEMMA StageStep ==
  ASSUME NEW dir, Strategies(dir), NEW p \in Nat, NEW st, StageOK(st, p, dir)
  PROVE  StageOK(Stage(st, p + 1, dir), p + 1, dir)
<1> DEFINE K == Len(dir)  O == Others(dir)
           others == {c \in st.next..K : ~dir[c]}
           new == Stage(st, p + 1, dir)
           Before(m) == {c \in O : c < m}
<1>1. K \in Nat /\ DOMAIN dir = 1..K /\ O \in SUBSET (1..K) /\ IsFiniteSet(O) /\ Cardinality(O) \in 0..K
  BY OthersCount
<1>2. st.next \in 1..(K + 1) /\ st.places \in [1..K -> 1..K]
  BY DEF StageOK
<1>3. others = {c \in O : st.next <= c}
  BY <1>1, <1>2 DEF Others
<1>4. st.next > K => others = {}
  BY <1>1, <1>2
<1>5. CASE others = {}
  <2>1. new = [next |-> K + 1, places |-> st.places]
    <3>1. CASE st.next > K
      <4>1. st.next = K + 1
        BY <1>1, <1>2, <3>1
      <4> QED BY <3>1, <4>1 DEF Stage, StageOK
    <3>2. CASE ~(st.next > K)
      BY <1>5, <3>2 DEF Stage, StageOK
    <3> QED BY <3>1, <3>2
  <2>2. Before(st.next) = O
    BY <1>1, <1>2, <1>3, <1>5
  <2>3. ~(p + 1 <= Cardinality(O))
    <3>1. p <= Cardinality(O) => Cardinality(Before(st.next)) = p
      BY DEF StageOK
    <3> HIDE DEF O, Before
    <3> QED BY <1>1, <2>2, <3>1
  <2> QED BY <1>1, <1>2, <2>1, <2>3 DEF StageOK
<1>6. CASE others # {}
  <2> DEFINE c == CHOOSE o \in others : \A q \in others : o <= q
  <2>1. c \in others /\ \A q \in others : c <= q
    <3>1. others \in SUBSET Nat
      BY <1>1, <1>3
    <3> HIDE DEF others
    <3>2. \E o \in others : \A q \in others : o <= q
      BY <1>6, <3>1, Least
    <3> QED BY <3>2
  <2>2. new = [next |-> c + 1, places |-> [st.places EXCEPT ![p + 1] = c]]
    BY <1>4, <1>6 DEF Stage
  <2> HIDE DEF c, others, new
  <2>3. c \in 1..K /\ c \in O /\ st.next <= c /\ c + 1 \in 1..(K + 1)
    BY <1>1, <1>2, <1>3, <2>1
  <2>4. new.next = c + 1 /\ new.places = [st.places EXCEPT ![p + 1] = c]
        /\ new = [next |-> new.next, places |-> new.places]
    BY <2>2
  <2>5. new.places \in [1..K -> 1..K] /\ new.next \in 1..(K + 1)
    BY <1>2, <2>3, <2>4
  <2>6. ASSUME p + 1 <= Cardinality(O)
        PROVE  /\ \A q \in 1..(p + 1) : new.places[q] \in O /\ new.places[q] < new.next
               /\ \A q, r \in 1..(p + 1) : q < r => new.places[q] < new.places[r]
               /\ Cardinality({x \in O : x < new.next}) = p + 1
    <3>1. /\ \A q \in 1..p : st.places[q] \in O /\ st.places[q] < st.next
          /\ \A q, r \in 1..p : q < r => st.places[q] < st.places[r]
          /\ Cardinality(Before(st.next)) = p
      BY <1>1, <2>6 DEF StageOK
    <3>2. p + 1 \in 1..K
      BY <1>1, <2>6
    <3>3. new.places[p + 1] = c /\ \A q \in 1..p : new.places[q] = st.places[q]
      BY <1>2, <2>4, <3>2
    <3>4. \A q \in 1..(p + 1) : q = p + 1 \/ q \in 1..p
      OBVIOUS
    <3>5. \A q \in 1..(p + 1) : new.places[q] \in O /\ new.places[q] < new.next
      <4>1. ASSUME NEW q \in 1..p PROVE new.places[q] \in O /\ new.places[q] < new.next
        <5>1. st.places[q] \in Nat
          BY <1>1, <3>1
        <5> QED BY <1>2, <2>3, <2>4, <3>1, <3>3, <5>1
      <4>2. new.places[p + 1] \in O /\ new.places[p + 1] < new.next
        BY <2>3, <2>4, <3>3
      <4> QED BY <3>4, <4>1, <4>2
    <3>6. ASSUME NEW q \in 1..(p + 1), NEW r \in 1..(p + 1), q < r
          PROVE  new.places[q] < new.places[r]
      <4>1. q \in 1..p
        BY <3>6
      <4>2. CASE r \in 1..p
        BY <3>1, <3>3, <3>6, <4>1, <4>2
      <4>3. CASE r = p + 1
        <5>1. st.places[q] \in Nat /\ st.places[q] < st.next
          BY <1>1, <3>1, <4>1
        <5> QED BY <1>2, <2>3, <3>3, <4>1, <4>3, <5>1
      <4> QED BY <3>4, <4>2, <4>3
    <3>7. {x \in O : x < new.next} = Before(st.next) \cup {c}
      <4>1. ASSUME NEW x \in O PROVE x < c + 1 <=> x < st.next \/ x = c
        <5>1. x \in Nat
          BY <1>1
        <5>2. x < c /\ ~(x < st.next) => FALSE
          BY <1>2, <1>3, <2>1, <2>3, <5>1
        <5> QED BY <1>2, <2>3, <5>1, <5>2
      <4> QED BY <2>3, <2>4, <4>1
    <3>8. c \notin Before(st.next) /\ IsFiniteSet(Before(st.next))
      <4>1. Before(st.next) \in SUBSET O
        OBVIOUS
      <4>2. ~(c < st.next)
        BY <1>2, <2>3
      <4> QED BY <1>1, <4>1, <4>2, FS_Subset
    <3> HIDE DEF Before
    <3>9. Cardinality({x \in O : x < new.next}) = p + 1
      BY <3>1, <3>7, <3>8, FS_AddElement
    <3> QED BY <3>5, <3>6, <3>9
  <2>7. p + 1 <= Cardinality(O) =>
           /\ \A q \in 1..(p + 1) : new.places[q] \in O /\ new.places[q] < new.next
           /\ \A q, r \in 1..(p + 1) : q < r => new.places[q] < new.places[r]
           /\ Cardinality({x \in O : x < new.next}) = p + 1
    BY <2>6
  <2> HIDE DEF O, K
  <2>8. StageOK(new, p + 1, dir)
    BY <2>4, <2>5, <2>7 DEF StageOK, O, K
  <2> QED BY <2>8 DEF new
<1> QED BY <1>5, <1>6

\* Sorted, for every number of stages.
LEMMA SortedRight ==
  ASSUME NEW dir, Strategies(dir), NEW n \in Nat
  PROVE  StageOK(Sorted(dir, n), n, dir)
<1>1. PICK st : Stages(dir, n, st) /\ Sorted(dir, n) = st[n]
  BY SortedStages
<1> DEFINE T == {p \in Nat : p <= n => StageOK(st[p], p, dir)}
<1>2. 0 \in T
  <2> DEFINE start == [next |-> 1, places |-> [i \in DOMAIN dir |-> i]]
  <2>1. st[0] = start
    BY <1>1 DEF Stages
  <2>2. Len(dir) \in Nat /\ DOMAIN dir = 1..Len(dir) /\ Others(dir) \in SUBSET (1..Len(dir))
    BY OthersCount
  <2>3. {c \in Others(dir) : c < 1} = {}
    BY <2>2
  <2>4. Cardinality({c \in Others(dir) : c < start.next}) = 0
    BY <2>3, FS_EmptySet
  <2>5. start.next \in 1..(Len(dir) + 1) /\ start.places \in [1..Len(dir) -> 1..Len(dir)]
    BY <2>2
  <2>6. start = [next |-> start.next, places |-> start.places]
    OBVIOUS
  <2> HIDE DEF start
  <2>7. StageOK(start, 0, dir)
    BY <2>4, <2>5, <2>6 DEF StageOK
  <2> QED BY <2>1, <2>7
<1>3. ASSUME NEW p \in T PROVE p + 1 \in T
  <2>1. SUFFICES ASSUME p + 1 <= n PROVE StageOK(st[p + 1], p + 1, dir)
    OBVIOUS
  <2>2. p \in Nat /\ StageOK(st[p], p, dir)
    BY <2>1
  <2>3. p + 1 \in 0..n /\ p + 1 # 0 /\ p + 1 - 1 = p
    BY <2>1, <2>2
  <2>4. st[p + 1] = Stage(st[p], p + 1, dir)
    BY <1>1, <2>3 DEF Stages
  <2> QED BY <2>2, <2>4, StageStep
<1> HIDE DEF T
<1>4. n \in T
  <2>1. T \in SUBSET Nat
    BY DEF T
  <2> QED BY <1>2, <1>3, <2>1, Induction
<1> QED BY <1>1, <1>4 DEF T

(***************************************************************************)
(* Which objects are passed on                                             *)
(***************************************************************************)
\* What an overload may answer: places of objects, no two the same if the
\* count is right or too low, and then as many as counted, none of them direct.
Answers(got, dir, m) ==
  /\ got = [places |-> got.places, throws |-> got.throws]
  /\ got.places \in Seq(1..Len(dir))
  /\ got.throws # "none" => got.places = <<>> /\ got.throws # "bounds"
  /\ m <= Cardinality(Others(dir)) =>
       /\ got.throws = "none" /\ Len(got.places) = m
       /\ \A k \in 1..m : got.places[k] \in Others(dir)
       /\ \A k, l \in 1..m : k # l => got.places[k] # got.places[l]

\* The same, with no two places the same whatever the count.
AnswersOnce(got, dir, m) ==
  Answers(got, dir, m) /\ \A k, l \in 1..Len(got.places) : k # l => got.places[k] # got.places[l]

\* A count of m objects that are not direct, among so few.
LEMMA Counted ==
  ASSUME NEW dir, Strategies(dir), NEW m \in Nat, m <= Cardinality(Others(dir))
  PROVE  /\ m <= Len(dir)
         /\ m = Len(dir) => \A k \in 1..Len(dir) : k \in Others(dir)
         /\ m # 0 => \E k \in 1..Len(dir) : k \in Others(dir)
         /\ m = Len(dir) - 1 => \A k, l \in 1..Len(dir) : k # l => k \in Others(dir) \/ l \in Others(dir)
<1> DEFINE K == Len(dir)  O == Others(dir)
<1>1. K \in Nat /\ O \in SUBSET (1..K) /\ IsFiniteSet(O) /\ Cardinality(O) \in 0..K
  BY OthersCount
<1> HIDE DEF K, O
<1>2. IsFiniteSet(1..K) /\ Cardinality(1..K) = K
  BY <1>1, FS_Interval
<1>3. m <= Cardinality(O)
  BY DEF O
<1>4. ASSUME m = K PROVE O = 1..K
  <2>1. Cardinality(O) = Cardinality(1..K)
    BY <1>1, <1>2, <1>3, <1>4
  <2> QED BY <1>1, <1>2, <2>1, FS_Subset
<1>5. ASSUME m # 0 PROVE O # {}
  BY <1>1, <1>3, <1>5, FS_EmptySet
<1>6. ASSUME m = K - 1, NEW k \in 1..K, NEW l \in 1..K, k # l, k \notin O, l \notin O PROVE FALSE
  <2> DEFINE Q == (1..K) \ {k}
  <2>1. IsFiniteSet(Q) /\ Cardinality(Q) = K - 1 /\ l \in Q
    BY <1>2, <1>6, FS_RemoveElement
  <2>2. IsFiniteSet(Q \ {l}) /\ Cardinality(Q \ {l}) = K - 1 - 1
    <3> HIDE DEF Q
    <3> QED BY <2>1, FS_RemoveElement
  <2>3. O \in SUBSET (((1..K) \ {k}) \ {l})
    BY <1>1, <1>6
  <2> DEFINE R == ((1..K) \ {k}) \ {l}
  <2> HIDE DEF R
  <2>4. IsFiniteSet(R) /\ O \in SUBSET R /\ Cardinality(R) = K - 1 - 1
    BY <2>2, <2>3 DEF R
  <2>5. Cardinality(O) <= Cardinality(R)
    BY <2>4, FS_Subset
  <2> QED BY <1>1, <1>3, <1>6, <2>4, <2>5
<1> QED BY <1>1, <1>3, <1>4, <1>5, <1>6 DEF K, O

\* Reporting too few objects is an answer where there are too few.
LEMMA Throws ==
  ASSUME NEW dir, NEW m \in Nat, ~(m <= Cardinality(Others(dir))), NEW what, what \notin {"none", "bounds"}
  PROVE  AnswersOnce(Throw(what), dir, m)
BY DEF AnswersOnce, Answers, Throw

\* An answer that names different objects that are not direct.
LEMMA Passes ==
  ASSUME NEW dir, NEW m \in Nat, NEW places, places \in Seq(1..Len(dir)),
         m <= Cardinality(Others(dir)) => /\ Len(places) = m
                                          /\ \A k \in 1..m : places[k] \in Others(dir),
         \A k, l \in 1..Len(places) : k # l => places[k] # places[l]
  PROVE  AnswersOnce(Pass(places), dir, m)
BY DEF AnswersOnce, Answers, Pass

\* ObjectParameterInvoker of one object.
LEMMA OneRight ==
  ASSUME NEW dir, Strategies(dir), Len(dir) = 1, NEW m \in Nat, m # 0
  PROVE  AnswersOnce(OneObject(dir, m), dir, m)
<1>1. CASE m = 1
  <2> DEFINE places == <<1>>
  <2>1. OneObject(dir, m) = Pass(places)
    BY <1>1 DEF OneObject
  <2>2. ASSUME m <= Cardinality(Others(dir)) PROVE 1 \in Others(dir)
    <3>1. m = Len(dir)
      BY <1>1
    <3>2. \A k \in 1..Len(dir) : k \in Others(dir)
      BY <2>2, <3>1, Counted
    <3> QED BY <3>2
  <2>3. places \in Seq(1..Len(dir)) /\ Len(places) = 1 /\ places[1] = 1
    OBVIOUS
  <2> HIDE DEF places
  <2>4. m <= Cardinality(Others(dir)) => Len(places) = m /\ \A k \in 1..m : places[k] \in Others(dir)
    BY <1>1, <2>2, <2>3
  <2>5. \A k, l \in 1..Len(places) : k # l => places[k] # places[l]
    BY <2>3
  <2>6. AnswersOnce(Pass(places), dir, m)
    BY <2>3, <2>4, <2>5, Passes
  <2> QED BY <2>1, <2>6
<1>2. CASE m # 1
  <2>1. ASSUME m <= Cardinality(Others(dir)) PROVE FALSE
    <3>1. m <= Len(dir)
      BY <2>1, Counted
    <3> QED BY <1>2, <3>1
  <2> QED BY <1>2, <2>1, Throws DEF OneObject
<1> QED BY <1>1, <1>2

\* ObjectParameterInvoker of two objects.
LEMMA TwoRight ==
  ASSUME NEW dir, Strategies(dir), Len(dir) = 2, NEW m \in Nat, m # 0
  PROVE  AnswersOnce(TwoObjects(dir, m), dir, m)
<1>0. DOMAIN dir = 1..2
  BY OthersCount
<1>1. CASE m = 1
  <2> DEFINE c == IF dir[1] /\ ~dir[2] THEN 2 ELSE 1
             places == <<c>>
  <2>1. TwoObjects(dir, m) = Pass(places)
    BY <1>1 DEF TwoObjects
  <2>2. ASSUME m <= Cardinality(Others(dir)) PROVE c \in Others(dir)
    <3>1. \E k \in 1..Len(dir) : k \in Others(dir)
      BY <2>2, Counted
    <3>2. PICK k \in 1..2 : k \in Others(dir)
      BY <3>1
    <3> QED BY <1>0, <3>2 DEF Others
  <2>3. c \in 1..2
    OBVIOUS
  <2> HIDE DEF c
  <2>4. places \in Seq(1..Len(dir)) /\ Len(places) = 1 /\ places[1] = c
    BY <2>3
  <2> HIDE DEF places
  <2>5. m <= Cardinality(Others(dir)) => Len(places) = m /\ \A k \in 1..m : places[k] \in Others(dir)
    BY <1>1, <2>2, <2>4
  <2>6. \A k, l \in 1..Len(places) : k # l => places[k] # places[l]
    BY <2>4
  <2>7. AnswersOnce(Pass(places), dir, m)
    BY <2>4, <2>5, <2>6, Passes
  <2> QED BY <2>1, <2>7
<1>2. CASE m = 2
  <2> DEFINE places == <<1, 2>>
  <2>1. TwoObjects(dir, m) = Pass(places)
    BY <1>2 DEF TwoObjects
  <2>2. ASSUME m <= Cardinality(Others(dir)) PROVE 1 \in Others(dir) /\ 2 \in Others(dir)
    <3>1. m = Len(dir)
      BY <1>2
    <3>2. \A k \in 1..Len(dir) : k \in Others(dir)
      BY <2>2, <3>1, Counted
    <3> QED BY <3>2
  <2>3. places \in Seq(1..Len(dir)) /\ Len(places) = 2 /\ places[1] = 1 /\ places[2] = 2
    OBVIOUS
  <2> HIDE DEF places
  <2>4. m <= Cardinality(Others(dir)) => Len(places) = m /\ \A k \in 1..m : places[k] \in Others(dir)
    BY <1>2, <2>2, <2>3
  <2>5. \A k, l \in 1..Len(places) : k # l => places[k] # places[l]
    BY <2>3
  <2>6. AnswersOnce(Pass(places), dir, m)
    BY <2>3, <2>4, <2>5, Passes
  <2> QED BY <2>1, <2>6
<1>3. CASE m \notin {1, 2}
  <2>1. ASSUME m <= Cardinality(Others(dir)) PROVE FALSE
    <3>1. m <= Len(dir)
      BY <2>1, Counted
    <3> QED BY <1>3, <3>1
  <2>2. TwoObjects(dir, m) = Throw("count")
    BY <1>3 DEF TwoObjects
  <2> QED BY <2>1, <2>2, Throws
<1> QED BY <1>1, <1>2, <1>3

\* FirstOf: the first m places of the sort.
LEMMA ManyRight ==
  ASSUME NEW dir, Strategies(dir), NEW m \in Nat
  PROVE  Answers(ManyObjects(dir, m), dir, m)
<1>1. Len(dir) \in Nat /\ Others(dir) \in SUBSET (1..Len(dir)) /\ Cardinality(Others(dir)) \in 0..Len(dir)
  BY OthersCount
<1>2. CASE m <= Len(dir)
  <2> DEFINE places == Sorted(dir, m).places  K == Len(dir)
  <2>1. StageOK(Sorted(dir, m), m, dir)
    BY SortedRight
  <2>2. places \in [1..K -> 1..K]
    BY <2>1 DEF StageOK
  <2>3. m <= Cardinality(Others(dir)) =>
          /\ \A k \in 1..m : places[k] \in Others(dir)
          /\ \A k, l \in 1..m : k < l => places[k] < places[l]
    BY <2>1 DEF StageOK
  <2>4. ManyObjects(dir, m) = [places |-> FirstOf(dir, m), throws |-> "none"]
    BY <1>2 DEF ManyObjects, Pass
  <2>5. FirstOf(dir, m) = SubSeq(places, 1, m)
    BY DEF FirstOf
  <2> HIDE DEF places, K
  <2>6. places \in Seq(1..K) /\ Len(places) = K /\ K \in Nat /\ m <= K
    BY <1>1, <1>2, <2>2 DEF K
  <2>7. SubSeq(places, 1, m) \in Seq(1..K) /\ Len(SubSeq(places, 1, m)) = m
        /\ \A k \in 1..m : SubSeq(places, 1, m)[k] = places[k]
    BY <2>6
  <2>8. ASSUME m <= Cardinality(Others(dir)), NEW k \in 1..m, NEW l \in 1..m, k # l
        PROVE  places[k] # places[l]
    <3>1. places[k] \in Nat /\ places[l] \in Nat
      BY <1>1, <2>3, <2>8
    <3>2. k < l \/ l < k
      BY <2>8
    <3> QED BY <2>3, <2>8, <3>1, <3>2
  <2> QED BY <2>3, <2>4, <2>5, <2>7, <2>8 DEF Answers, K
<1>3. CASE ~(m <= Len(dir))
  <2>1. ~(m <= Cardinality(Others(dir)))
    BY <1>1, <1>3
  <2> QED BY <1>3, <2>1, Throws DEF ManyObjects, AnswersOnce
<1> QED BY <1>2, <1>3

\* An element of a sequence.
LEMMA ElementIn == ASSUME NEW S, NEW s \in Seq(S), NEW k \in DOMAIN s PROVE s[k] \in S
OBVIOUS

\* invokeN3 with its own code for three objects.
LEMMA ThreeRight ==
  ASSUME NEW dir, Strategies(dir), Len(dir) = 3, NEW m \in Nat, m # 0
  PROVE  AnswersOnce(invokeN3(dir, m), dir, m)
<1> DEFINE first == IF ~dir[1] THEN 1 ELSE IF ~dir[2] THEN 2 ELSE 3
           second == IF (first = 1 /\ ~dir[2]) \/ first = 3 THEN 2 ELSE 3
<1>1. DOMAIN dir = 1..3 /\ dir[1] \in BOOLEAN /\ dir[2] \in BOOLEAN /\ dir[3] \in BOOLEAN
  <2>1. DOMAIN dir = 1..Len(dir) /\ \A k \in DOMAIN dir : dir[k] \in BOOLEAN
    BY OthersCount, ElementIn, Zenon DEF Strategies
  <2>2. DOMAIN dir = 1..3 /\ 1 \in 1..3 /\ 2 \in 1..3 /\ 3 \in 1..3
    BY <2>1
  <2> QED BY <2>1, <2>2, Zenon
<1> DEFINE all == IF m < 3 THEN <<first, second>> ELSE <<1, 2, 3>>
           n == IF m < 3 THEN m ELSE 3
           places == SubSeq(all, 1, n)
<1>2. invokeN3(dir, m) = Pass(places)
  BY DEF invokeN3
<1>3. first \in 1..3 /\ second \in 1..3 /\ first # second
  OBVIOUS
<1>4. ASSUME m = 1, m <= Cardinality(Others(dir)) PROVE first \in Others(dir)
  <2>1. \E k \in 1..Len(dir) : k \in Others(dir)
    BY <1>4, Counted
  <2>2. PICK k \in 1..3 : k \in Others(dir)
    BY <2>1
  <2> QED BY <1>1, <2>2 DEF Others
<1>5. ASSUME m = 2, m <= Cardinality(Others(dir)) PROVE first \in Others(dir) /\ second \in Others(dir)
  <2>1. m = Len(dir) - 1
    BY <1>5
  <2>2. \A k, l \in 1..Len(dir) : k # l => k \in Others(dir) \/ l \in Others(dir)
    BY <1>5, <2>1, Counted
  <2> QED BY <1>1, <2>2 DEF Others
<1>6. ASSUME ~(m < 3), m <= Cardinality(Others(dir)) PROVE m = 3 /\ \A k \in 1..3 : k \in Others(dir)
  <2>1. m <= Len(dir)
    BY <1>6, Counted
  <2>2. m = Len(dir)
    BY <1>6, <2>1
  <2>3. \A k \in 1..Len(dir) : k \in Others(dir)
    BY <1>6, <2>2, Counted
  <2> QED BY <2>2, <2>3
<1> HIDE DEF first, second
<1>7. all \in Seq(1..3) /\ n \in 1..Len(all) /\ \A k, l \in 1..Len(all) : k # l => all[k] # all[l]
  <2>1. CASE m < 3
    <3>1. all = <<first, second>> /\ n = m /\ m \in 1..2
      BY <2>1
    <3> HIDE DEF all, n
    <3>2. all \in Seq(1..3) /\ Len(all) = 2 /\ all[1] = first /\ all[2] = second
      BY <1>3, <3>1
    <3> QED BY <1>3, <3>1, <3>2
  <2>2. CASE ~(m < 3)
    <3>1. all = <<1, 2, 3>> /\ n = 3
      BY <2>2
    <3> HIDE DEF all, n
    <3>2. all \in Seq(1..3) /\ Len(all) = 3 /\ all[1] = 1 /\ all[2] = 2 /\ all[3] = 3
      BY <3>1
    <3> QED BY <3>1, <3>2
  <2> QED BY <2>1, <2>2
<1>8. ASSUME m <= Cardinality(Others(dir)) PROVE n = m /\ \A k \in 1..m : all[k] \in Others(dir)
  <2>1. CASE m = 1
    <3>1. all = <<first, second>> /\ n = m
      BY <2>1
    <3> QED BY <1>4, <1>8, <2>1, <3>1
  <2>2. CASE m = 2
    <3>1. all = <<first, second>> /\ n = m
      BY <2>2
    <3> QED BY <1>5, <1>8, <2>2, <3>1
  <2>3. CASE ~(m < 3)
    <3>1. all = <<1, 2, 3>> /\ n = 3
      BY <2>3
    <3> QED BY <1>6, <1>8, <2>3, <3>1
  <2> QED BY <2>1, <2>2, <2>3
<1> HIDE DEF all, n
<1>9. places \in Seq(1..3) /\ Len(places) = n /\ \A k \in 1..n : places[k] = all[k]
  BY <1>7
<1> HIDE DEF places
<1>10. places \in Seq(1..Len(dir))
  BY <1>9
<1>11. \A k, l \in 1..Len(places) : k # l => places[k] # places[l]
  <2>1. \A k \in 1..n : k \in 1..Len(all)
    BY <1>7
  <2> QED BY <1>7, <1>9, <2>1
<1>12. m <= Cardinality(Others(dir)) => Len(places) = m /\ \A k \in 1..m : places[k] \in Others(dir)
  BY <1>8, <1>9
<1>13. AnswersOnce(Pass(places), dir, m)
  BY <1>10, <1>11, <1>12, Passes
<1> QED BY <1>2, <1>13

\* invokeN4 refuses a count that is right in no case.
LEMMA FourRight ==
  ASSUME NEW dir, Strategies(dir), Len(dir) >= 1, NEW m \in Nat, m # 0
  PROVE  Answers(invokeN4(dir, m), dir, m)
<1> DEFINE k == Len(dir)
           refused == k >= 3 /\ m >= k /\ (Sorted(dir, k - 1).next # k \/ dir[k])
<1>1. k \in Nat /\ DOMAIN dir = 1..k /\ Others(dir) \in SUBSET (1..k)
  BY OthersCount
<1>2. CASE k = 1
  <2>1. invokeN4(dir, m) = OneObject(dir, m)
    BY <1>2 DEF invokeN4
  <2> QED BY <1>2, <2>1, OneRight DEF AnswersOnce
<1>3. CASE k = 2
  <2>1. invokeN4(dir, m) = TwoObjects(dir, m)
    BY <1>3 DEF invokeN4
  <2> QED BY <1>3, <2>1, TwoRight DEF AnswersOnce
<1>4. CASE k \notin {1, 2} /\ refused
  <2>1. invokeN4(dir, m) = Throw("insufficient")
    BY <1>4 DEF invokeN4
  <2>2. ASSUME m <= Cardinality(Others(dir)) PROVE FALSE
    <3>1. m <= k
      BY <2>2, Counted
    <3>2. m = k
      <4>1. m >= k /\ k \in Nat
        BY <1>1, <1>4
      <4> HIDE DEF k
      <4> QED BY <3>1, <4>1
    <3>3. \A c \in 1..k : c \in Others(dir)
      BY <2>2, <3>2, Counted
    <3>4. ~dir[k]
      BY <1>1, <1>4, <3>3 DEF Others
    <3> DEFINE next == Sorted(dir, k - 1).next
    <3>5. k - 1 \in Nat /\ k - 1 <= Cardinality(Others(dir))
      <4>1. Cardinality(Others(dir)) \in Nat
        BY OthersCount
      <4> QED BY <1>1, <1>4, <2>2, <3>2, <4>1
    <3>6. StageOK(Sorted(dir, k - 1), k - 1, dir)
      BY <3>5, SortedRight
    <3>7. next \in 1..(k + 1) /\ Cardinality({c \in Others(dir) : c < next}) = k - 1
      BY <3>5, <3>6 DEF StageOK
    <3> HIDE DEF next, k
    <3>8. {c \in Others(dir) : c < next} = 1..(next - 1)
      BY <1>1, <3>3, <3>7
    <3>9. Cardinality(1..(next - 1)) = next - 1
      <4> DEFINE z == next - 1
      <4>1. z \in Nat
        BY <1>1, <3>7
      <4> HIDE DEF z
      <4>2. Cardinality(1..z) = z
        BY <4>1, FS_Interval
      <4> QED BY <4>2 DEF z
    <3>10. next - 1 = k - 1
      BY <3>7, <3>8, <3>9
    <3>11. next = k
      BY <1>1, <3>7, <3>10
    <3> QED BY <1>4, <3>4, <3>11 DEF next, k
  <2> QED BY <2>1, <2>2, Throws DEF AnswersOnce
<1>5. CASE k \notin {1, 2} /\ ~refused
  <2>1. invokeN4(dir, m) = ManyObjects(dir, m)
    BY <1>5 DEF invokeN4
  <2> QED BY <2>1, ManyRight
<1> QED BY <1>2, <1>3, <1>4, <1>5

\* invokeN5, and invokeN6 like it: a single object may be the second of two.
LEMMA FiveRight ==
  ASSUME NEW dir, Strategies(dir), Len(dir) >= 1, NEW m \in Nat, m # 0
  PROVE  Answers(invokeN5(dir, m), dir, m)
<1>1. Len(dir) \in Nat /\ DOMAIN dir = 1..Len(dir)
  BY OthersCount
<1>2. CASE Len(dir) = 1
  <2>1. invokeN5(dir, m) = OneObject(dir, m)
    BY <1>2 DEF invokeN5
  <2> QED BY <1>2, <2>1, OneRight DEF AnswersOnce
<1>3. CASE Len(dir) = 2 /\ m = 1 /\ dir[1]
  <2> DEFINE places == <<2>>
  <2>1. invokeN5(dir, m) = Pass(places)
    BY <1>3 DEF invokeN5
  <2>2. ASSUME m <= Cardinality(Others(dir)) PROVE 2 \in Others(dir)
    <3>1. \E c \in 1..Len(dir) : c \in Others(dir)
      BY <1>3, <2>2, Counted
    <3>2. PICK c \in 1..2 : c \in Others(dir)
      BY <1>3, <3>1
    <3> QED BY <1>1, <1>3, <3>2 DEF Others
  <2>3. places \in Seq(1..Len(dir)) /\ Len(places) = 1 /\ places[1] = 2
    BY <1>3
  <2> HIDE DEF places
  <2>4. m <= Cardinality(Others(dir)) => Len(places) = m /\ \A k \in 1..m : places[k] \in Others(dir)
    BY <1>3, <2>2, <2>3
  <2>5. \A k, l \in 1..Len(places) : k # l => places[k] # places[l]
    BY <2>3
  <2>6. AnswersOnce(Pass(places), dir, m)
    BY <2>3, <2>4, <2>5, Passes
  <2> QED BY <2>1, <2>6 DEF AnswersOnce
<1>4. CASE Len(dir) = 2 /\ ~(m = 1 /\ dir[1])
  <2>1. invokeN5(dir, m) = TwoObjects(dir, m)
    BY <1>4 DEF invokeN5
  <2> QED BY <1>4, <2>1, TwoRight DEF AnswersOnce
<1>5. CASE Len(dir) \notin {1, 2}
  <2>1. invokeN5(dir, m) = ManyObjects(dir, m)
    BY <1>5 DEF invokeN5
  <2> QED BY <2>1, ManyRight
<1> QED BY <1>2, <1>3, <1>4, <1>5

\* Every overload, for a count as Outcomes gives it.
LEMMA OverloadRight ==
  ASSUME NEW dir, Strategies(dir), Len(sig.params) \in 0..6, Len(dir) <= Len(sig.params),
         NEW m \in Nat, Len(dir) = 0 => m = 0
  PROVE  /\ Answers(Overload(dir, m), dir, m)
         /\ Len(sig.params) <= 3 => AnswersOnce(Overload(dir, m), dir, m)
<1> DEFINE n == Len(sig.params)
<1>1. CASE m = 0
  <2>1. Overload(dir, m) = Pass(<<>>)
    BY <1>1 DEF Overload
  <2> DEFINE places == <<>>
  <2>2. places \in Seq(1..Len(dir)) /\ Len(places) = 0
    OBVIOUS
  <2> HIDE DEF places
  <2>3. m <= Cardinality(Others(dir)) => Len(places) = m /\ \A k \in 1..m : places[k] \in Others(dir)
    BY <1>1, <2>2
  <2>4. \A k, l \in 1..Len(places) : k # l => places[k] # places[l]
    BY <2>2
  <2>5. AnswersOnce(Pass(places), dir, m)
    BY <2>2, <2>3, <2>4, Passes
  <2> QED BY <2>1, <2>5 DEF AnswersOnce, places
<1>2. CASE m # 0
  <2>0. Len(dir) \in Nat /\ Len(dir) >= 1
    BY <1>2, OthersCount
  <2>1. CASE n = 1
    <3>1. Len(dir) = 1
      BY <2>0, <2>1
    <3>2. Overload(dir, m) = OneObject(dir, m)
      BY <1>2, <2>1 DEF Overload, invokeN1
    <3> QED BY <1>2, <3>1, <3>2, OneRight DEF AnswersOnce
  <2>2. CASE n = 2
    <3>1. CASE Len(dir) = 1
      <4>1. Overload(dir, m) = OneObject(dir, m)
        BY <1>2, <2>2, <3>1 DEF Overload, invokeN2
      <4> QED BY <1>2, <3>1, <4>1, OneRight DEF AnswersOnce
    <3>2. CASE Len(dir) = 2
      <4>1. Overload(dir, m) = TwoObjects(dir, m)
        BY <1>2, <2>2, <3>2 DEF Overload, invokeN2
      <4> QED BY <1>2, <3>2, <4>1, TwoRight DEF AnswersOnce
    <3>3. Len(dir) \in {1, 2}
      <4> DEFINE k == Len(dir)
      <4>1. k \in Nat /\ k >= 1 /\ k <= n
        BY <2>0
      <4> HIDE DEF k, n
      <4>2. k \in {1, 2}
        BY <2>2, <4>1
      <4> QED BY <4>2 DEF k
    <3> QED BY <3>1, <3>2, <3>3
  <2>3. CASE n = 3
    <3>1. Overload(dir, m) = invokeN3(dir, m)
      BY <1>2, <2>3 DEF Overload
    <3>2. CASE Len(dir) = 1
      <4>1. CASE m = 1 /\ dir[1]
        <5>1. invokeN3(dir, m) = Throw("insufficient")
          BY <3>2, <4>1 DEF invokeN3
        <5>2. ASSUME m <= Cardinality(Others(dir)) PROVE FALSE
          <6>1. m = Len(dir)
            BY <3>2, <4>1
          <6>2. \A k \in 1..Len(dir) : k \in Others(dir)
            BY <5>2, <6>1, Counted
          <6>3. 1 \in Others(dir)
            BY <3>2, <6>2
          <6> QED BY <4>1, <6>3 DEF Others
        <5> QED BY <3>1, <5>1, <5>2, Throws DEF AnswersOnce
      <4>2. CASE ~(m = 1 /\ dir[1])
        <5>1. invokeN3(dir, m) = OneObject(dir, m)
          BY <3>2, <4>2 DEF invokeN3
        <5> QED BY <1>2, <3>1, <3>2, <5>1, OneRight DEF AnswersOnce
      <4> QED BY <4>1, <4>2
    <3>3. CASE Len(dir) = 2
      <4>1. invokeN3(dir, m) = TwoObjects(dir, m)
        BY <3>3 DEF invokeN3
      <4> QED BY <1>2, <3>1, <3>3, <4>1, TwoRight DEF AnswersOnce
    <3>4. CASE Len(dir) = 3
      BY <1>2, <3>1, <3>4, ThreeRight DEF AnswersOnce
    <3>5. Len(dir) \in {1, 2, 3}
      <4> DEFINE k == Len(dir)
      <4>1. k \in Nat /\ k >= 1 /\ k <= n
        BY <2>0
      <4> HIDE DEF k, n
      <4>2. k \in {1, 2, 3}
        BY <2>3, <4>1
      <4> QED BY <4>2 DEF k
    <3> QED BY <3>2, <3>3, <3>4, <3>5
  <2>4. CASE n = 4
    <3>1. Overload(dir, m) = invokeN4(dir, m)
      BY <1>2, <2>4 DEF Overload
    <3> QED BY <1>2, <2>0, <2>4, <3>1, FourRight
  <2>5. CASE n \in {5, 6}
    <3>1. Overload(dir, m) = invokeN5(dir, m)
      BY <1>2, <2>5 DEF Overload, invokeN6
    <3>2. Answers(invokeN5(dir, m), dir, m)
      BY <1>2, <2>0, FiveRight
    <3>3. ~(n <= 3)
      BY <2>5
    <3> QED BY <3>1, <3>2, <3>3
  <2> QED BY <2>0, <2>1, <2>2, <2>3, <2>4, <2>5
<1> QED BY <1>1, <1>2

\* invokeN: none of the objects passed on is direct.
LEMMA InvokeRight ==
  ASSUME NEW dir, Strategies(dir), Len(sig.params) \in 0..6, Len(dir) <= Len(sig.params),
         NEW m \in Nat, Len(dir) = 0 => m = 0
  PROVE  /\ Answers(invokeN(dir, m), dir, m)
         /\ Len(sig.params) <= 3 => AnswersOnce(invokeN(dir, m), dir, m)
         /\ \A k \in 1..Len(invokeN(dir, m).places) : invokeN(dir, m).places[k] \in Others(dir)
<1> DEFINE got == Overload(dir, m)
<1>1. Answers(got, dir, m) /\ (Len(sig.params) <= 3 => AnswersOnce(got, dir, m))
  BY OverloadRight
<1>2. DOMAIN dir = 1..Len(dir) /\ Len(dir) \in Nat
  BY OthersCount
<1>3. got.places \in Seq(1..Len(dir)) /\ DOMAIN got.places = 1..Len(got.places)
  BY <1>1 DEF Answers
<1>4. CASE \E i \in DOMAIN got.places : dir[got.places[i]]
  <2>1. invokeN(dir, m) = Throw("direct")
    BY <1>4 DEF invokeN
  <2>2. ASSUME m <= Cardinality(Others(dir)) PROVE FALSE
    <3>1. \A k \in 1..Len(got.places) : got.places[k] \in Others(dir)
      BY <1>1, <2>2 DEF Answers
    <3> QED BY <1>3, <1>4, <3>1 DEF Others
  <2>3. AnswersOnce(invokeN(dir, m), dir, m)
    BY <2>1, <2>2, Throws
  <2>4. Len(invokeN(dir, m).places) = 0
    BY <2>1 DEF Throw
  <2> QED BY <2>3, <2>4 DEF AnswersOnce
<1>5. CASE ~\E i \in DOMAIN got.places : dir[got.places[i]]
  <2>1. invokeN(dir, m) = got
    BY <1>5 DEF invokeN
  <2> HIDE DEF got
  <2>2. \A k \in 1..Len(got.places) : got.places[k] \in 1..Len(dir)
    BY <1>3
  <2>3. \A k \in 1..Len(got.places) : got.places[k] \in Others(dir)
    BY <1>2, <1>3, <1>5, <2>2 DEF Others
  <2> QED BY <1>1, <2>1, <2>3
<1> QED BY <1>4, <1>5

(***************************************************************************)
(* The parameters                                                          *)
(***************************************************************************)
\* What the caller means, byte by byte: the low bytes of a number or address.
Own(i) == <<IF HowOf(i) = "object" THEN "o" ELSE "n", i>>
MeantSize(i) == IF TypeOf(i) = "struct" THEN machine.addr ELSE Size(machine, TypeOf(i))

\* What the caller means by a parameter has the size of its type.
LEMMA MeantIs ==
  ASSUME CallOK, NEW i \in Params
  PROVE  /\ MeantSize(i) \in {1, 4, 8} /\ MeantSize(i) \in Nat
         /\ TypeOf(i) = "struct" => Meant(i) = Memory(Value(Own(i), MeantSize(i), MeantSize(i)))
         /\ TypeOf(i) # "struct" => Meant(i) = Value(Own(i), MeantSize(i), MeantSize(i))
<1>1. TypeOf(i) \in Types \ {"void"}
  BY SignatureTypes DEF CallOK
<1>2. machine.addr \in {4, 8}
  BY Machine DEF CallOK
<1>3. MeantSize(i) \in {1, 4, 8} /\ MeantSize(i) \in Nat
  BY <1>1, <1>2, Sizes DEF CallOK, MeantSize, Types
<1>4. TypeOf(i) = "ptr" => MeantSize(i) = machine.addr
  BY <1>1, Sizes DEF CallOK, MeantSize
<1> HIDE DEF Memory, Value
<1> QED BY <1>3, <1>4 DEF Meant, Own, MeantSize

\* FfiArgument and DirectArgument: the low bytes of the word.
LEMMA FfiRight ==
  ASSUME CallOK, NEW i \in Params, TypeOf(i) # "struct", NEW n \in {4, 8}, MeantSize(i) <= n, NEW word
  PROVE  FfiArgument(word, i, n) = [k \in 0..(MeantSize(i) - 1) |-> word[k]]
<1> DEFINE w == MeantSize(i)
           at == IF machine.be THEN n - w ELSE 0
           arg == Read(Order(n, word), at, w)
<1>1. w \in Nat /\ w <= n /\ machine.be \in BOOLEAN /\ at \in Nat
  BY MeantIs, Machine DEF CallOK
<1>2. FfiArgument(word, i, n) = arg
  BY DEF FfiArgument, MeantSize
<1> HIDE DEF w, at
<1>3. ASSUME NEW k, k \in 0..(w - 1)
      PROVE  arg[k] = word[k]
  <2> DEFINE mem == Order(n, word)
  <2> HIDE DEF mem
  <2>1. arg[k] = mem[Place(at, w, k)]
    <3>1. Read(mem, at, w)[k] = mem[Place(at, w, k)]
      BY <1>1, <1>3, ReadByte
    <3> QED BY <3>1 DEF mem
  <2>2. Place(at, w, k) \in 0..(n - 1) /\ (machine.be => n - 1 - Place(at, w, k) = k)
        /\ (~machine.be => Place(at, w, k) = k)
    BY <1>1, <1>3 DEF Place, at
  <2> HIDE DEF arg
  <2> QED BY <1>1, <2>1, <2>2 DEF Order, mem
<1>4. arg = [k \in 0..(w - 1) |-> arg[k]]
  BY <1>1, ReadBytes
<1> HIDE DEF arg
<1>5. arg = [k \in 0..(w - 1) |-> word[k]]
  BY <1>3, <1>4
<1> QED BY <1>2, <1>5 DEF w

\* A word has the bytes of an integer of no more bytes.
LEMMA DirectRight ==
  ASSUME CallOK, NEW i \in Params, IsInt(TypeOf(i)), NEW n \in {4, 8}, MeantSize(i) <= n, NEW word
  PROVE  DirectArgument(word, i, n) = [k \in 0..(MeantSize(i) - 1) |-> word[k]]
<1>1. TypeOf(i) # "struct" /\ Size(machine, TypeOf(i)) = MeantSize(i)
  BY DEF IsInt, MeantSize
<1>2. MeantSize(i) \in Nat
  BY MeantIs
<1>3. \A k \in 0..(MeantSize(i) - 1) : k < n
  BY <1>2
<1> QED BY <1>1, <1>3 DEF DirectArgument

\* Words: a number, or the resolved object, in its low bytes.
LEMMA WordRight ==
  ASSUME CallOK, NEW i \in Params, TypeOf(i) # "struct",
         NEW objects, i \in objects <=> HowOf(i) = "object"
  PROVE  [k \in 0..(MeantSize(i) - 1) |-> Words(objects)[i][k]] = Meant(i)
<1> DEFINE w == MeantSize(i)
<1>1. w \in {1, 4, 8} /\ w = Size(machine, TypeOf(i)) /\ Meant(i) = Value(Own(i), w, w)
  BY MeantIs DEF MeantSize
<1>2. HowOf(i) = "object" => w = machine.addr
  <2>1. HowOf(i) = "object" => TypeOf(i) = "ptr"
    BY SignatureTypes DEF CallOK
  <2> QED BY <1>1, <2>1, Sizes DEF CallOK, Types
<1>3. Words(objects)[i] = Value(Own(i), w, 8)
  <2>1. Words(objects)[i] = IF i \in objects THEN Pointer(i) ELSE Number(i, 8)
    BY DEF Words
  <2> HIDE DEF Value
  <2> QED BY <1>1, <1>2, <2>1 DEF Pointer, Number, Own
<1> HIDE DEF w
<1>4. ASSUME NEW k \in 0..(w - 1)
      PROVE  Value(Own(i), w, 8)[k] = Value(Own(i), w, w)[k]
  <2>1. k \in 0..(8 - 1) /\ w \in Nat /\ k < w
    BY <1>1
  <2>2. Value(Own(i), w, 8)[k] = Append(Own(i), k)
    BY <2>1 DEF Value
  <2>3. Value(Own(i), w, w)[k] = Append(Own(i), k)
    BY <2>1 DEF Value
  <2> QED BY <2>2, <2>3
<1>5. Value(Own(i), w, w) = [k \in 0..(w - 1) |-> Value(Own(i), w, w)[k]]
  BY <1>1, ValueBytes
<1> HIDE DEF Value
<1> QED BY <1>1, <1>3, <1>4, <1>5 DEF w

\* NumericArguments, over the entry points for numbers.
LEMMA NumericRight ==
  ASSUME CallOK, ctx = Classified, road \in {"int", "long", "numeric"}, NEW i \in Params,
         NEW objects, \A j \in Params : j \in objects <=> HowOf(j) = "object"
  PROVE  NumericArguments(objects)[i] = Meant(i)
<1> DEFINE word == Words(objects)[i]
           low == [k \in 0..(MeantSize(i) - 1) |-> word[k]]
<1>1. TypeOf(i) \in Types \ {"void"}
  BY SignatureTypes DEF CallOK
<1>2. TypeOf(i) # "struct" /\ (road = "int" => TypeOf(i) \in {"i8", "i32"})
  <2> DEFINE types == {sig.params[j].type : j \in DOMAIN sig.params}
  <2>1. TypeOf(i) \in types
    BY DEF TypeOf, Params
  <2>2. road = "int" => types \cup {sig.ret} \subseteq {"i8", "i32", "void"}
    BY DEF CallOK, Takes
  <2>3. road = "long" => \A t \in types : IsInt(t) \/ t = "void"
    BY DEF CallOK, Takes
  <2>4. road = "numeric" => "struct" \notin types
    BY DEF CallOK, Takes
  <2> HIDE DEF types
  <2> QED BY <1>1, <2>1, <2>2, <2>3, <2>4 DEF IsInt
<1>3. MeantSize(i) = Size(machine, TypeOf(i)) /\ MeantSize(i) \in {1, 4, 8}
  BY <1>2, MeantIs DEF MeantSize
<1>4. low = Meant(i)
  BY <1>2, WordRight
<1> HIDE DEF word, low
<1>5. Way \in {"jint", "jlong", "ffi"}
  BY Direct
<1>6. CASE Way = "jint"
  <2>1. IsInt(TypeOf(i)) /\ MeantSize(i) <= 4
    BY <1>3, <1>6, Direct
  <2>2. NumericArguments(objects)[i] = DirectArgument(word, i, 4)
    BY <1>6 DEF NumericArguments, word
  <2>3. DirectArgument(word, i, 4) = low
    BY <2>1, DirectRight DEF low
  <2> QED BY <1>4, <2>2, <2>3
<1>7. CASE Way = "jlong"
  <2>1. IsInt(TypeOf(i)) /\ MeantSize(i) <= 8
    BY <1>3, <1>7, Direct
  <2>2. NumericArguments(objects)[i] = DirectArgument(word, i, 8)
    BY <1>7 DEF NumericArguments, word
  <2>3. DirectArgument(word, i, 8) = low
    BY <2>1, DirectRight DEF low
  <2> QED BY <1>4, <2>2, <2>3
<1>8. CASE Way = "ffi"
  <2> DEFINE n == IF road = "int" THEN 4 ELSE 8
  <2>1. n \in {4, 8} /\ MeantSize(i) <= n
    BY <1>1, <1>2, <1>3, Sizes DEF CallOK
  <2>2. NumericArguments(objects)[i] = FfiArgument(word, i, n)
    BY <1>8 DEF NumericArguments, word
  <2> HIDE DEF n
  <2>3. FfiArgument(word, i, n) = low
    BY <1>2, <2>1, FfiRight DEF low
  <2> QED BY <1>4, <2>2, <2>3
<1> QED BY <1>5, <1>6, <1>7, <1>8

\* Words of the buffer, and which entries belong to one.
Bytes(b) == DOMAIN b.bytes = 0..(Len(sig.params) * PARAM_SIZE - 1)
Entries(b) == Range(b.objects) \subseteq {Entry(j) : j \in Params}

\* The entry of a parameter is inside the buffer.
LEMMA WordInside ==
  ASSUME CallOK, NEW i \in Params, NEW n \in 1..8
  PROVE  /\ (i - 1) * PARAM_SIZE \in Nat
         /\ (i - 1) * PARAM_SIZE .. ((i - 1) * PARAM_SIZE + n - 1) \subseteq 0..(Len(sig.params) * PARAM_SIZE - 1)
<1> DEFINE l == Len(sig.params)
<1>1. l \in Nat /\ i \in 1..l
  BY SignatureTypes DEF CallOK
<1> HIDE DEF l
<1>2. (i - 1) * 8 \in Nat /\ (i - 1) * 8 + 8 <= l * 8
  BY <1>1
<1>3. \A a \in (i - 1) * 8 .. ((i - 1) * 8 + n - 1) : a \in 0..(l * 8 - 1)
  BY <1>1, <1>2
<1> QED BY <1>2, <1>3 DEF l, PARAM_SIZE

\* The entries of the buffer for one parameter.
LEMMA OwnEntries ==
  ASSUME CallOK, NEW b, Entries(b), NEW i \in Params
  PROVE  {e \in Range(b.objects) : e.index = i - 1} = IF Entry(i) \in Range(b.objects) THEN {Entry(i)} ELSE {}
<1>1. \A j \in Params : j \in Nat
  BY SignatureTypes DEF CallOK
<1>2. ASSUME NEW e \in Range(b.objects), e.index = i - 1 PROVE e = Entry(i)
  <2>1. PICK j \in Params : e = Entry(j)
    BY DEF Entries
  <2>2. e.index = j - 1
    BY <2>1 DEF Entry
  <2>3. j = i
    BY <1>1, <1>2, <2>2
  <2> QED BY <2>1, <2>3
<1>3. Entry(i).index = i - 1
  BY DEF Entry
<1> QED BY <1>2, <1>3

\* BufferArguments for an object ...
LEMMA ObjectArgument ==
  ASSUME CallOK, NEW b, Bytes(b), Entries(b), NEW i \in Params, Entry(i) \in Range(b.objects),
         HowOf(i) = "object"
  PROVE  BufferArguments(b)[i] = Meant(i)
<1> DEFINE at == (i - 1) * PARAM_SIZE
           n == machine.addr
           num == Value(<<"o", i>>, n, n)
           got == Read(Store(b.bytes, at, n, num), at, n)
<1>1. n \in {4, 8} /\ n \in 1..8 /\ n \in Nat /\ machine.be \in BOOLEAN
  BY Machine DEF CallOK
<1>2. TypeOf(i) \in {"ptr", "struct"}
  BY SignatureTypes DEF CallOK
<1>3. {e \in Range(b.objects) : e.index = i - 1} = {Entry(i)}
  BY OwnEntries
<1>4. MeantSize(i) = n /\ Own(i) = <<"o", i>>
  BY <1>2, Sizes DEF MeantSize, Own, CallOK, Types
<1>5. (CHOOSE x \in {Entry(i)} : TRUE) = Entry(i) /\ Entry(i).object = <<"o", i>>
  BY DEF Entry
<1>6. BufferArguments(b)[i] = IF TypeOf(i) = "ptr" THEN got ELSE Memory(num)
  <2> HIDE DEF Read, Store, Value, Memory
  <2> QED BY <1>3, <1>5 DEF BufferArguments
<1>7. at \in Nat /\ at..(at + n - 1) \subseteq DOMAIN b.bytes
  BY <1>1, WordInside DEF Bytes
<1> HIDE DEF at, n, num
<1>8. ASSUME NEW k, k \in 0..(n - 1) PROVE got[k] = num[k]
  <2> DEFINE mem == Store(b.bytes, at, n, num)
  <2>1. mem[Place(at, n, k)] = num[k]
    BY <1>1, <1>7, <1>8, StoreByte, Z3
  <2> HIDE DEF mem
  <2>2. Read(mem, at, n)[k] = mem[Place(at, n, k)]
    BY <1>1, <1>7, <1>8, ReadByte
  <2> QED BY <2>1, <2>2 DEF mem
<1>9. got = [k \in 0..(n - 1) |-> got[k]] /\ num = [k \in 0..(n - 1) |-> num[k]]
  BY <1>1, ReadBytes, ValueBytes DEF num
<1> HIDE DEF got
<1>10. got = num
  BY <1>8, <1>9
<1>11. Meant(i) = IF TypeOf(i) = "ptr" THEN num ELSE Memory(num)
  BY <1>2, <1>4, MeantIs DEF num, n
<1> QED BY <1>6, <1>10, <1>11

\* ... and for a number.
LEMMA NumberArgument ==
  ASSUME CallOK, NEW b, Entries(b), NEW i \in Params, Entry(i) \notin Range(b.objects),
         HowOf(i) # "object",
         Read(b.bytes, (i - 1) * PARAM_SIZE, MeantSize(i)) = Value(<<"n", i>>, MeantSize(i), MeantSize(i))
  PROVE  BufferArguments(b)[i] = Meant(i)
<1> DEFINE at == (i - 1) * PARAM_SIZE
<1>1. {e \in Range(b.objects) : e.index = i - 1} = {}
  BY OwnEntries
<1>2. BufferArguments(b)[i] = IF TypeOf(i) = "struct" THEN Memory(Read(b.bytes, at, MeantSize(i)))
                              ELSE Read(b.bytes, at, MeantSize(i))
  <2> HIDE DEF Read, Store, Value, Memory
  <2> QED BY <1>1 DEF BufferArguments, MeantSize
<1>3. Own(i) = <<"n", i>>
  BY DEF Own
<1> QED BY <1>2, <1>3, MeantIs

\* HeapInvocationBuffer: once every parameter was put, the words are right.
LEMMA BufferRight ==
  ASSUME TypeOK, CallOK, EncodingInv, road = "buffer", buf.paramIndex = Len(sig.params), NEW i \in Params
  PROVE  BufferArguments(buf)[i] = Meant(i)
<1> DEFINE at == (i - 1) * PARAM_SIZE  n == MeantSize(i)  num == Value(<<"n", i>>, n, n)
<1>1. i \in 1..buf.paramIndex /\ i <= buf.paramIndex
  BY SignatureTypes DEF CallOK
<1>2. Entry(i) \in Range(buf.objects) <=> HowOf(i) = "object"
  BY <1>1 DEF EncodingInv
<1>3. Bytes(buf)
  BY DEF TypeOK, Bytes
<1>4. Entries(buf)
  <2> DEFINE E == {Entry(j) : j \in Params}
  <2>1. buf.objects \in Seq(E)
    BY DEF TypeOK
  <2> HIDE DEF E
  <2>2. \A k \in DOMAIN buf.objects : buf.objects[k] \in E
    BY <2>1
  <2> QED BY <2>2 DEF Entries, Range, E
<1>5. CASE HowOf(i) = "object"
  BY <1>2, <1>3, <1>4, <1>5, ObjectArgument
<1>6. CASE HowOf(i) # "object"
  <2>1. n \in {1, 4, 8} /\ n \in Nat /\ at \in Nat /\ machine.be \in BOOLEAN
    BY MeantIs, WordInside, Machine DEF CallOK
  <2>2. PutWidth(i) = n /\ Number(i, n) = num
    <3>1. TypeOf(i) \in {"ptr", "struct"} => n = machine.addr
      BY Sizes DEF MeantSize, CallOK, Types
    <3>2. Size(machine, "ptr") = machine.addr
      BY Sizes DEF CallOK, Types
    <3> HIDE DEF Value
    <3> QED BY <3>1, <3>2 DEF PutWidth, Number, MeantSize
  <2>3. \A k \in 0..(n - 1) : buf.bytes[at + k] = Order(n, num)[k]
    <3> HIDE DEF Order, num, n
    <3> QED BY <1>1, <1>6, <2>2 DEF EncodingInv
  <2>4. num = [k \in 0..(n - 1) |-> num[k]]
    BY <2>1, ValueBytes
  <2> HIDE DEF num, n, at
  <2>5. ASSUME NEW k \in 0..(n - 1) PROVE buf.bytes[Place(at, n, k)] = num[k]
    <3>1. n - 1 - k \in 0..(n - 1) /\ n - 1 - (n - 1 - k) = k
      BY <2>1
    <3> QED BY <2>1, <2>3, <3>1 DEF Place, Order
  <2>6. Read(buf.bytes, at, n) = num
    BY <2>1, <2>4, <2>5, ReadBack
  <2> QED BY <1>2, <1>4, <1>6, <2>6, NumberArgument DEF num, n, at
<1> QED BY <1>5, <1>6

\* A word of the byte array that HeapObjectParameterInvoker fills.
LEMMA ZeroStore ==
  ASSUME NEW num, NEW w \in {4, 8}, NEW k, k \in 0..(w - 1), machine.be \in BOOLEAN
  PROVE  Store([j \in 0..7 |-> Zero], 0, w, num)[Place(0, w, k)] = num[k]
<1> DEFINE mem == [j \in 0..7 |-> Zero]
           p == Place(0, w, k)
<1>1. p \in 0..7 /\ p \in 0..(0 + w - 1) /\ p - 0 \in 0..(w - 1) /\ (IF machine.be THEN w - 1 - (p - 0) ELSE p - 0) = k
  BY DEF Place
<1> HIDE DEF p
<1>2. Store(mem, 0, w, num)[p] = Order(w, num)[p - 0]
  BY <1>1 DEF Store
<1>3. Order(w, num)[p - 0] = num[IF machine.be THEN w - 1 - (p - 0) ELSE p - 0]
  BY <1>1 DEF Order
<1>4. Store(mem, 0, w, num)[p] = num[k]
  BY <1>1, <1>2, <1>3
<1> QED BY <1>4 DEF p, mem

\* HeapObjectParameterInvoker: the words, where it does not misplace them.
LEMMA HeapRight ==
  ASSUME CallOK, road = "heap", NEW i \in Params, ~MisplacedByHeap(i)
  PROVE  BufferArguments(EncodedAll)[i] = Meant(i)
<1> DEFINE b == EncodedAll
           S == {j \in Params : HowOf(j) = "object"}
           at == (i - 1) * PARAM_SIZE
           n == MeantSize(i)
           zeros == [k \in 0..7 |-> Zero]
           w == IF Size(machine, TypeOf(i)) <= 4 THEN 4 ELSE 8
           num == Number(i, 8)
           word == Store(zeros, 0, w, num)
<1>1. TypeOf(i) \in Types \ {"void", "struct"}
  <2>1. "struct" \notin {sig.params[j].type : j \in DOMAIN sig.params}
    BY DEF CallOK, Takes
  <2>2. TypeOf(i) # "struct"
    BY <2>1 DEF Params, TypeOf
  <2> QED BY <2>2, SignatureTypes DEF CallOK
<1>2. DOMAIN NonDirect = 1..Len(NonDirect) /\ Range(NonDirect) = S
  <2> DEFINE A == Ascending(S)  c == Cardinality(S)
  <2>0. S \in SUBSET Params
    OBVIOUS
  <2> HIDE DEF S
  <2>1. A \in [1..c -> S] /\ Len(A) = c /\ \A j \in S : \E k \in 1..c : A[k] = j
    BY <2>0, Positions DEF CallOK
  <2>2. NonDirect = A
    BY DEF NonDirect, S
  <2> HIDE DEF A, S, c
  <2> QED BY <2>1, <2>2 DEF Range
<1>3. b.objects = [k \in 1..Len(NonDirect) |-> Entry(NonDirect[k])]
  BY DEF EncodedAll, NewBuffer, Entry
<1>4. Range(b.objects) = {Entry(j) : j \in S}
  <2> HIDE DEF b, S
  <2> QED BY <1>2, <1>3 DEF Range
<1>5. Entries(b)
  BY <1>4 DEF Entries
<1>6. Bytes(b)
  BY DEF Bytes, EncodedAll, NewBuffer
<1>7. Entry(i) \in Range(b.objects) <=> HowOf(i) = "object"
  <2>1. \A j \in Params : j \in Nat
    BY SignatureTypes DEF CallOK
  <2>2. \A j \in Params : Entry(j) = Entry(i) => j = i
    <3>1. \A j \in Params : Entry(j).index = j - 1
      BY DEF Entry
    <3> QED BY <2>1, <3>1
  <2> HIDE DEF b
  <2> QED BY <1>4, <2>2
<1>8. CASE HowOf(i) = "object"
  <2> HIDE DEF b
  <2>1. BufferArguments(b)[i] = Meant(i)
    BY <1>5, <1>6, <1>7, <1>8, ObjectArgument
  <2> QED BY <2>1 DEF b
<1>9. CASE HowOf(i) # "object"
  <2>1. n \in {1, 4, 8} /\ n \in Nat /\ at \in Nat /\ machine.be \in BOOLEAN /\ n = Size(machine, TypeOf(i))
    BY <1>1, MeantIs, WordInside, Machine DEF CallOK, MeantSize
  <2>2. w \in {4, 8} /\ n <= w /\ (machine.be => n = w)
    <3>1. n = 1 => TypeOf(i) = "i8"
      BY <1>1, <2>1, Sizes DEF CallOK
    <3> QED BY <2>1, <3>1 DEF MisplacedByHeap
  <2>3. ASSUME NEW x \in 0..7 PROVE b.bytes[at + x] = word[x]
    <3> DEFINE l == Len(sig.params)
    <3>1. l \in Nat /\ i \in 1..l
      BY SignatureTypes DEF CallOK
    <3> HIDE DEF l
    <3>2. (i - 1) * 8 + x \in 0..(l * 8 - 1) /\ ((i - 1) * 8 + x) \div 8 + 1 = i /\ ((i - 1) * 8 + x) % 8 = x
      BY <3>1
    <3>3. at + x \in 0..(Len(sig.params) * PARAM_SIZE - 1) /\ (at + x) \div PARAM_SIZE + 1 = i
          /\ (at + x) % PARAM_SIZE = x
      BY <3>2 DEF PARAM_SIZE, l
    <3> HIDE DEF at
    <3>4. b.bytes = [a \in 0..(Len(sig.params) * PARAM_SIZE - 1) |->
             LET j == a \div PARAM_SIZE + 1
                 v == IF Size(machine, TypeOf(j)) <= 4 THEN 4 ELSE 8
             IN  Store(zeros, 0, v, Number(j, 8))[a % PARAM_SIZE]]
      BY DEF EncodedAll, NewBuffer
    <3> HIDE DEF b, zeros
    <3> QED BY <3>3, <3>4
  <2>4. ASSUME NEW k, k \in 0..(n - 1) PROVE Read(b.bytes, at, n)[k] = num[k]
    <3>1. Read(b.bytes, at, n)[k] = b.bytes[Place(at, n, k)]
      <4> DEFINE mem == b.bytes
      <4> HIDE DEF b, at, n, mem
      <4>1. n - 1 - k \in 0..(n - 1) /\ k \in 0..(n - 1)
        BY <2>1, <2>4
      <4>2. Read(mem, at, n)[k] = mem[Place(at, n, k)]
        BY <2>1, <4>1 DEF Read, Order, Place
      <4> QED BY <4>2 DEF mem
    <3>2. Place(0, w, k) \in 0..7 /\ Place(at, n, k) = at + Place(0, w, k) /\ k \in 0..(w - 1)
      BY <2>1, <2>2, <2>4 DEF Place
    <3> HIDE DEF zeros, num, w, at, n, b, word
    <3>4. b.bytes[at + Place(0, w, k)] = word[Place(0, w, k)]
      BY <2>3, <3>2
    <3>5. w \in {4, 8} /\ k \in 0..(w - 1) /\ machine.be \in BOOLEAN
      BY <2>1, <2>2, <3>2
    <3>6. word[Place(0, w, k)] = num[k]
      BY <3>5, ZeroStore DEF word, zeros
    <3> QED BY <3>1, <3>2, <3>4, <3>6
  <2>5. ASSUME NEW k \in 0..(n - 1) PROVE num[k] = Value(<<"n", i>>, n, n)[k]
    <3>1. k \in 0..(8 - 1) /\ k < n
      BY <2>1
    <3>2. num = Value(<<"n", i>>, n, 8)
      BY <1>1, <2>1 DEF Number
    <3>3. Value(<<"n", i>>, n, 8)[k] = Append(<<"n", i>>, k)
      BY <3>1 DEF Value
    <3>4. Value(<<"n", i>>, n, n)[k] = Append(<<"n", i>>, k)
      BY <3>1 DEF Value
    <3> QED BY <3>2, <3>3, <3>4
  <2>6. Read(b.bytes, at, n) = [k \in 0..(n - 1) |-> Read(b.bytes, at, n)[k]]
        /\ Value(<<"n", i>>, n, n) = [k \in 0..(n - 1) |-> Value(<<"n", i>>, n, n)[k]]
    <3>1. n \in Nat
      BY <2>1
    <3> HIDE DEF n, at, b
    <3> QED BY <3>1, ReadBytes, ValueBytes, Zenon
  <2> DEFINE got == Read(b.bytes, at, n)  val == Value(<<"n", i>>, n, n)
  <2> HIDE DEF b, at, n, num, w, got, val
  <2>7. got = val
    BY <2>4, <2>5, <2>6 DEF got, val
  <2>8. BufferArguments(b)[i] = Meant(i)
    BY <1>5, <1>7, <1>9, <2>7, NumberArgument DEF got, val, at, n
  <2> QED BY <2>8 DEF b
<1> QED BY <1>8, <1>9

(***************************************************************************)
(* The objects of one call                                                 *)
(***************************************************************************)
\* The strategies of a call's objects: those that are not direct are the ones
\* that NonDirect counts.
LEMMA ObjectsRight ==
  ASSUME sig \in Signatures, NEW dir, dir = [k \in DOMAIN Objects |-> HowOf(Objects[k]) = "direct"]
  PROVE  /\ Strategies(dir) /\ Len(dir) = Len(Objects) /\ Len(dir) \in 0..Len(sig.params)
         /\ Len(NonDirect) = Cardinality(Others(dir))
         /\ Len(NonDirect) = Cardinality({i \in Params : HowOf(i) = "object"})
         /\ IsFiniteSet({i \in Params : HowOf(i) = "object"})
         /\ \A k \in 1..Len(dir) : /\ Objects[k] \in Params
                                   /\ k \in Others(dir) <=> HowOf(Objects[k]) = "object"
         /\ \A k, l \in 1..Len(dir) : Objects[k] = Objects[l] => k = l
<1> DEFINE S == {i \in Params : HowOf(i) # "value"}
           N == {i \in Params : HowOf(i) = "object"}
           c == Cardinality(S)
<1>1. S \in SUBSET Params /\ N \in SUBSET Params /\ \A i \in Params : HowOf(i) \in Hows
  BY SignatureTypes
<1>2. \A i \in S : HowOf(i) \in {"direct", "object"}
  BY <1>1 DEF Hows
<1>3. \A i \in Params : i \in S <=> HowOf(i) # "value"
  OBVIOUS
<1>4. \A i \in Params : i \in N <=> HowOf(i) = "object"
  OBVIOUS
<1>5. Objects = Ascending(S) /\ NonDirect = Ascending(N)
  BY DEF Objects, NonDirect
<1> HIDE DEF S, N
<1>6. /\ c \in 0..Len(sig.params) /\ Objects \in [1..c -> S] /\ Len(Objects) = c /\ IsInjective(Objects)
      /\ \A i \in S : \E k \in 1..c : Objects[k] = i
  BY <1>1, <1>5, Positions
<1>7. Len(NonDirect) = Cardinality(N) /\ IsFiniteSet(N)
  BY <1>1, <1>5, Positions
<1> HIDE DEF c
<1>8. dir = [k \in 1..c |-> HowOf(Objects[k]) = "direct"]
  BY <1>6
<1>9. c \in Nat
  BY <1>6, SignatureTypes
<1>10. dir \in Seq(BOOLEAN) /\ Len(dir) = c /\ DOMAIN dir = 1..c
  BY <1>8, <1>9
<1>11. ASSUME NEW k \in 1..c
       PROVE  Objects[k] \in S /\ Objects[k] \in Params /\ (k \in Others(dir) <=> HowOf(Objects[k]) = "object")
  <2>1. Objects[k] \in S
    BY <1>6
  <2>2. dir[k] = (HowOf(Objects[k]) = "direct")
    BY <1>8
  <2>3. k \in Others(dir) <=> ~dir[k]
    BY <1>10 DEF Others
  <2> HIDE DEF HowOf
  <2> QED BY <1>1, <1>2, <2>1, <2>2, <2>3
<1>12. \A k, l \in 1..c : Objects[k] = Objects[l] => k = l
  BY <1>6 DEF IsInjective
<1>13. Cardinality(Others(dir)) = Cardinality(N)
  <2> DEFINE O == Others(dir)  f == [k \in O |-> Objects[k]]
  <2>1. O \in SUBSET (1..c) /\ IsFiniteSet(O)
    BY <1>10, OthersCount DEF Strategies
  <2>2. \A k \in O : Objects[k] \in N
    BY <1>4, <1>11, <2>1
  <2>3. \A i \in N : \E k \in O : Objects[k] = i
    <3>1. ASSUME NEW i \in N PROVE \E k \in O : Objects[k] = i
      <4>1. i \in S /\ HowOf(i) = "object"
        BY <1>1, <1>3, <1>4
      <4>2. PICK k \in 1..c : Objects[k] = i
        BY <1>6, <4>1
      <4> QED BY <1>11, <4>1, <4>2
    <3> QED BY <3>1
  <2> HIDE DEF O
  <2>4. f \in Bijection(O, N)
    BY <1>12, <2>1, <2>2, <2>3 DEF Bijection, Injection, Surjection, IsInjective
  <2>5. ExistsBijection(O, N)
    BY <2>4 DEF ExistsBijection
  <2> QED BY <2>1, <2>5, FS_Bijection DEF O
<1> QED BY <1>6, <1>7, <1>10, <1>11, <1>12, <1>13 DEF Strategies, N

\* What InvokeNumeric passes to C.
Handed(got) == [k \in DOMAIN got.places |-> Objects[got.places[k]]]

\* InvokeNumeric hands on the objects that the overload's answer names.
LEMMA PassedRight ==
  ASSUME sig \in Signatures, NEW dir, dir = [k \in DOMAIN Objects |-> HowOf(Objects[k]) = "direct"],
         NEW m \in Nat, NEW got, Answers(got, dir, m)
  PROVE  /\ AnswersOnce(got, dir, m) => IsInjective(Handed(got))
         /\ m <= Len(NonDirect) => IsInjective(Handed(got)) /\ got.throws = "none"
         /\ m = Len(NonDirect) => \A i \in Params : i \in Range(Handed(got)) <=> HowOf(i) = "object"
<1> DEFINE p == Handed(got) K == Len(dir)  O == Others(dir)  N == {i \in Params : HowOf(i) = "object"}
<1>1. /\ K \in Nat /\ O \in SUBSET (1..K)
      /\ Len(NonDirect) = Cardinality(O) /\ Len(NonDirect) = Cardinality(N) /\ IsFiniteSet(N)
      /\ \A k \in 1..K : Objects[k] \in Params /\ (k \in O <=> HowOf(Objects[k]) = "object")
      /\ \A k, l \in 1..K : Objects[k] = Objects[l] => k = l
  BY ObjectsRight, OthersCount
<1>2. \A i \in Params : i \in N <=> HowOf(i) = "object"
  OBVIOUS
<1> HIDE DEF N
<1>3. /\ got.places \in Seq(1..K)
      /\ m <= Cardinality(O) => /\ got.throws = "none" /\ Len(got.places) = m
                                /\ \A k \in 1..m : got.places[k] \in O
                                /\ \A k, l \in 1..m : k # l => got.places[k] # got.places[l]
  BY DEF Answers
<1>4. AnswersOnce(got, dir, m) => \A k, l \in 1..Len(got.places) : k # l => got.places[k] # got.places[l]
  BY DEF AnswersOnce
<1>10. p = [k \in DOMAIN got.places |-> Objects[got.places[k]]]
  BY DEF Handed
<1> DEFINE q == got.places  n == Len(q)
<1>5. n \in Nat /\ DOMAIN q = 1..n /\ \A k \in 1..n : q[k] \in 1..K
  BY <1>3
<1>6. DOMAIN p = 1..n /\ p = [k \in 1..n |-> Objects[q[k]]]
  BY <1>10, <1>5
<1> HIDE DEF K, O, p
<1>7. /\ m <= Cardinality(O) => /\ got.throws = "none" /\ n = m
                                /\ \A k \in 1..m : q[k] \in O
                                /\ \A k, l \in 1..m : k # l => q[k] # q[l]
      /\ AnswersOnce(got, dir, m) => \A k, l \in 1..n : k # l => q[k] # q[l]
  BY <1>3, <1>4
<1> HIDE DEF q, n
<1>8. ASSUME \A k, l \in 1..n : k # l => q[k] # q[l]
      PROVE  IsInjective(p)
  <2>1. ASSUME NEW k \in 1..n, NEW l \in 1..n, p[k] = p[l] PROVE k = l
    <3>1. Objects[q[k]] = Objects[q[l]]
      BY <1>6, <2>1
    <3>2. q[k] = q[l]
      BY <1>1, <1>5, <3>1
    <3> QED BY <1>8, <3>2
  <2>2. DOMAIN p = 1..n
    BY <1>6
  <2> QED BY <2>1, <2>2 DEF IsInjective
<1>9. ASSUME m = Len(NonDirect), NEW i \in Params
      PROVE  i \in Range(p) <=> HowOf(i) = "object"
  <2>1. m = Cardinality(O) /\ n = m
    BY <1>1, <1>7, <1>9
  <2>2. IsInjective(p)
    BY <1>7, <1>8, <2>1
  <2>3. ASSUME NEW k \in 1..n PROVE p[k] \in N
    <3>1. q[k] \in 1..K /\ p[k] = Objects[q[k]]
      BY <1>5, <1>6
    <3>4. k \in 1..m /\ m <= Cardinality(O)
      BY <1>1, <1>9, <2>1
    <3>5. q[k] \in O
      BY <1>7, <3>4
    <3> DEFINE x == Objects[q[k]]
    <3>2. x \in Params /\ HowOf(x) = "object"
      BY <1>1, <3>1, <3>5
    <3> HIDE DEF x
    <3>3. x \in N
      BY <1>2, <3>2
    <3> QED BY <3>1, <3>3 DEF x
  <2>4. p \in [1..n -> N]
    <3>1. p = [k \in 1..n |-> p[k]]
      BY <1>6
    <3> QED BY <2>3, <3>1
  <2>5. p \in Injection(1..n, N)
    BY <2>2, <2>4 DEF Injection, IsInjective
  <2>6. IsFiniteSet(1..n) /\ Cardinality(1..n) = n
    BY <1>5, FS_Interval
  <2>7. p \in Surjection(1..n, N)
    BY <1>1, <1>9, <2>1, <2>5, <2>6, FS_Injection
  <2>8. Range(p) = N
    BY <2>4, <2>7 DEF Surjection, Range
  <2> QED BY <1>2, <2>8
<1> QED BY <1>1, <1>7, <1>8, <1>9 DEF p

(***************************************************************************)
(* The steps                                                               *)
(***************************************************************************)
\* No action changes the machine, the signature or the entry point, and what
\* follows from them stays.
LEMMA SameCall ==
  ASSUME UNCHANGED <<machine, sig, road>>
  PROVE  /\ Params' = Params /\ NonDirect' = NonDirect /\ Classified' = Classified
         /\ FloatFromWrongHalf' = FloatFromWrongHalf /\ Takes(road, sig)' = Takes(road, sig)
         /\ \A i : HowOf(i)' = HowOf(i) /\ TypeOf(i)' = TypeOf(i) /\ PutWidth(i)' = PutWidth(i)
         /\ \A i : Meant(i)' = Meant(i) /\ MisplacedByHeap(i)' = MisplacedByHeap(i)
         /\ \A i, n : Number(i, n)' = Number(i, n)
<1>1. Params' = Params /\ \A i : HowOf(i)' = HowOf(i) /\ TypeOf(i)' = TypeOf(i)
  BY DEF Params, HowOf, TypeOf
<1>2. AllTypes' = AllTypes
  BY <1>1 DEF AllTypes
<1>3. \A t : FastInt(t)' = FastInt(t) /\ FastLong(t)' = FastLong(t)
  BY DEF FastInt, FastLong
<1>4. Classified' = Classified
  BY <1>2, <1>3 DEF Classified
<1>5. NonDirect' = NonDirect
  BY <1>1 DEF NonDirect
<1>6. FloatFromWrongHalf' = FloatFromWrongHalf
  BY DEF FloatFromWrongHalf
<1>7. Takes(road, sig)' = Takes(road, sig)
  OBVIOUS
<1>8. \A i : PutWidth(i)' = PutWidth(i) /\ Meant(i)' = Meant(i) /\ MisplacedByHeap(i)' = MisplacedByHeap(i)
  BY <1>1 DEF PutWidth, Meant, MisplacedByHeap
<1>9. \A i, n : Number(i, n)' = Number(i, n)
  BY <1>1 DEF Number
<1> QED BY <1>1, <1>4, <1>5, <1>6, <1>7, <1>8, <1>9

\* Init.
LEMMA InitOK ==
  ASSUME Init
  PROVE  InvocationInv
<1> DEFINE l == Len(sig.params)
<1>1. l \in Nat /\ Params = 1..l
  BY SignatureTypes DEF Init
<1>2. PICK capacity \in {0, 1, 2} : buf = NewBuffer(capacity)
  BY DEF Init
<1>3. /\ buf = [bytes |-> buf.bytes, paramOffset |-> buf.paramOffset, paramIndex |-> buf.paramIndex,
                objects |-> buf.objects, length |-> buf.length]
      /\ DOMAIN buf.bytes = 0..(l * PARAM_SIZE - 1)
      /\ buf.paramOffset = 0 /\ buf.paramIndex = 0 /\ buf.objects = <<>> /\ buf.length \in Nat
  BY <1>2 DEF NewBuffer
<1> HIDE DEF l
<1>4. TypeOK
  <2>1. buf.objects \in Seq({Entry(i) : i \in Params})
    <3> DEFINE E == {Entry(i) : i \in Params}
    <3> HIDE DEF E
    <3>1. buf.objects \in Seq(E)
      BY <1>3
    <3> QED BY <3>1 DEF E
  <2> QED BY <1>1, <1>3, <2>1 DEF Init, TypeOK, l
<1>5. Prepared
  BY DEF Init, Prepared
<1>6. EncodingInv
  <2>1. \A i \in Params : ~(i <= buf.paramIndex)
    BY <1>1, <1>3
  <2>2. Range(buf.objects) = {}
    BY <1>3 DEF Range
  <2>3. 1..buf.paramIndex = {}
    BY <1>3
  <2> QED BY <2>1, <2>2, <2>3 DEF EncodingInv
<1>7. PositionsAgree
  BY <1>3 DEF Init, PositionsAgree, PARAM_SIZE
<1>8. ResultDelivered /\ ArgumentsDelivered
  BY DEF Init, ResultDelivered, ArgumentsDelivered
<1>9. ResolvedOnce
  BY DEF Init, ResolvedOnce, IsInjective
<1> QED BY <1>4, <1>5, <1>6, <1>7, <1>8, <1>9 DEF InvocationInv

\* What holds of the buffer holds after every step that leaves it alone.
LEMMA SameEncoding ==
  ASSUME InvocationInv, UNCHANGED <<machine, sig, road, buf>>, pc' \in {"context", "encode", "done", "failed"}
  PROVE  TypeOK' /\ EncodingInv'
<1>1. TypeOK'
  BY SameCall DEF InvocationInv, TypeOK
<1>2. EncodingInv'
  <2>1. \A n, num : Order(n, num)' = Order(n, num)
    BY DEF Order
  <2> HIDE DEF Order, Number, PutWidth
  <2> QED BY <2>1, SameCall DEF InvocationInv, EncodingInv
<1> QED BY <1>1, <1>2

\* Steps that leave the buffer as it is.
LEMMA SameBuffer ==
  ASSUME InvocationInv, UNCHANGED <<machine, sig, road, buf>>,
         pc' \in {"context", "encode", "done", "failed"}, exception' = "bounds" => exception = "bounds"
  PROVE  TypeOK' /\ EncodingInv' /\ PositionsAgree'
<1>1. PositionsAgree'
  BY DEF InvocationInv, PositionsAgree
<1> QED BY <1>1, SameEncoding

\* CallContext is made, or refused.
LEMMA NewCallContextOK ==
  ASSUME InvocationInv, NewCallContext
  PROVE  InvocationInv'
<1>1. UNCHANGED <<machine, sig, road, buf, objCount, passed>> /\ pc' \in {"encode", "failed"}
      /\ (pc' = "encode" => ctx' = Classified) /\ (exception' # exception => exception' = "context")
      /\ (pc' = "failed" => exception' = "context")
  BY DEF NewCallContext
<1>2. TypeOK' /\ EncodingInv' /\ PositionsAgree'
  BY <1>1, SameBuffer
<1>3. Prepared'
  BY <1>1, SameCall DEF InvocationInv, Prepared
<1>4. ResultDelivered' /\ ArgumentsDelivered'
  BY <1>1 DEF ResultDelivered, ArgumentsDelivered
<1>5. ResolvedOnce'
  BY <1>1, SameCall DEF InvocationInv, ResolvedOnce
<1> QED BY <1>2, <1>3, <1>4, <1>5 DEF InvocationInv

\* Called, when the function is given what the caller means.
LEMMA CalledRight ==
  ASSUME InvocationInv, UNCHANGED <<machine, sig, road, ctx>>, pc = "encode",
         pc' = "done", result' = Result,
         (road = "numeric" => objCount' = Len(NonDirect)) =>
           \A i \in Params : MisplacedByHeap(i) \/ received'[i] = Meant(i)
  PROVE  Prepared' /\ ResultDelivered' /\ ArgumentsDelivered'
<1>1. CallOK /\ ctx = Classified
  BY DEF InvocationInv, TypeOK, Prepared, CallOK
<1>2. Prepared'
  BY <1>1, SameCall DEF InvocationInv, Prepared
<1>3. ResultDelivered'
  BY <1>1, ResultRight, SameCall DEF ResultDelivered
<1>4. ArgumentsDelivered'
  BY SameCall DEF ArgumentsDelivered
<1> QED BY <1>2, <1>3, <1>4

\* InvokeInt and InvokeLong.
LEMMA NumbersOK ==
  ASSUME InvocationInv, InvokeInt \/ InvokeLong
  PROVE  InvocationInv'
<1>1. /\ pc = "encode" /\ road \in {"int", "long"} /\ UNCHANGED <<machine, sig, road, ctx, buf, objCount, passed, exception>>
      /\ pc' = "done" /\ result' = Result /\ received' = NumericArguments({})
  BY DEF InvokeInt, InvokeLong, Called
<1>2. CallOK /\ ctx = Classified
  BY <1>1 DEF InvocationInv, TypeOK, Prepared, CallOK
<1>3. \A j \in Params : j \in {} <=> HowOf(j) = "object"
  <2>1. {sig.params[j].how : j \in DOMAIN sig.params} \subseteq {"value"}
    BY <1>1, <1>2 DEF CallOK, Takes
  <2> QED BY <2>1 DEF Params, HowOf
<1>4. \A i \in Params : NumericArguments({})[i] = Meant(i)
  BY <1>1, <1>2, <1>3, NumericRight
<1>5. Prepared' /\ ResultDelivered' /\ ArgumentsDelivered'
  BY <1>1, <1>4, CalledRight
<1>6. TypeOK' /\ EncodingInv' /\ PositionsAgree'
  BY <1>1, SameBuffer
<1>7. ResolvedOnce'
  BY <1>1, SameCall DEF InvocationInv, ResolvedOnce
<1> QED BY <1>5, <1>6, <1>7 DEF InvocationInv

\* Invoker, with parameters in registers of Java.
LEMMA InvokeNumericOK ==
  ASSUME InvocationInv, InvokeNumeric
  PROVE  InvocationInv'
<1> DEFINE dir == [k \in DOMAIN Objects |-> HowOf(Objects[k]) = "direct"]
<1>1. CallOK /\ ctx = Classified /\ road = "numeric" /\ sig \in Signatures
  BY DEF InvocationInv, TypeOK, Prepared, CallOK, InvokeNumeric
<1>2. Len(sig.params) \in 0..6
  <2>1. Len(sig.params) <= 6
    BY <1>1 DEF CallOK, Takes
  <2> DEFINE n == Len(sig.params)
  <2>2. n \in Nat /\ n <= 6
    BY <1>1, <2>1, SignatureTypes
  <2> HIDE DEF n
  <2>3. n \in 0..6
    BY <2>2
  <2> QED BY <2>3 DEF n
<1>3. PICK m, got :
        /\ m \in Nat /\ (Objects = <<>> => m = 0)
        /\ got = invokeN(dir, m)
        /\ objCount' = m /\ passed' = Handed(got)
        /\ \/ /\ got.throws = "none" /\ exception' = exception
              /\ pc' = "done" /\ result' = Result /\ received' = NumericArguments(Range(passed'))
           \/ got.throws # "none" /\ exception' = got.throws /\ pc' = "failed"
  <2>1. PICK o \in Outcomes :
          /\ objCount' = o.count
          /\ passed' = Handed(o.got)
          /\ \/ /\ o.got.throws = "none"
                /\ Called(NumericArguments(Range(passed')))
                /\ UNCHANGED exception
             \/ /\ o.got.throws # "none"
                /\ exception' = o.got.throws /\ pc' = "failed"
    BY DEF InvokeNumeric, Handed
  <2>2. PICK m \in IF Objects = <<>> THEN {0} ELSE 0..(Len(Objects) + 1) :
          o = [count |-> m, got |-> invokeN(dir, m)]
    BY DEF Outcomes
  <2>3. m \in Nat /\ (Objects = <<>> => m = 0)
    BY <2>2
  <2>4. o.count = m /\ o.got = invokeN(dir, m)
    BY <2>2
  <2> HIDE DEF dir
  <2> QED BY <2>1, <2>3, <2>4 DEF Called
<1>4. UNCHANGED <<machine, sig, road, ctx, buf>> /\ pc = "encode"
  BY DEF InvokeNumeric
<1>5. Strategies(dir) /\ Len(dir) = Len(Objects) /\ Len(dir) \in 0..Len(sig.params)
      /\ Len(NonDirect) = Cardinality(Others(dir))
  BY <1>1, ObjectsRight
<1>6. Len(dir) = 0 => m = 0
  <2> DEFINE S == {i \in Params : HowOf(i) # "value"}  c == Cardinality(S)
  <2>1. S \in SUBSET Params /\ Objects = Ascending(S)
    BY DEF Objects
  <2> HIDE DEF S
  <2>2. Objects \in [1..c -> S] /\ Len(Objects) = c
    BY <1>1, <2>1, Positions
  <2> HIDE DEF c
  <2>3. Len(Objects) = 0 => Objects = <<>>
    BY <2>2
  <2> QED BY <1>3, <1>5, <2>3
<1>13. m \in Nat
  BY <1>3
<1>7. Answers(got, dir, m) /\ (Len(sig.params) <= 3 => AnswersOnce(got, dir, m))
  <2> HIDE DEF dir
  <2>1. Len(dir) <= Len(sig.params)
    BY <1>2, <1>5
  <2> QED BY <1>2, <1>3, <1>5, <1>6, <2>1, InvokeRight
<1>8. /\ AnswersOnce(got, dir, m) => IsInjective(Handed(got))
      /\ m <= Len(NonDirect) => IsInjective(Handed(got)) /\ got.throws = "none"
      /\ m = Len(NonDirect) => \A i \in Params : i \in Range(Handed(got)) <=> HowOf(i) = "object"
  BY <1>1, <1>7, <1>13, PassedRight
<1>9. got.throws # "bounds"
  BY <1>7 DEF Answers
<1> HIDE DEF dir
<1>10. TypeOK' /\ EncodingInv' /\ PositionsAgree'
  BY <1>3, <1>4, <1>9, SameBuffer
<1>11. ResolvedOnce'
  <2>1. NonDirect' = NonDirect /\ Len(NonDirect) \in Nat
    BY <1>4, <1>5, SameCall, OthersCount
  <2> HIDE DEF NonDirect
  <2>2. (Len(sig.params) <= 3 \/ objCount' <= Len(NonDirect)) => IsInjective(passed')
    BY <1>3, <1>7, <1>8
  <2>3. pc' = "failed" => objCount' # Len(NonDirect)
    BY <1>3, <1>8, <2>1
  <2> QED BY <1>4, <2>1, <2>2, <2>3 DEF ResolvedOnce
<1>12. Prepared' /\ ResultDelivered' /\ ArgumentsDelivered'
  <2>1. CASE pc' = "failed"
    BY <1>1, <1>4, <2>1, SameCall DEF InvocationInv, Prepared, ResultDelivered, ArgumentsDelivered
  <2>2. CASE pc' = "done"
    <3> DEFINE objects == Range(Handed(got))
    <3>1. received' = NumericArguments(objects) /\ result' = Result
      BY <1>3, <2>2
    <3>2. ASSUME objCount' = Len(NonDirect), NEW i \in Params PROVE received'[i] = Meant(i)
      <4>1. \A j \in Params : j \in objects <=> HowOf(j) = "object"
        BY <1>3, <1>8, <3>2
      <4> HIDE DEF objects
      <4>2. NumericArguments(objects)[i] = Meant(i)
        BY <1>1, <4>1, NumericRight
      <4> QED BY <3>1, <4>2
    <3> QED BY <1>1, <1>4, <2>2, <3>1, <3>2, CalledRight
  <2> QED BY <1>3, <2>1, <2>2
<1> QED BY <1>10, <1>11, <1>12 DEF InvocationInv

\* Invoker, with a buffer that is full.
LEMMA InvokeBufferOK ==
  ASSUME InvocationInv, InvokeBuffer
  PROVE  InvocationInv'
<1>1. /\ pc = "encode" /\ road = "buffer" /\ UNCHANGED <<machine, sig, road, ctx, buf, objCount, passed, exception>>
      /\ pc' = "done" /\ result' = Result /\ received' = BufferArguments(buf)
      /\ buf.paramIndex = Len(sig.params)
  BY DEF InvokeBuffer, Called
<1>2. CallOK /\ TypeOK /\ EncodingInv
  BY DEF InvocationInv, TypeOK, Prepared, CallOK
<1>3. \A i \in Params : BufferArguments(buf)[i] = Meant(i)
  BY <1>1, <1>2, BufferRight
<1>4. Prepared' /\ ResultDelivered' /\ ArgumentsDelivered'
  BY <1>1, <1>3, CalledRight
<1>5. TypeOK' /\ EncodingInv' /\ PositionsAgree'
  BY <1>1, SameBuffer
<1>6. ResolvedOnce'
  BY <1>1, SameCall DEF InvocationInv, ResolvedOnce
<1> QED BY <1>4, <1>5, <1>6 DEF InvocationInv

\* HeapInvocationBuffer encodes and calls in one step.
LEMMA InvokeHeapOK ==
  ASSUME InvocationInv, InvokeHeap
  PROVE  InvocationInv'
<1>1. /\ pc = "encode" /\ road = "heap" /\ UNCHANGED <<machine, sig, road, ctx, objCount, passed, exception>>
      /\ pc' = "done" /\ result' = Result /\ buf' = EncodedAll /\ received' = BufferArguments(EncodedAll)
  BY DEF InvokeHeap, Called
<1>2. CallOK /\ sig \in Signatures
  BY DEF InvocationInv, TypeOK, Prepared, CallOK
<1>3. \A i \in Params : MisplacedByHeap(i) \/ BufferArguments(EncodedAll)[i] = Meant(i)
  BY <1>1, <1>2, HeapRight
<1>4. Prepared' /\ ResultDelivered' /\ ArgumentsDelivered'
  BY <1>1, <1>3, CalledRight
<1> DEFINE l == Len(NonDirect)  E == {Entry(i) : i \in Params}
<1>5. l \in Nat /\ \A k \in 1..l : NonDirect[k] \in Params
  <2> DEFINE N == {i \in Params : HowOf(i) = "object"}
  <2>1. N \in SUBSET Params
    OBVIOUS
  <2>2. NonDirect = Ascending(N)
    BY DEF NonDirect
  <2> HIDE DEF N
  <2> QED BY <1>2, <2>1, <2>2, Positions
<1>6. buf'.objects = [k \in 1..l |-> Entry(NonDirect[k])]
  BY <1>1 DEF EncodedAll, NewBuffer, Entry
<1> HIDE DEF l
<1>7. /\ buf' = [bytes |-> buf'.bytes, paramOffset |-> buf'.paramOffset, paramIndex |-> buf'.paramIndex,
                 objects |-> buf'.objects, length |-> buf'.length]
      /\ DOMAIN buf'.bytes = 0..(Len(sig.params) * PARAM_SIZE - 1)
      /\ buf'.paramIndex = 0 /\ buf'.length = 0
  BY <1>1 DEF EncodedAll, NewBuffer
<1>8. TypeOK'
  <2>1. \A k \in 1..l : Entry(NonDirect[k]) \in E
    BY <1>5
  <2> HIDE DEF E
  <2>2. buf'.objects \in Seq(E)
    BY <1>5, <1>6, <2>1
  <2>3. 0 \in 0..Len(sig.params)
    BY <1>2, SignatureTypes
  <2>4. E = {Entry(i) : i \in Params'}
    BY <1>1, SameCall DEF E
  <2> QED BY <1>1, <1>7, <2>2, <2>3, <2>4 DEF InvocationInv, TypeOK
<1>9. EncodingInv'
  BY <1>1 DEF EncodingInv
<1>10. PositionsAgree'
  <2>1. ASSUME NEW k \in DOMAIN buf'.objects
        PROVE  buf'.objects[k].object = <<"o", buf'.objects[k].index + 1>>
    <3>1. k \in 1..l /\ buf'.objects[k] = Entry(NonDirect[k]) /\ NonDirect[k] \in Nat
      BY <1>2, <1>5, <1>6, SignatureTypes
    <3> DEFINE n == NonDirect[k]
    <3> HIDE DEF n
    <3>2. n \in Nat /\ buf'.objects[k] = Entry(n)
      BY <3>1 DEF n
    <3> QED BY <3>2 DEF Entry
  <2> QED BY <1>1, <1>7, <2>1 DEF PositionsAgree
<1>11. ResolvedOnce'
  BY <1>1, SameCall DEF InvocationInv, ResolvedOnce
<1> QED BY <1>4, <1>8, <1>9, <1>10, <1>11 DEF InvocationInv

\* Encoded: the new word is written, and the words before it stay.
LEMMA EncodedRight ==
  ASSUME CallOK, Bytes(buf), buf.paramOffset = PARAM_SIZE * buf.paramIndex, buf.paramIndex \in Nat,
         NEW i \in Params, i = buf.paramIndex + 1
  PROVE  LET num == Number(i, PutWidth(i))
             bytes == Store(buf.bytes, buf.paramOffset, PutWidth(i), num)
         IN  /\ DOMAIN bytes = DOMAIN buf.bytes
             /\ \A k \in 0..(PutWidth(i) - 1) :
                  bytes[(i - 1) * PARAM_SIZE + k] = Order(PutWidth(i), num)[k]
             /\ \A j \in 1..buf.paramIndex : \A k \in 0..(PutWidth(j) - 1) :
                  bytes[(j - 1) * PARAM_SIZE + k] = buf.bytes[(j - 1) * PARAM_SIZE + k]
<1> DEFINE n == PutWidth(i)  num == Number(i, n)  at == buf.paramOffset
           bytes == Store(buf.bytes, at, n, num)  p == buf.paramIndex
<1>1. \A j \in Params : PutWidth(j) \in {1, 4, 8}
  <2>1. \A j \in Params : TypeOf(j) \in Types \ {"void"}
    BY SignatureTypes DEF CallOK
  <2> QED BY <2>1, Sizes, Machine DEF PutWidth, CallOK
<1>2. Params = 1..Len(sig.params) /\ Len(sig.params) \in Nat
  BY SignatureTypes DEF CallOK
<1>3. n \in {1, 4, 8} /\ n \in 1..8 /\ p \in Nat /\ i = p + 1
  BY <1>1
<1>4. at = 8 * p /\ at = (i - 1) * 8
  BY <1>3 DEF PARAM_SIZE
<1>5. at..(at + n - 1) \subseteq DOMAIN buf.bytes
  <2>1. (i - 1) * PARAM_SIZE .. ((i - 1) * PARAM_SIZE + n - 1) \subseteq 0..(Len(sig.params) * PARAM_SIZE - 1)
    BY <1>3, WordInside
  <2>2. (i - 1) * PARAM_SIZE = at
    BY <1>4 DEF PARAM_SIZE
  <2> HIDE DEF at, n
  <2> QED BY <2>1, <2>2 DEF Bytes
<1> HIDE DEF n, num, at, p
<1>6. DOMAIN bytes = DOMAIN buf.bytes
  BY DEF Store
<1>7. ASSUME NEW k \in 0..(n - 1) PROVE bytes[at + k] = Order(n, num)[k]
  <2>1. at \in Nat /\ at + k \in at..(at + n - 1) /\ at + k - at = k
    BY <1>3, <1>4
  <2> HIDE DEF Order
  <2> QED BY <1>5, <2>1 DEF Store
<1>8. ASSUME NEW j \in 1..p, NEW k \in 0..(PutWidth(j) - 1)
      PROVE  bytes[(j - 1) * PARAM_SIZE + k] = buf.bytes[(j - 1) * PARAM_SIZE + k]
  <2> DEFINE v == PutWidth(j)  a == (j - 1) * 8 + k
  <2>1. j \in Params
    BY <1>2, <1>3
  <2>2. v \in {1, 4, 8}
    BY <1>1, <2>1
  <2>3. k \in Nat /\ k < 8
    BY <2>2
  <2> HIDE DEF v
  <2>4. a \in Nat /\ a < at
    BY <1>3, <1>4, <2>3
  <2>5. a \in 0..(Len(sig.params) * PARAM_SIZE - 1)
    <3>1. k \in 0..(8 - 1) /\ 8 \in 1..8
      BY <2>3
    <3>2. (j - 1) * PARAM_SIZE .. ((j - 1) * PARAM_SIZE + 8 - 1) \subseteq 0..(Len(sig.params) * PARAM_SIZE - 1)
      BY <2>1, <3>1, WordInside
    <3>3. a \in (j - 1) * 8 .. ((j - 1) * 8 + 8 - 1)
      BY <2>3
    <3> HIDE DEF a
    <3> QED BY <3>2, <3>3 DEF PARAM_SIZE
  <2>6. a \in DOMAIN buf.bytes /\ a \notin at..(at + n - 1)
    BY <1>3, <1>4, <2>4, <2>5 DEF Bytes
  <2>7. a = (j - 1) * PARAM_SIZE + k
    BY DEF PARAM_SIZE
  <2> HIDE DEF a
  <2>8. bytes[a] = buf.bytes[a]
    BY <2>6 DEF Store
  <2> QED BY <2>7, <2>8
<1>9. at = (i - 1) * PARAM_SIZE
  BY <1>4 DEF PARAM_SIZE
<1> HIDE DEF bytes
<1>10. \A k \in 0..(n - 1) : bytes[(i - 1) * PARAM_SIZE + k] = Order(n, num)[k]
  BY <1>7, <1>9
<1> QED BY <1>6, <1>8, <1>10 DEF bytes, n, num, at, p

\* What the two kinds of put leave in the buffer.
LEMMA PutNumber ==
  ASSUME NEW b, NEW bytes, NEW o, NEW p, NEW objects, NEW l, NEW i,
         b = [bytes |-> bytes, paramOffset |-> o, paramIndex |-> p, objects |-> objects, length |-> l]
  PROVE  Encoded(b, i) =
              [bytes |-> Store(bytes, o, PutWidth(i), Number(i, PutWidth(i))),
               paramOffset |-> o + PARAM_SIZE, paramIndex |-> p + 1, objects |-> objects, length |-> l]
<1> HIDE DEF Store, PutWidth, Number, EnsureSpace
<1>1. b.bytes = bytes /\ b.paramOffset = o /\ b.paramIndex = p
  OBVIOUS
<1>2. Encoded(b, i) = [b EXCEPT !.bytes = Store(bytes, o, PutWidth(i), Number(i, PutWidth(i))),
     !.paramOffset = o + PARAM_SIZE, !.paramIndex = p + 1]
  BY <1>1 DEF Encoded
<1> QED BY <1>2

\* putObject, on the parts of the buffer.
LEMMA PutReference ==
  ASSUME NEW b, NEW bytes, NEW o, NEW p, NEW objects, NEW l, NEW i,
         b = [bytes |-> bytes, paramOffset |-> o, paramIndex |-> p, objects |-> objects, length |-> l]
  PROVE  PutObject(b, i) =
              [bytes |-> bytes, paramOffset |-> o + PARAM_SIZE, paramIndex |-> p + 1,
               objects |-> Append(objects, [index |-> p, object |-> <<"o", i>>]), length |-> EnsureSpace(b)]
<1> DEFINE e == [index |-> p, object |-> <<"o", i>>]  s == EnsureSpace(b)
<1>1. b.objects = objects /\ b.paramOffset = o /\ b.paramIndex = p
  OBVIOUS
<1>2. PutObject(b, i) = [b EXCEPT !.paramOffset = o + PARAM_SIZE, !.paramIndex = p + 1,
             !.length = s, !.objects = Append(objects, e)]
  BY <1>1 DEF PutObject
<1> HIDE DEF e, s
<1> QED BY <1>2 DEF e, s

\* One more parameter is put into the buffer.
LEMMA PutOK ==
  ASSUME InvocationInv, Put
  PROVE  InvocationInv'
<1> DEFINE l == Len(sig.params)  p == buf.paramIndex  i == p + 1  E == {Entry(j) : j \in Params}
<1>1. /\ pc = "encode" /\ road = "buffer" /\ p < l
      /\ UNCHANGED <<machine, sig, road, ctx, objCount, passed, received, result>>
  BY DEF Put
<1>2. \/ HowOf(i) # "object" /\ buf' = Encoded(buf, i) /\ UNCHANGED <<exception, pc>>
      \/ /\ HowOf(i) = "object" /\ Len(buf.objects) < EnsureSpace(buf)
         /\ buf' = PutObject(buf, i) /\ UNCHANGED <<exception, pc>>
      \/ ~(Len(buf.objects) < EnsureSpace(buf)) /\ exception' = "bounds" /\ pc' = "failed" /\ UNCHANGED buf
  BY DEF Put
<1>3. CallOK /\ TypeOK /\ Prepared /\ EncodingInv /\ PositionsAgree /\ ResolvedOnce
  BY DEF InvocationInv, TypeOK, Prepared, CallOK
<1>4. Params = 1..l /\ l \in Nat
  BY <1>3, SignatureTypes DEF CallOK
<1>5. p \in Nat /\ i \in Params /\ i \in 1..l /\ p + 1 \in 0..l
  BY <1>1, <1>3, <1>4 DEF TypeOK
<1>6. /\ buf.paramOffset = PARAM_SIZE * p /\ buf.length \in Nat
      /\ Len(buf.objects) <= buf.length /\ (exception = "bounds" => buf.length = 0)
      /\ \A k \in DOMAIN buf.objects : buf.objects[k].object = <<"o", buf.objects[k].index + 1>>
  BY <1>1, <1>3 DEF PositionsAgree, TypeOK
<1>7. /\ buf.objects \in Seq(E) /\ Len(buf.objects) \in Nat /\ DOMAIN buf.objects = 1..Len(buf.objects)
      /\ buf = [bytes |-> buf.bytes, paramOffset |-> p * PARAM_SIZE, paramIndex |-> p,
                objects |-> buf.objects, length |-> buf.length]
  <2> HIDE DEF E
  <2>1. buf.objects \in Seq(E)
    BY <1>3 DEF TypeOK, E
  <2>2. Len(buf.objects) \in Nat /\ DOMAIN buf.objects = 1..Len(buf.objects)
    BY <2>1
  <2>3. PARAM_SIZE * p = p * PARAM_SIZE
    BY <1>5 DEF PARAM_SIZE
  <2> HIDE DEF p
  <2>4. buf = [bytes |-> buf.bytes, paramOffset |-> p * PARAM_SIZE, paramIndex |-> p,
                objects |-> buf.objects, length |-> buf.length]
    BY <1>3, <1>6, <2>3 DEF TypeOK, p
  <2> QED BY <2>1, <2>2, <2>4
<1>8. Prepared' /\ ResolvedOnce' /\ ResultDelivered' /\ ArgumentsDelivered'
  <2>1. pc' \in {"encode", "failed"}
    BY <1>1, <1>2
  <2>2. Prepared'
    BY <1>1, <1>3, <2>1, SameCall DEF Prepared
  <2>3. ResolvedOnce'
    BY <1>1, <1>3, SameCall DEF ResolvedOnce
  <2> QED BY <2>1, <2>2, <2>3 DEF ResultDelivered, ArgumentsDelivered
<1>9. E' = E /\ Params' = Params /\ sig' = sig /\ \A n, num : Order(n, num)' = Order(n, num)
  <2>1. Params' = Params
    BY <1>1, SameCall
  <2> QED BY <1>1, <2>1 DEF Order
<1> HIDE DEF E
<1>10. \A j, k \in Params : Entry(j) = Entry(k) => j = k
  <2>1. \A j \in Params : Entry(j).index = j - 1 /\ j \in Nat
    BY <1>4 DEF Entry
  <2> QED BY <2>1
<1>11. CASE HowOf(i) # "object" /\ buf' = Encoded(buf, i) /\ UNCHANGED <<exception, pc>>
  <2> DEFINE num == Number(i, PutWidth(i))
             bytes == Store(buf.bytes, buf.paramOffset, PutWidth(i), num)
  <2>0. buf = [bytes |-> buf.bytes, paramOffset |-> buf.paramOffset, paramIndex |-> buf.paramIndex,
               objects |-> buf.objects, length |-> buf.length]
    BY <1>3 DEF TypeOK
  <2>1. /\ DOMAIN bytes = DOMAIN buf.bytes
        /\ \A k \in 0..(PutWidth(i) - 1) : bytes[(i - 1) * PARAM_SIZE + k] = Order(PutWidth(i), num)[k]
        /\ \A j \in 1..p : \A k \in 0..(PutWidth(j) - 1) :
             bytes[(j - 1) * PARAM_SIZE + k] = buf.bytes[(j - 1) * PARAM_SIZE + k]
    <3>1. Bytes(buf)
      BY <1>3 DEF TypeOK, Bytes
    <3> HIDE DEF Store, Order, Number, PutWidth
    <3> QED BY <1>3, <1>5, <1>6, <3>1, EncodedRight
  <2> HIDE DEF bytes, num
  <2>2. buf' = [bytes |-> bytes, paramOffset |-> p * PARAM_SIZE + PARAM_SIZE, paramIndex |-> p + 1,
                objects |-> buf.objects, length |-> buf.length]
    <3>1. buf' = [bytes |-> bytes, paramOffset |-> buf.paramOffset + PARAM_SIZE, paramIndex |-> p + 1,
                  objects |-> buf.objects, length |-> buf.length]
      <4>1. Encoded(buf, i) =
              [bytes |-> Store(buf.bytes, buf.paramOffset, PutWidth(i), Number(i, PutWidth(i))),
               paramOffset |-> buf.paramOffset + PARAM_SIZE, paramIndex |-> buf.paramIndex + 1,
               objects |-> buf.objects, length |-> buf.length]
        <5> DEFINE B == buf.bytes  o == buf.paramOffset  q == buf.paramIndex  objects == buf.objects  n == buf.length
        <5>1. buf = [bytes |-> B, paramOffset |-> o, paramIndex |-> q, objects |-> objects, length |-> n]
          BY <2>0
        <5> HIDE DEF B, o, q, objects, n, i
        <5>2. Encoded(buf, i) =
              [bytes |-> Store(B, o, PutWidth(i), Number(i, PutWidth(i))),
               paramOffset |-> o + PARAM_SIZE, paramIndex |-> q + 1, objects |-> objects, length |-> n]
          BY <5>1, PutNumber
        <5> QED BY <5>2 DEF B, o, q, objects, n
      <4> QED BY <1>11, <4>1 DEF bytes, num
    <3>2. buf.paramOffset = p * PARAM_SIZE
      BY <1>7
    <3> QED BY <3>1, <3>2
  <2>3. buf'.paramIndex = p + 1 /\ buf'.bytes = bytes /\ buf'.objects = buf.objects /\ buf'.length = buf.length
        /\ buf'.paramOffset = p * PARAM_SIZE + PARAM_SIZE
    BY <2>2
  <2>4. TypeOK'
    <3>1. buf'.objects \in Seq({Entry(j) : j \in Params'})
      BY <1>7, <1>9, <2>3 DEF E
    <3>2. DOMAIN buf'.bytes = 0..(Len(sig'.params) * PARAM_SIZE - 1)
      BY <1>1, <1>3, <2>1, <2>3 DEF TypeOK
    <3>3. buf' = [bytes |-> buf'.bytes, paramOffset |-> buf'.paramOffset, paramIndex |-> buf'.paramIndex,
                  objects |-> buf'.objects, length |-> buf'.length]
      BY <2>2
    <3> QED BY <1>1, <1>3, <1>5, <1>6, <1>11, <2>3, <3>1, <3>2, <3>3 DEF TypeOK
  <2>5. PositionsAgree'
    <3>1. buf'.paramOffset = PARAM_SIZE * (p + 1)
      BY <1>5, <2>3 DEF PARAM_SIZE
    <3> QED BY <1>1, <1>6, <1>11, <2>3, <3>1 DEF PositionsAgree
  <2>6. EncodingInv'
    <3>1. ASSUME NEW j \in 1..(p + 1), HowOf(j) # "object", NEW k \in 0..(PutWidth(j) - 1)
          PROVE  bytes[(j - 1) * PARAM_SIZE + k] = Order(PutWidth(j), Number(j, PutWidth(j)))[k]
      <4>1. CASE j = i
        BY <2>1, <3>1, <4>1 DEF num
      <4>2. CASE j # i
        <5>1. j \in 1..p
          BY <1>5, <3>1, <4>2
        <5>2. buf.bytes[(j - 1) * PARAM_SIZE + k] = Order(PutWidth(j), Number(j, PutWidth(j)))[k]
          BY <1>1, <1>3, <3>1, <5>1 DEF EncodingInv
        <5> HIDE DEF Order, Number, PutWidth, p
        <5> QED BY <2>1, <5>1, <5>2
      <4> QED BY <4>1, <4>2
    <3>2. ASSUME NEW j \in Params
          PROVE  j <= p + 1 /\ HowOf(j) = "object" <=> Entry(j) \in Range(buf.objects)
      <4>1. j <= p /\ HowOf(j) = "object" <=> Entry(j) \in Range(buf.objects)
        BY <1>1, <1>3 DEF EncodingInv
      <4>2. j <= p + 1 <=> j <= p \/ j = i
        BY <1>4, <1>5
      <4> QED BY <1>11, <4>1, <4>2
    <3> HIDE DEF Order, Number, PutWidth, p, HowOf, Entry
    <3>3. \A j : HowOf(j)' = HowOf(j) /\ PutWidth(j)' = PutWidth(j)
      BY <1>1, SameCall
    <3>4. \A j, n : Number(j, n)' = Number(j, n)
      BY <1>1, SameCall
    <3> QED BY <1>9, <2>3, <3>1, <3>2, <3>3, <3>4 DEF EncodingInv
  <2> QED BY <1>8, <2>4, <2>5, <2>6 DEF InvocationInv
<1>12. CASE /\ HowOf(i) = "object" /\ Len(buf.objects) < EnsureSpace(buf)
            /\ buf' = PutObject(buf, i) /\ UNCHANGED <<exception, pc>>
  <2> DEFINE objects == Append(buf.objects, Entry(i))  space == EnsureSpace(buf)
  <2>0. buf = [bytes |-> buf.bytes, paramOffset |-> buf.paramOffset, paramIndex |-> buf.paramIndex,
               objects |-> buf.objects, length |-> buf.length]
    BY <1>3 DEF TypeOK
  <2>1. Entry(i) = [index |-> p, object |-> <<"o", i>>]
    BY <1>5 DEF Entry
  <2>2. space \in Nat /\ (buf.length = 0 => space = 0)
    BY <1>6, <1>7 DEF EnsureSpace
  <2>3. exception # "bounds"
    BY <1>6, <1>7, <1>12, <2>2
  <2> HIDE DEF space
  <2>4. buf' = [bytes |-> buf.bytes, paramOffset |-> p * PARAM_SIZE + PARAM_SIZE, paramIndex |-> p + 1,
                objects |-> objects, length |-> space]
    <3>1. buf' = [bytes |-> buf.bytes, paramOffset |-> buf.paramOffset + PARAM_SIZE, paramIndex |-> p + 1,
                  objects |-> objects, length |-> space]
      <4> HIDE DEF EnsureSpace, Entry
      <4> QED BY <1>12, <2>0, <2>1, PutReference DEF space, objects
    <3>2. buf.paramOffset = p * PARAM_SIZE
      BY <1>7
    <3> QED BY <3>1, <3>2
  <2> HIDE DEF objects
  <2>5. buf'.paramIndex = p + 1 /\ buf'.bytes = buf.bytes /\ buf'.objects = objects /\ buf'.length = space
        /\ buf'.paramOffset = p * PARAM_SIZE + PARAM_SIZE
    BY <2>4
  <2>6. /\ objects \in Seq(E) /\ Len(objects) = Len(buf.objects) + 1
        /\ DOMAIN objects = 1..(Len(buf.objects) + 1)
        /\ \A k \in 1..Len(buf.objects) : objects[k] = buf.objects[k]
        /\ objects[Len(buf.objects) + 1] = Entry(i)
    <3>1. Entry(i) \in E
      BY <1>5 DEF E
    <3> DEFINE e == Entry(i)
    <3> HIDE DEF e
    <3> QED BY <1>7, <3>1 DEF objects, e
  <2>7. Range(objects) = Range(buf.objects) \cup {Entry(i)}
    <3> DEFINE n == Len(buf.objects)
    <3>1. n \in Nat /\ DOMAIN buf.objects = 1..n /\ DOMAIN objects = 1..(n + 1)
          /\ (\A k \in 1..n : objects[k] = buf.objects[k]) /\ objects[n + 1] = Entry(i)
      BY <1>7, <2>6
    <3> HIDE DEF n
    <3>2. \A k \in 1..(n + 1) : k \in 1..n \/ k = n + 1
      BY <3>1
    <3>3. \A k \in 1..n : k \in 1..(n + 1)
      BY <3>1
    <3>4. n + 1 \in 1..(n + 1)
      BY <3>1
    <3> QED BY <3>1, <3>2, <3>3, <3>4 DEF Range
  <2>8. TypeOK'
    <3>1. buf'.objects \in Seq({Entry(j) : j \in Params'})
      BY <1>9, <2>5, <2>6 DEF E
    <3>2. buf' = [bytes |-> buf'.bytes, paramOffset |-> buf'.paramOffset, paramIndex |-> buf'.paramIndex,
                  objects |-> buf'.objects, length |-> buf'.length]
      BY <2>4
    <3> QED BY <1>1, <1>3, <1>5, <1>12, <2>2, <2>5, <3>1, <3>2 DEF TypeOK
  <2>9. PositionsAgree'
    <3>1. buf'.paramOffset = PARAM_SIZE * (p + 1)
      BY <1>5, <2>5 DEF PARAM_SIZE
    <3>2. ASSUME NEW k \in DOMAIN objects PROVE objects[k].object = <<"o", objects[k].index + 1>>
      <4>1. CASE k \in 1..Len(buf.objects)
        BY <1>6, <1>7, <2>6, <4>1
      <4>2. CASE k = Len(buf.objects) + 1
        BY <2>1, <2>6, <4>2
      <4>3. k \in 1..Len(buf.objects) \/ k = Len(buf.objects) + 1
        BY <1>7, <2>6
      <4> QED BY <4>1, <4>2, <4>3
    <3>3. Len(buf'.objects) <= buf'.length
      BY <1>7, <1>12, <2>2, <2>5, <2>6 DEF space
    <3> QED BY <1>1, <1>12, <2>3, <2>5, <3>1, <3>2, <3>3 DEF PositionsAgree
  <2>10. EncodingInv'
    <3>1. ASSUME NEW j \in 1..(p + 1), HowOf(j) # "object", NEW k \in 0..(PutWidth(j) - 1)
          PROVE  buf.bytes[(j - 1) * PARAM_SIZE + k] = Order(PutWidth(j), Number(j, PutWidth(j)))[k]
      <4>1. j \in 1..p
        <5>1. j # i
          BY <1>12, <3>1
        <5> QED BY <1>5, <5>1
      <4> QED BY <1>1, <1>3, <3>1, <4>1 DEF EncodingInv
    <3>2. ASSUME NEW j \in Params
          PROVE  j <= p + 1 /\ HowOf(j) = "object" <=> Entry(j) \in Range(objects)
      <4>1. j <= p /\ HowOf(j) = "object" <=> Entry(j) \in Range(buf.objects)
        BY <1>1, <1>3 DEF EncodingInv
      <4>2. j <= p + 1 <=> j <= p \/ j = i
        BY <1>4, <1>5
      <4>3. Entry(j) = Entry(i) <=> j = i
        BY <1>5, <1>10
      <4> HIDE DEF p
      <4> QED BY <1>12, <2>7, <4>1, <4>2, <4>3
    <3> HIDE DEF Order, Number, PutWidth, p, HowOf, Entry
    <3>3. \A j : HowOf(j)' = HowOf(j) /\ PutWidth(j)' = PutWidth(j)
      BY <1>1, SameCall
    <3>4. \A j, n : Number(j, n)' = Number(j, n)
      BY <1>1, SameCall
    <3> QED BY <1>9, <2>5, <3>1, <3>2, <3>3, <3>4 DEF EncodingInv
  <2> QED BY <1>8, <2>8, <2>9, <2>10 DEF InvocationInv
<1>13. CASE ~(Len(buf.objects) < EnsureSpace(buf)) /\ exception' = "bounds" /\ pc' = "failed" /\ UNCHANGED buf
  <2>1. buf.length = 0
    BY <1>6, <1>7, <1>13 DEF EnsureSpace
  <2>2. PositionsAgree'
    BY <1>1, <1>6, <1>13, <2>1 DEF PositionsAgree
  <2>3. TypeOK' /\ EncodingInv'
    BY <1>1, <1>13, SameEncoding
  <2> QED BY <1>8, <2>2, <2>3 DEF InvocationInv
<1> QED BY <1>2, <1>11, <1>12, <1>13

\* No action breaks it.
LEMMA StepOK == InvocationInv /\ [Next]_vars => InvocationInv'
<1> SUFFICES ASSUME InvocationInv, [Next]_vars PROVE InvocationInv'
  OBVIOUS
<1>1. ASSUME UNCHANGED vars PROVE InvocationInv'
  <2>1. pc' \in {"context", "encode", "done", "failed"} /\ UNCHANGED <<machine, sig, road, buf, exception>>
    BY <1>1 DEF vars, InvocationInv, TypeOK
  <2>2. TypeOK' /\ EncodingInv' /\ PositionsAgree'
    BY <2>1, SameBuffer
  <2>3. Prepared' /\ ResultDelivered' /\ ResolvedOnce' /\ ArgumentsDelivered'
    BY <1>1, SameCall DEF vars, InvocationInv, Prepared, ResultDelivered, ResolvedOnce, ArgumentsDelivered
  <2> QED BY <2>2, <2>3 DEF InvocationInv
<1>2. CASE Done
  BY <1>1, <1>2 DEF Done
<1> QED BY <1>1, <1>2, NewCallContextOK, PutOK, NumbersOK, InvokeNumericOK, InvokeBufferOK, InvokeHeapOK DEF Next

\* InvocationInv holds of every call, over each entry point, on all machines
\* and for all signatures it takes.
THEOREM InvocationInvariance == Spec => []InvocationInv
<1>1. Init => InvocationInv
  BY InitOK
<1> QED BY <1>1, StepOK, PTL DEF Spec

\* putObject records each object at the index of the Encoder, for any mixture
\* and number of parameters; and only an ObjectBuffer made for no object is
\* out of bounds.
THEOREM ObjectsInStep == Spec => []PositionsAgree
<1>1. InvocationInv => PositionsAgree
  BY DEF InvocationInv
<1> QED BY <1>1, InvocationInvariance, PTL

\* invokeNnOm hands an object to C once, whichever of the six parameters are
\* objects and have a direct strategy, and never refuses the right count.
THEOREM ObjectsOnce == Spec => []ResolvedOnce
<1>1. InvocationInv => ResolvedOnce
  BY DEF InvocationInv
<1> QED BY <1>1, InvocationInvariance, PTL

\* The function is called with what Java meant, through registers, jlongs or
\* the buffer of HeapInvocationBuffer, in either byte order.
THEOREM ArgumentsArrive == Spec => []ArgumentsDelivered
<1>1. InvocationInv => ArgumentsDelivered
  BY DEF InvocationInv
<1> QED BY <1>1, InvocationInvariance, PTL

\* RETVAL, return_int and the accessors of Invoker read the result where the
\* call left it, with the exception that FloatFromWrongHalf names.
THEOREM ResultsArrive == Spec => []ResultDelivered
<1>1. InvocationInv => ResultDelivered
  BY DEF InvocationInv
<1> QED BY <1>1, InvocationInvariance, PTL
=============================================================================
