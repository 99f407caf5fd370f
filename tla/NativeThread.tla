------------------------------ MODULE NativeThread ------------------------------
(***************************************************************************)
(* One operating system thread as the JNI library sees it: the ThreadData  *)
(* of jffi.h (errno saved for Java, attach_count, attached_vm), the        *)
(* attachment to the Java VM that closure_begin and closure_end manage     *)
(* (ClosureMagazine.c), the pending exception, and the calls from Java to  *)
(* native functions (Invoke.c) and back (closure_invoke) nested on its     *)
(* stack.  Every variable is thread-local, so one thread is the system.    *)
(*                                                                         *)
(* ThreadData is allocated zeroed on first use: a thread without one is a  *)
(* thread whose fields are all zero.  The values that a callback takes and *)
(* returns are left out.                                                   *)
(***************************************************************************)
EXTENDS Integers

CONSTANTS
  Threshold,   \* THREAD_ATTACH_THRESHOLD, 1000 in the code
  MaxAttach,   \* bound: how often the thread is attached by jffi
  MaxDepth,    \* bound: nesting of calls and callbacks
  Errnos,      \* values of errno
  Win32        \* built for Windows: no attach_count and no attached_vm

ASSUME NativeThreadAssumption ==
  /\ Threshold \in Nat
  /\ MaxAttach \in Nat
  /\ MaxDepth \in Nat
  /\ 0 \in Errnos
  /\ Win32 \in BOOLEAN

VARIABLES
  kind,         \* "java": started by the VM; "native": started by native code
  status,       \* "running", "exited" or "crashed"
  attached,     \* who attached the thread to the VM: "vm", "jffi", "other", "no"
  error, attachCount, attachedVm,    \* ThreadData
  errno,        \* errno of the C library
  pending,      \* is a Java exception pending in the JNIEnv?
  depth, frame, \* the stack: frame[1] .. frame[depth]
  lost,         \* history: a call returned normally though its last callback threw
  lastErrno     \* history: errno when the last C function with saveErrno returned

threadData == <<error, attachCount, attachedVm>>
history    == <<lost, lastErrno>>
threadVars == <<kind, status, attached, error, attachCount, attachedVm, errno, pending,
          depth, frame, lost, lastErrno>>

\* A call frame is a native function called from Java; saves says whether the
\* caller wants errno, path which Foreign method was used, and threw whether
\* the last callback under it threw.  A closure frame is a Java method called
\* back by native code; detach is the local of closure_invoke.
Frames == [k : {"call", "closure"}, saves : BOOLEAN, path : {"buffer", "pointers"},
           threw : BOOLEAN, detach : BOOLEAN]

CallFrame(saves, path, threw) ==
  [k |-> "call", saves |-> saves, path |-> path, threw |-> threw, detach |-> FALSE]

ClosureFrame(detach) ==
  [k |-> "closure", saves |-> FALSE, path |-> "buffer", threw |-> FALSE, detach |-> detach]

ThreadTypeOK ==
  /\ kind \in {"java", "native"}
  /\ status \in {"running", "exited", "crashed"}
  /\ attached \in {"vm", "jffi", "other", "no"}
  /\ error \in Errnos
  /\ attachCount \in Nat
  /\ attachedVm \in BOOLEAN
  /\ errno \in Errnos
  /\ pending \in BOOLEAN
  /\ depth \in 0 .. MaxDepth
  /\ frame \in [1 .. MaxDepth -> Frames]
  /\ lost \in BOOLEAN
  /\ lastErrno \in Errnos

\* Which side is running: Java code, or native code.
InJava ==
  /\ status = "running"
  /\ IF depth = 0 THEN kind = "java" ELSE frame[depth].k = "closure"

InNative ==
  /\ status = "running"
  /\ IF depth = 0 THEN kind = "native" ELSE frame[depth].k = "call"

Push(f) ==
  /\ depth < MaxDepth
  /\ depth' = depth + 1
  /\ frame' = [frame EXCEPT ![depth + 1] = f]

(***************************************************************************)
(* Calls from Java                                                         *)
(***************************************************************************)
\* Java calls a native function through a context that saves errno or not.
Invoke(saves, path) ==
  /\ InJava
  /\ Push(CallFrame(saves, path, FALSE))
  /\ UNCHANGED <<kind, status, attached, threadData, errno, pending, history>>

\* The errno kept for Java once the call of f has returned: ffi_call is
\* followed by SAVE_ERRNO, except in invokePointerParameterArray.
SavedError(f) == IF f.saves /\ f.path # "pointers" THEN errno ELSE error

\* The native function returns; a pending exception is thrown in the caller.
InvokeReturn ==
  LET f == frame[depth] IN
  /\ InNative
  /\ depth > 0
  /\ error' = SavedError(f)
  /\ lastErrno' = IF f.saves THEN errno ELSE lastErrno
  /\ lost' = (lost \/ (f.threw /\ ~pending))
  /\ pending' = FALSE
  /\ depth' = depth - 1
  /\ UNCHANGED <<kind, status, attached, attachCount, attachedVm, errno, frame>>

\* Foreign.setLastError
SetLastError(e) ==
  /\ InJava
  /\ error' = e
  /\ errno' = e
  /\ lastErrno' = e
  /\ UNCHANGED <<kind, status, attached, attachCount, attachedVm, pending, depth, frame, lost>>

\* Native functions, and system calls of the VM itself, change errno.
ChangeErrno(e) ==
  /\ status = "running"
  /\ errno' = e
  /\ UNCHANGED <<kind, status, attached, threadData, pending, depth, frame, history>>

(***************************************************************************)
(* Callbacks from native code: closure_invoke                              *)
(***************************************************************************)
\* Does closure_begin keep the attachment it makes now for good?
KeepsAttachment == ~Win32 /\ attachCount >= Threshold

\* Mutant of BeginAttached: every closure_end detaches.
BeginAttachedDetach ==
  /\ InNative
  /\ attached # "no"
  /\ Push(ClosureFrame(TRUE))
  /\ pending' = FALSE
  /\ UNCHANGED <<kind, status, attached, threadData, errno, history>>

\* Mutant of BeginAttached: a pending exception is not cleared.
BeginAttachedPending ==
  /\ InNative
  /\ attached # "no"
  /\ Push(ClosureFrame(FALSE))
  /\ UNCHANGED <<kind, status, attached, threadData, errno, pending, history>>

\* closure_begin finds a JNIEnv: it only clears a pending exception.
BeginAttached ==
  /\ InNative
  /\ attached # "no"
  /\ Push(ClosureFrame(FALSE))
  /\ pending' = FALSE
  /\ UNCHANGED <<kind, status, attached, threadData, errno, history>>

\* Mutant of BeginAttach: attached_vm is not recorded.
BeginAttachForget ==
  /\ InNative
  /\ attached = "no"
  /\ attachCount < MaxAttach
  /\ attached' = "jffi"
  /\ attachCount' = IF Win32 THEN attachCount ELSE attachCount + 1
  /\ Push(ClosureFrame(~KeepsAttachment))
  /\ pending' = FALSE
  /\ UNCHANGED <<kind, status, error, attachedVm, errno, history>>

\* closure_begin attaches the thread; from the Threshold on it stays attached.
BeginAttach ==
  /\ InNative
  /\ attached = "no"
  /\ attachCount < MaxAttach
  /\ attached' = "jffi"
  /\ attachCount' = IF Win32 THEN attachCount ELSE attachCount + 1
  /\ attachedVm' = (attachedVm \/ KeepsAttachment)
  /\ Push(ClosureFrame(~KeepsAttachment))
  /\ pending' = FALSE
  /\ UNCHANGED <<kind, status, error, errno, history>>

\* AttachCurrentThreadAsDaemon fails (the VM is going down): the JNIEnv is
\* NULL and closure_begin dereferences it.
BeginAttachFails ==
  /\ InNative
  /\ attached = "no"
  /\ status' = "crashed"
  /\ UNCHANGED <<kind, attached, threadData, errno, pending, depth, frame, history>>

\* The frame below the callback, a call unless native code is the bottom of
\* the stack, learns whether the callback threw.
Below(threw) ==
  IF depth > 1
  THEN [frame EXCEPT ![depth - 1] = CallFrame(frame[depth - 1].saves,
                                              frame[depth - 1].path, threw)]
  ELSE frame

\* Mutant of ClearsException: every closure_end clears.
ClearsAlways == TRUE

\* Does closure_end clear the exception of the callback?
ClearsException == frame[depth].detach \/ (~Win32 /\ attachedVm)

\* The Java method returns, normally or by an exception, and closure_end runs.
CallbackReturn(threw) ==
  /\ InJava
  /\ depth > 0
  /\ pending' = (threw /\ ~ClearsException)
  /\ attached' = IF frame[depth].detach THEN "no" ELSE attached
  /\ frame' = Below(threw)
  /\ depth' = depth - 1
  /\ UNCHANGED <<kind, status, threadData, errno, history>>

(***************************************************************************)
(* The rest of the thread's life                                           *)
(***************************************************************************)
\* Native code outside jffi attaches the thread, or detaches it, which the
\* VM allows only when no Java method is on its stack.
OtherAttach ==
  /\ InNative
  /\ attached = "no"
  /\ attached' = "other"
  /\ UNCHANGED <<kind, status, threadData, errno, pending, depth, frame, history>>

OtherDetach ==
  /\ InNative
  /\ depth = 0
  /\ attached # "no"
  /\ attached' = "no"
  /\ pending' = FALSE
  /\ UNCHANGED <<kind, status, threadData, errno, depth, frame, history>>

\* Mutant of ThreadExit: thread_data_free only frees.
ThreadExitFreeOnly ==
  /\ status = "running"
  /\ depth = 0
  /\ status' = "exited"
  /\ attached' = IF kind = "java" THEN "no" ELSE attached
  /\ UNCHANGED <<kind, threadData, errno, pending, depth, frame, history>>

\* The thread ends: the VM detaches its own threads, and thread_data_free
\* the ones that jffi kept attached.
ThreadExit ==
  /\ status = "running"
  /\ depth = 0
  /\ status' = "exited"
  /\ attached' = IF kind = "java" \/ (~Win32 /\ attachedVm) THEN "no" ELSE attached
  /\ UNCHANGED <<kind, threadData, errno, pending, depth, frame, history>>

ThreadInit ==
  /\ kind \in {"java", "native"}
  /\ status = "running"
  /\ attached = IF kind = "java" THEN "vm" ELSE "no"
  /\ error = 0 /\ attachCount = 0 /\ attachedVm = FALSE
  /\ errno = 0
  /\ pending = FALSE
  /\ depth = 0
  /\ frame = [i \in 1 .. MaxDepth |-> CallFrame(FALSE, "buffer", FALSE)]
  /\ lost = FALSE /\ lastErrno = 0

ThreadNext ==
  \/ \E saves \in BOOLEAN, path \in {"buffer", "pointers"} : Invoke(saves, path)
  \/ InvokeReturn
  \/ \E e \in Errnos : SetLastError(e) \/ ChangeErrno(e)
  \/ BeginAttached \/ BeginAttach \/ BeginAttachFails
  \/ \E threw \in BOOLEAN : CallbackReturn(threw)
  \/ OtherAttach \/ OtherDetach
  \/ ThreadExit

ThreadSpec == ThreadInit /\ [][ThreadNext]_threadVars

----------------------------------------------------------------------------
(***************************************************************************)
(* Properties                                                              *)
(***************************************************************************)
\* Is a Java method active on the stack of the thread?
JavaActive == kind = "java" \/ \E i \in 1 .. depth : frame[i].k = "closure"

\* No closure_end, however deep in callbacks, detaches the thread under a
\* Java method that is still on its stack.
AttachedWhileJavaActive ==
  status = "running" /\ JavaActive => attached # "no"

\* Java code only ever starts and goes on with no exception pending:
\* closure_begin clears what an earlier callback left in the JNIEnv.
NoPendingInJava == InJava => ~pending

\* Every attachment made by a closure is undone by it or recorded in
\* attached_vm, so outside callbacks a thread that jffi attached is known to
\* be so, an exception of its callbacks is not left behind, and no thread
\* dies attached by jffi.
AttachmentAccounted ==
  /\ status = "running" /\ depth = 0 /\ attached = "jffi" => attachedVm /\ ~pending
  /\ status = "exited" => attached # "jffi"

\* An exception of the last callback is withheld from the Java code that
\* called the native function only on a thread that jffi keeps attached.
LostOnlyIfKept == lost => attachedVm

\* "Gets the errno set by the last C function invoked by the current thread":
\* in Java code, what getLastError returns is the errno with which the last
\* function called through an errno-saving context returned.
LastErrorOfLastCall == InJava => error = lastErrno

(***************************************************************************)
(* The inductive invariant                                                 *)
(***************************************************************************)
\* Calls and callbacks alternate on the stack.
Alternates ==
  \A i \in 1 .. depth :
    frame[i].k = (IF i = 1
                  THEN IF kind = "java" THEN "call" ELSE "closure"
                  ELSE IF frame[i - 1].k = "call" THEN "closure" ELSE "call")

\* Only the outermost callback of a native thread detaches, and only what
\* jffi attached; the others found the thread attached.
DetachInv ==
  /\ \A i \in 1 .. depth : frame[i].detach => i = 1 /\ kind = "native" /\ attached = "jffi"
  /\ kind = "java" => ~attachedVm /\ attached = (IF status = "exited" THEN "no" ELSE "vm")
  /\ Win32 => ~attachedVm
  /\ attached = "jffi" /\ status = "running" =>
       attachedVm \/ (depth > 0 /\ frame[1].detach)

\* An exception that was thrown and is not pending any more in the native
\* function was cleared because the thread is kept attached.
ThrewInv ==
  /\ status = "running" /\ depth > 0 /\ frame[depth].k = "call" /\ frame[depth].threw
       => pending \/ attachedVm
  /\ pending => InNative \/ status # "running"

ThreadInv ==
  /\ ThreadTypeOK /\ Alternates /\ DetachInv /\ ThrewInv
  /\ AttachedWhileJavaActive /\ NoPendingInJava /\ AttachmentAccounted /\ LostOnlyIfKept
=============================================================================
