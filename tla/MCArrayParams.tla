----------------------------- MODULE MCArrayParams -----------------------------
(* Parameter lists of ArrayParams for TLC, over a byte[2] and a short[2]. *)
EXTENDS ArrayParams, TLC

CONSTANTS byteArray, shortArray

MCObjects == {byteArray, shortArray}
MCPrim    == (byteArray :> 1) @@ (shortArray :> 2)
MCLength  == [o \in MCObjects |-> 2]

Directions == {{"IN"}, {"OUT"}, {"IN", "OUT"}, {"OUT", "CLEAR"}}

Param(o, null, type, flags, offset, length, direct, valid, fast) ==
  [o |-> o, null |-> null, type |-> type, flags |-> flags, offset |-> offset,
   length |-> length, direct |-> direct, valid |-> valid, fast |-> fast]

ArrayParam(o, flags, offset, length, fast) ==
  Param(o, FALSE, ARRAY + MCPrim[o], flags, offset, length, FALSE, TRUE, fast)

\* Every direction, pinned or not, inside the array, at its end and past it.
AnyArray(fast) ==
  {ArrayParam(o, d \cup pin, offset, length, fast) :
     o \in MCObjects, d \in Directions, pin \in {{}, {"PINNED"}}, offset \in 0 .. 1, length \in 1 .. 2}

\* Null arrays, buffers with and without an address, a strategy with no type,
\* and an index that the function does not have (fast path) or JNI parameters.
Others(fast) ==
  {Param(byteArray, TRUE, ARRAY + 1, d \cup pin, 0, length, FALSE, TRUE, fast) :
     d \in Directions, pin \in {{}, {"PINNED"}}, length \in 1 .. 2}
  \cup {Param(byteArray, null, BUFFER, {}, 0, 1, direct, TRUE, fast) :
     null \in BOOLEAN, direct \in BOOLEAN}
  \cup {Param(byteArray, FALSE, 0, {}, 0, 1, FALSE, TRUE, fast)}
  \cup IF fast
       THEN {Param(byteArray, FALSE, ARRAY + 1, {"IN"}, 0, 1, FALSE, FALSE, TRUE)}
       ELSE {Param(byteArray, t = JNIENV, JNI + t, {}, 0, 0, FALSE, TRUE, FALSE) :
               t \in {JNIENV, JNIOBJECT}}

\* Pairs of any of these, on both paths.
Pairs == UNION {{<<p, q>> : p, q \in AnyArray(fast) \cup Others(fast)} : fast \in BOOLEAN}

\* And three arrays, of which two or three may be the same.
PairsAndTriples == Pairs \cup
  {<<p, q, r>> : p, q, r \in
     {ArrayParam(o, d \cup pin, 0, length, FALSE) :
        o \in MCObjects, d \in {{"OUT"}, {"IN", "OUT"}}, pin \in {{}, {"PINNED"}}, length \in 1 .. 2}}
=============================================================================
