------------------------- MODULE EventTargetProofs -------------------------
(***************************************************************************)
(* Proofs about EventTarget, for any number of events, listeners,          *)
(* subscriptions and nested dispatches.                                    *)
(***************************************************************************)
EXTENDS EventTarget, SequenceTheorems, TLAPS

(***************************************************************************)
(* Removing pairs keeps the stack, the events of its frames, and only      *)
(* takes listeners away from what they are about to run.                   *)
(***************************************************************************)
LEMMA WithoutFrames ==
    ASSUME frames \in Seq(Frame), NEW removed
    PROVE  /\ Without(removed) \in Seq(Frame)
           /\ DOMAIN Without(removed) = DOMAIN frames
           /\ \A i \in DOMAIN frames :
                 /\ Without(removed)[i].event = frames[i].event
                 /\ \A l \in Without(removed)[i].pending :
                       /\ l \in frames[i].pending
                       /\ <<frames[i].event, l>> \notin removed
<1>1. DOMAIN frames = 1 .. Len(frames) /\ Len(frames) \in Nat
  OBVIOUS
<1>2. \A i \in DOMAIN frames : frames[i] \in Frame
  OBVIOUS
<1>3. \A i \in DOMAIN frames :
         /\ Without(removed)[i] =
               [event   |-> frames[i].event,
                pending |-> {l \in frames[i].pending : <<frames[i].event, l>> \notin removed},
                entered |-> frames[i].entered]
         /\ Without(removed)[i] \in Frame
  BY <1>2 DEF Without, Frame
<1>4. Without(removed) \in [1 .. Len(frames) -> Frame]
  BY <1>1, <1>3 DEF Without
<1>5. Without(removed) \in Seq(Frame) /\ DOMAIN Without(removed) = DOMAIN frames
  BY <1>1, <1>4, SeqDef
<1> QED
  BY <1>3, <1>5

LEMMA InitIInv == Init => IInv
  BY DEF Init, IInv, TypeOK, Reachable, RunsAttached, Frame

(* One lemma per kind of step: a step that only takes away...              *)
LEMMA RemovalStep ==
    ASSUME IInv, NEW removed \in SUBSET Pairs,
           attached' = attached \ removed,
           frames' = Without(removed),
           callbacks' \subseteq callbacks,
           subscribed' = subscribed,
           \A s \in callbacks : subscribed[s] \notin removed => s \in callbacks'
    PROVE  IInv'
<1>1. /\ frames' \in Seq(Frame)
      /\ DOMAIN frames' = DOMAIN frames
      /\ \A i \in DOMAIN frames :
            /\ frames'[i].event = frames[i].event
            /\ \A l \in frames'[i].pending :
                  /\ l \in frames[i].pending
                  /\ <<frames[i].event, l>> \notin removed
  BY WithoutFrames DEF IInv, TypeOK
<1>2. TypeOK'
  BY <1>1 DEF IInv, TypeOK
<1>3. Reachable'
  BY DEF IInv, Reachable
<1>4. RunsAttached'
  BY <1>1 DEF IInv, RunsAttached
<1> QED
  BY <1>2, <1>3, <1>4 DEF IInv

LEMMA NextIInv == IInv /\ [Next]_vars => IInv'
<1> SUFFICES ASSUME IInv, [Next]_vars PROVE IInv'
  OBVIOUS
<1>1. ASSUME NEW s \in Subscriptions, NEW pair \in Pairs, On(s, pair) PROVE IInv'
  <2>1. /\ subscribed[s] = None /\ subscribed' = [subscribed EXCEPT ![s] = pair]
        /\ attached' = attached \cup {pair} /\ callbacks' = callbacks \cup {s}
        /\ frames' = frames
    BY <1>1 DEF On
  <2>2. TypeOK'
    BY <2>1 DEF IInv, TypeOK
  <2>3. /\ subscribed'[s] = pair
        /\ \A t \in Subscriptions : t # s => subscribed'[t] = subscribed[t]
    BY <2>1 DEF IInv, TypeOK
  <2>4. ASSUME NEW p \in attached' PROVE \E t \in callbacks' : subscribed'[t] = p
    <3>1. CASE p = pair
      BY <2>1, <2>3, <3>1
    <3>2. CASE p \in attached
      <4>1. PICK t \in callbacks : subscribed[t] = p
        BY <3>2 DEF IInv, Reachable
      <4>2. t # s /\ t \in Subscriptions
        BY <2>1, <3>2, <4>1, EventTargetAssumption DEF IInv, TypeOK, Pairs
      <4> QED
        BY <2>1, <2>3, <4>1, <4>2
    <3> QED
      BY <2>1, <3>1, <3>2
  <2>5. RunsAttached'
    BY <2>1 DEF IInv, RunsAttached
  <2> QED
    BY <2>2, <2>4, <2>5 DEF IInv, Reachable
<1>2. ASSUME NEW s \in Subscriptions, Unsubscribe(s) PROVE IInv'
  <2> DEFINE removed == {subscribed[s]}
  <2>1. removed \in SUBSET Pairs
    BY <1>2 DEF Unsubscribe, IInv, TypeOK
  <2>2. \A t \in callbacks : subscribed[t] \notin removed => t \in callbacks'
    BY <1>2 DEF Unsubscribe
  <2> HIDE DEF removed
  <2>3. attached' = attached \ removed /\ frames' = Without(removed)
    BY <1>2 DEF Unsubscribe, removed
  <2>4. callbacks' \subseteq callbacks /\ subscribed' = subscribed
    BY <1>2 DEF Unsubscribe
  <2> QED
    BY <2>1, <2>2, <2>3, <2>4, RemovalStep
<1>3. ASSUME Cleanup PROVE IInv'
  <2> DEFINE removed == {subscribed[s] : s \in callbacks} \cap Pairs
  <2>1. Without({subscribed[s] : s \in callbacks}) = Without(removed)
    <3>1. \A i \in DOMAIN frames : \A l \in frames[i].pending :
              <<frames[i].event, l>> \in Pairs
      BY DEF IInv, TypeOK, RunsAttached
    <3> QED
      BY <3>1 DEF Without
  <2>2. attached' = attached \ removed
    BY <1>3 DEF Cleanup, IInv, TypeOK
  <2> HIDE DEF removed
  <2>3. frames' = Without(removed) /\ callbacks' = callbacks /\ subscribed' = subscribed
    BY <1>3, <2>1 DEF Cleanup
  <2>4. removed \in SUBSET Pairs
    BY DEF removed
  <2> QED
    BY <2>2, <2>3, <2>4, RemovalStep
<1>4. ASSUME NEW event \in Events, Dispatch(event) PROVE IInv'
  <2> DEFINE frame == [event   |-> event,
                       pending |-> {l \in Listeners : <<event, l>> \in attached},
                       entered |-> FALSE]
  <2>1. /\ frames' = <<frame>> \o frames
        /\ attached' = attached /\ callbacks' = callbacks /\ subscribed' = subscribed
    BY <1>4 DEF Dispatch
  <2>2. frame \in Frame /\ <<frame>> \in Seq(Frame)
    BY DEF Frame
  <2>3. \A l \in frame.pending : <<frame.event, l>> \in attached
    OBVIOUS
  <2> HIDE DEF frame
  <2>4. frames' \in Seq(Frame)
    BY <2>1, <2>2 DEF IInv, TypeOK
  <2>5. \A i \in DOMAIN frames' :
            \/ i = 1 /\ frames'[i] = frame
            \/ i - 1 \in DOMAIN frames /\ frames'[i] = frames[i - 1]
    <3>1. frames \in Seq(Frame) /\ Len(<<frame>>) = 1 /\ <<frame>>[1] = frame
      BY DEF IInv, TypeOK
    <3>2. /\ Len(frames') = 1 + Len(frames)
          /\ \A i \in 1 .. 1 + Len(frames) :
                frames'[i] = IF i <= 1 THEN <<frame>>[i] ELSE frames[i - 1]
      BY <2>1, <2>2, <3>1, ConcatProperties
    <3>3. DOMAIN frames' = 1 .. Len(frames') /\ DOMAIN frames = 1 .. Len(frames)
      BY <2>4, <3>1
    <3>4. Len(frames) \in Nat
      BY <3>1
    <3>5. ASSUME NEW i \in DOMAIN frames', i # 1
          PROVE  i - 1 \in DOMAIN frames /\ frames'[i] = frames[i - 1]
      <4>1. i \in 1 .. 1 + Len(frames) /\ ~(i <= 1) /\ i - 1 \in 1 .. Len(frames)
        BY <3>2, <3>3, <3>4, <3>5
      <4> QED
        BY <3>2, <3>3, <4>1
    <3>6. ASSUME 1 \in DOMAIN frames' PROVE frames'[1] = frame
      <4>1. 1 \in 1 .. 1 + Len(frames)
        BY <3>4
      <4> QED
        BY <3>1, <3>2, <4>1
    <3> QED
      BY <3>5, <3>6
  <2>6. RunsAttached'
    BY <2>1, <2>3, <2>5 DEF IInv, RunsAttached
  <2> QED
    BY <2>1, <2>4, <2>6 DEF IInv, TypeOK, Reachable
<1>5. ASSUME NEW listener \in Listeners, Deliver(listener) PROVE IInv'
  <2>1. /\ frames # << >>
        /\ frames' = [frames EXCEPT ![1].pending = @ \ {listener}, ![1].entered = TRUE]
        /\ attached' = attached /\ callbacks' = callbacks /\ subscribed' = subscribed
    BY <1>5 DEF Deliver
  <2>2. frames \in Seq(Frame) /\ 1 \in DOMAIN frames /\ frames[1] \in Frame
    BY <2>1 DEF IInv, TypeOK
  <2> DEFINE frame == [event |-> frames[1].event, pending |-> frames[1].pending \ {listener},
                       entered |-> TRUE]
  <2>3. /\ frame \in Frame
        /\ DOMAIN frames' = DOMAIN frames
        /\ frames'[1] = frame
        /\ \A i \in DOMAIN frames : i # 1 => frames'[i] = frames[i]
    <3>1. frame \in Frame
      BY <2>2 DEF Frame
    <3>2. frames'[1] = frame
      BY <2>1, <2>2 DEF Frame
    <3> QED
      BY <2>1, <2>2, <3>1, <3>2
  <2>4. frames' \in Seq(Frame)
    <3>1. DOMAIN frames = 1 .. Len(frames) /\ Len(frames) \in Nat
          /\ \A i \in DOMAIN frames : frames[i] \in Frame
      BY <2>2
    <3>2. frames' = [i \in 1 .. Len(frames) |-> frames'[i]]
      BY <2>1, <2>3, <3>1
    <3>3. frames' \in [1 .. Len(frames) -> Frame]
      BY <2>3, <3>1, <3>2
    <3> QED
      BY <3>1, <3>3, SeqDef
  <2>5. \A i \in DOMAIN frames' : /\ i \in DOMAIN frames
                                  /\ frames'[i].event = frames[i].event
                                  /\ frames'[i].pending \subseteq frames[i].pending
    BY <2>2, <2>3
  <2>6. RunsAttached'
    BY <2>1, <2>5 DEF IInv, RunsAttached
  <2> QED
    BY <2>1, <2>4, <2>6 DEF IInv, TypeOK, Reachable
<1>6. ASSUME Return PROVE IInv'
  <2>1. /\ frames # << >> /\ frames' = Tail(frames)
        /\ attached' = attached /\ callbacks' = callbacks /\ subscribed' = subscribed
    BY <1>6 DEF Return
  <2>2. frames' \in Seq(Frame)
    BY <2>1 DEF IInv, TypeOK
  <2>3. \A i \in DOMAIN frames' : i + 1 \in DOMAIN frames /\ frames'[i] = frames[i + 1]
    BY <2>1 DEF IInv, TypeOK
  <2>4. RunsAttached'
    BY <2>1, <2>3 DEF IInv, RunsAttached
  <2> QED
    BY <2>1, <2>2, <2>4 DEF IInv, TypeOK, Reachable
<1>7. CASE UNCHANGED vars
  BY <1>7 DEF vars, IInv, TypeOK, Reachable, RunsAttached
<1> QED
  BY <1>1, <1>2, <1>3, <1>4, <1>5, <1>6, <1>7 DEF Next

(* The inductive invariant holds in every reachable state.                 *)
THEOREM Inductive == Spec => []IInv
  BY InitIInv, NextIInv, PTL DEF Spec

(* The outer cleanup reaches every listener that is attached.              *)
THEOREM EveryListenerReachable == Spec => []Reachable
<1>1. IInv => Reachable
  BY DEF IInv
<1> QED
  BY <1>1, Inductive, PTL

(* Only listeners with a subscription left are ever about to run.          *)
THEOREM OnlySubscribedRun == Spec => []RunsSubscribed
<1>1. IInv => RunsSubscribed
  BY DEF IInv, RunsAttached, Reachable, RunsSubscribed
<1> QED
  BY <1>1, Inductive, PTL

(* After the outer cleanup no listener is attached, and none runs any more *)
(* in a dispatch in progress.                                              *)
THEOREM CleanupIsComplete == Spec => CleansUp
<1>1. ASSUME IInv, Cleanup
      PROVE  attached' = {} /\ \A i \in DOMAIN frames' : frames'[i].pending = {}
  <2>1. attached' = {}
    BY <1>1 DEF Cleanup, IInv, Reachable
  <2>2. \A i \in DOMAIN frames : \A l \in frames[i].pending :
            <<frames[i].event, l>> \in {subscribed[s] : s \in callbacks}
    BY <1>1 DEF IInv, RunsAttached, Reachable
  <2>3. /\ DOMAIN frames' = DOMAIN frames
        /\ \A i \in DOMAIN frames : \A l \in frames'[i].pending :
              /\ l \in frames[i].pending
              /\ <<frames[i].event, l>> \notin {subscribed[s] : s \in callbacks}
    BY <1>1, WithoutFrames DEF Cleanup, IInv, TypeOK
  <2> QED
    BY <2>1, <2>2, <2>3
<1>2. IInv /\ [Next]_vars =>
          [Cleanup => attached' = {} /\ \A i \in DOMAIN frames' : frames'[i].pending = {}]_vars
  BY <1>1
<1> QED
  BY <1>2, Inductive, PTL DEF Spec, CleansUp
=============================================================================
