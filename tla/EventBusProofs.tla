----------------------------- MODULE EventBusProofs -----------------------------
(***************************************************************************)
(* Proofs about EventBus for every number of threads, types, subscriptions *)
(* and nested calls of publish.                                            *)
(***************************************************************************)
EXTENDS EventBus, SequenceProofs

\* The ids that were given are below next_id_, and only those are subscribed.
Fresh ==
  /\ \A id \in given : id < next_id_
  /\ \A pair \in live : pair[2] \in given

\* callbacks_ lists what is subscribed, in the order of the ids.
Listed ==
  \A T \in Types : Increasing(callbacks_[T]) /\ Range(callbacks_[T]) = Subscribed(T)

\* A call of publish has called, and will call, what was due: the lower ids first.
GoodCall ==
  {call \in Call :
     /\ Increasing(call.called) /\ Increasing(call.callbacks)
     /\ \A id \in Range(call.called), later \in Range(call.callbacks) : id < later
     /\ Range(call.called) \cup Range(call.callbacks) = call.due}

IInv == TypeOK /\ Fresh /\ Listed /\ calling \in [Threads -> Seq(GoodCall)]

--------------------------------------------------------------------------------
\* Increasing sequences of ids, as Subsequence sees them.
Below == {pair \in Ids \X Ids : pair[1] < pair[2]}

LEMMA IncreasingIsLined ==
  ASSUME NEW s \in Seq(Ids)
  PROVE  Increasing(s) <=> Lined(s, Below)
<1>1. \A i \in 1 .. Len(s) : s[i] \in Ids
  OBVIOUS
<1> QED
  BY <1>1 DEF Increasing, Lined, Below

\* A subscription of the highest id yet comes last.
LEMMA AppendIncreasing ==
  ASSUME NEW s \in Seq(Ids), NEW x \in Ids, Increasing(s), \A y \in Range(s) : y < x
  PROVE  /\ Append(s, x) \in Seq(Ids) /\ Increasing(Append(s, x))
         /\ Range(Append(s, x)) = Range(s) \cup {x}
<1>1. Append(s, x) \in Seq(Ids)
  OBVIOUS
<1>2. \A y \in Range(s) : <<y, x>> \in Below
  BY RangeIsElements DEF Below
<1>3. Lined(s, Below)
  BY IncreasingIsLined
<1>4. Lined(Append(s, x), Below)
  BY <1>2, <1>3, AppendLined
<1>5. Increasing(Append(s, x))
  BY <1>1, <1>4, IncreasingIsLined
<1> QED
  BY <1>1, <1>5, AppendRange

\* Removing an id takes it away and changes no order.
LEMMA RemoveIncreasing ==
  ASSUME NEW s \in Seq(Ids), NEW id, Increasing(s)
  PROVE  /\ Filtered(s, Ids \ {id}) \in Seq(Ids)
         /\ Increasing(Filtered(s, Ids \ {id}))
         /\ Range(Filtered(s, Ids \ {id})) = Range(s) \ {id}
<1> DEFINE S == Ids \ {id}
<1>1. /\ Filtered(s, S) \in Seq(Ids)
      /\ Range(Filtered(s, S)) = Range(s) \cap S
  BY FilteredRange
<1>2. Lined(s, Below)
  BY IncreasingIsLined
<1>3. Lined(Filtered(s, S), Below)
  BY <1>2, FilteredLined
<1>4. Increasing(Filtered(s, S))
  BY <1>1, <1>3, IncreasingIsLined
<1>5. Range(s) \subseteq Ids
  BY RangeIsElements
<1> QED
  BY <1>1, <1>4, <1>5

\* The handler called next is the one of the lowest id.
LEMMA HeadLowest ==
  ASSUME NEW s \in Seq(Ids), s # <<>>, Increasing(s)
  PROVE  /\ Head(s) \in Ids /\ Tail(s) \in Seq(Ids) /\ Increasing(Tail(s))
         /\ \A later \in Range(Tail(s)) : Head(s) < later
         /\ Range(s) = {Head(s)} \cup Range(Tail(s))
<1>1. Lined(s, Below)
  BY IncreasingIsLined
<1>2. /\ Head(s) \in Ids /\ Tail(s) \in Seq(Ids) /\ Lined(Tail(s), Below)
      /\ \A later \in Range(Tail(s)) : <<Head(s), later>> \in Below
      /\ Range(s) = {Head(s)} \cup Range(Tail(s))
  BY <1>1, TailLined
<1> QED
  BY <1>2, IncreasingIsLined DEF Below

\* The calls below the innermost one, and that one.
LEMMA Stack ==
  ASSUME NEW A, NEW s \in Seq(A), s # <<>>
  PROVE  Front(s) \in Seq(A) /\ Last(s) \in A
BY DEF Front, Last

--------------------------------------------------------------------------------
\* A step that leaves the subscriptions alone.
LEMMA OnlyCalling ==
  ASSUME IInv, UNCHANGED <<callbacks_, next_id_, given, live>>,
         publishes' \in 0 .. MaxPublishes, calling' \in [Threads -> Seq(GoodCall)]
  PROVE  IInv'
<1>1. TypeOK'
  <2>1. calling' \in [Threads -> Seq(Call)]
    <3>1. GoodCall \subseteq Call
      BY DEF GoodCall
    <3>2. \A s \in Seq(GoodCall) : s \in Seq(Call)
      BY <3>1
    <3> QED
      BY <3>2
  <2> QED
    BY <2>1 DEF IInv, TypeOK
<1>2. Fresh'
  BY DEF IInv, Fresh
<1>3. Listed'
  <2>1. \A T \in Types : Subscribed(T)' = Subscribed(T)
    BY DEF Subscribed
  <2> QED
    BY <2>1 DEF IInv, Listed
<1>4. (calling \in [Threads -> Seq(GoodCall)])'
  OBVIOUS
<1> QED
  BY <1>1, <1>2, <1>3, <1>4 DEF IInv

\* A new subscription is of the highest id.
LEMMA SubscribeStep ==
  ASSUME IInv, NEW th \in Threads, NEW T \in Types, Subscribe(th, T)
  PROVE  IInv'
<1>1. /\ callbacks_' = [callbacks_ EXCEPT ![T] = Append(@, next_id_)]
      /\ next_id_' = next_id_ + 1 /\ given' = given \cup {next_id_}
      /\ live' = live \cup {<<T, next_id_>>}
      /\ calling' = calling /\ publishes' = publishes
      /\ next_id_ \in Ids /\ next_id_ < MaxSubscribes /\ next_id_ \in Nat
      /\ given \subseteq Nat
  BY EventBusAssumption DEF Subscribe, IInv, TypeOK, Ids
<1>2. \A S \in Types : callbacks_[S] \in Seq(Ids) /\ Increasing(callbacks_[S])
                         /\ Range(callbacks_[S]) = Subscribed(S)
  BY DEF IInv, TypeOK, Listed
<1>3. \A S \in Types : Subscribed(S)' = IF S = T THEN Subscribed(S) \cup {next_id_}
                                        ELSE Subscribed(S)
  <2>1. next_id_ \notin given
    BY <1>1 DEF IInv, Fresh
  <2>2. \A S \in Types : <<S, next_id_>> \notin live
    BY <2>1 DEF IInv, Fresh
  <2> QED
    BY <1>1, <2>1, <2>2 DEF Subscribed
<1>4. /\ Append(callbacks_[T], next_id_) \in Seq(Ids)
      /\ Increasing(Append(callbacks_[T], next_id_))
      /\ Range(Append(callbacks_[T], next_id_)) = Subscribed(T) \cup {next_id_}
  <2>1. \A y \in Range(callbacks_[T]) : y < next_id_
    BY <1>2 DEF Subscribed, IInv, Fresh
  <2> QED
    BY <1>1, <1>2, <2>1, AppendIncreasing
<1>5. \A S \in Types : callbacks_'[S] = IF S = T THEN Append(callbacks_[T], next_id_)
                                        ELSE callbacks_[S]
  BY <1>1 DEF IInv, TypeOK
<1>6. TypeOK'
  <2>1. callbacks_' \in [Types -> Seq(Ids)]
    BY <1>1, <1>2, <1>4 DEF IInv, TypeOK
  <2>2. next_id_' \in 0 .. MaxSubscribes
    BY <1>1, EventBusAssumption
  <2>3. given' \subseteq Ids /\ live' \subseteq Types \X Ids
    BY <1>1 DEF IInv, TypeOK
  <2>4. (calling \in [Threads -> Seq(Call)])' /\ publishes' \in 0 .. MaxPublishes
    BY <1>1 DEF IInv, TypeOK
  <2> QED
    BY <2>1, <2>2, <2>3, <2>4 DEF TypeOK
<1>7. Fresh'
  <2>1. \A id \in given' : id < next_id_'
    BY <1>1 DEF IInv, Fresh
  <2>2. \A pair \in live' : pair[2] \in given'
    BY <1>1 DEF IInv, Fresh
  <2> QED
    BY <2>1, <2>2 DEF Fresh
<1>8. Listed'
  <2> SUFFICES ASSUME NEW S \in Types
               PROVE  Increasing(callbacks_'[S]) /\ Range(callbacks_'[S]) = Subscribed(S)'
    BY DEF Listed
  <2>1. CASE S = T
    BY <1>3, <1>4, <1>5, <2>1
  <2>2. CASE S # T
    BY <1>2, <1>3, <1>5, <2>2
  <2> QED
    BY <2>1, <2>2
<1> QED
  BY <1>1, <1>6, <1>7, <1>8 DEF IInv

\* Of one type, one subscription is gone, if it was one of that type at all.
LEMMA UnsubscribeStep ==
  ASSUME IInv, NEW th \in Threads, NEW T \in Types, NEW id \in given, Unsubscribe(th, T, id)
  PROVE  IInv'
<1>1. /\ callbacks_' = [callbacks_ EXCEPT ![T] = Filtered(@, Ids \ {id})]
      /\ live' = live \ {<<T, id>>}
      /\ UNCHANGED <<next_id_, calling, publishes, given>>
  BY DEF Unsubscribe
<1>2. \A S \in Types : callbacks_[S] \in Seq(Ids) /\ Increasing(callbacks_[S])
                         /\ Range(callbacks_[S]) = Subscribed(S)
  BY DEF IInv, TypeOK, Listed
<1>3. \A S \in Types : Subscribed(S)' = IF S = T THEN Subscribed(S) \ {id} ELSE Subscribed(S)
  BY <1>1 DEF Subscribed
<1>4. /\ Filtered(callbacks_[T], Ids \ {id}) \in Seq(Ids)
      /\ Increasing(Filtered(callbacks_[T], Ids \ {id}))
      /\ Range(Filtered(callbacks_[T], Ids \ {id})) = Subscribed(T) \ {id}
  BY <1>2, RemoveIncreasing
<1>5. \A S \in Types : callbacks_'[S] = IF S = T THEN Filtered(callbacks_[T], Ids \ {id})
                                        ELSE callbacks_[S]
  BY <1>1 DEF IInv, TypeOK
<1>6. TypeOK'
  <2>1. callbacks_' \in [Types -> Seq(Ids)]
    BY <1>1, <1>2, <1>4 DEF IInv, TypeOK
  <2> QED
    BY <1>1, <2>1 DEF IInv, TypeOK
<1>7. Fresh'
  BY <1>1 DEF IInv, Fresh
<1>8. Listed'
  <2> SUFFICES ASSUME NEW S \in Types
               PROVE  Increasing(callbacks_'[S]) /\ Range(callbacks_'[S]) = Subscribed(S)'
    BY DEF Listed
  <2>1. CASE S = T
    BY <1>3, <1>4, <1>5, <2>1
  <2>2. CASE S # T
    BY <1>2, <1>3, <1>5, <2>2
  <2> QED
    BY <2>1, <2>2
<1> QED
  BY <1>1, <1>6, <1>7, <1>8 DEF IInv

\* No type has a subscription left.
LEMMA ClearStep ==
  ASSUME IInv, NEW th \in Threads, Clear(th)
  PROVE  IInv'
<1>1. /\ callbacks_' = [T \in Types |-> <<>>] /\ live' = {}
      /\ UNCHANGED <<next_id_, calling, publishes, given>>
  BY DEF Clear
<1>2. Listed'
  BY <1>1 DEF Listed, Increasing, Range, Subscribed
<1> QED
  BY <1>1, <1>2 DEF IInv, TypeOK, Fresh

\* The copy that publish takes is what is subscribed.
LEMMA PublishStep ==
  ASSUME IInv, NEW th \in Threads, NEW T \in Types, Publish(th, T)
  PROVE  IInv'
<1> DEFINE call == [callbacks |-> callbacks_[T], busy |-> FALSE,
                    called |-> <<>>, due |-> Subscribed(T)]
<1>1. call \in GoodCall
  <2>1. /\ callbacks_[T] \in Seq(Ids) /\ Increasing(callbacks_[T])
        /\ Range(callbacks_[T]) = Subscribed(T)
    BY DEF IInv, TypeOK, Listed
  <2>2. <<>> \in Seq(Ids) /\ Increasing(<<>>) /\ Range(<<>>) = {}
    BY DEF Increasing, Range
  <2>3. Subscribed(T) \in SUBSET Ids
    BY DEF Subscribed, IInv, TypeOK
  <2>4. call \in Call
    BY <2>1, <2>2, <2>3 DEF Call
  <2> QED
    BY <2>1, <2>2, <2>4 DEF GoodCall
<1>2. /\ calling' = [calling EXCEPT ![th] = Append(@, call)]
      /\ publishes' = publishes + 1 /\ publishes < MaxPublishes
      /\ UNCHANGED <<callbacks_, next_id_, given, live>>
  BY DEF Publish
<1> HIDE DEF call
<1>3. calling' \in [Threads -> Seq(GoodCall)]
  BY <1>1, <1>2 DEF IInv
<1>4. publishes' \in 0 .. MaxPublishes
  BY <1>2, EventBusAssumption DEF IInv, TypeOK
<1> QED
  BY <1>2, <1>3, <1>4, OnlyCalling

\* The steps of a publish that has begun.
LEMMA DeliverStep ==
  ASSUME IInv, NEW th \in Threads,
         CallHandler(th) \/ HandlerReturns(th) \/ HandlerThrows(th) \/ PublishReturns(th)
  PROVE  IInv'
<1> DEFINE top == Top(th)
<1>1. calling[th] \in Seq(GoodCall) /\ calling[th] # <<>>
  BY DEF IInv, CallHandler, HandlerReturns, HandlerThrows, PublishReturns, Publishing
<1>2. top \in GoodCall /\ Front(calling[th]) \in Seq(GoodCall)
  BY <1>1, Stack DEF Top
<1>3. UNCHANGED <<callbacks_, next_id_, publishes, given, live>>
  BY DEF CallHandler, HandlerReturns, HandlerThrows, PublishReturns
<1>4. ASSUME NEW call \in GoodCall, SetTop(th, call)
      PROVE  calling' \in [Threads -> Seq(GoodCall)]
  <2>1. Append(Front(calling[th]), call) \in Seq(GoodCall)
    BY <1>2
  <2> QED
    BY <1>4, <2>1 DEF IInv, SetTop
<1>5. calling' \in [Threads -> Seq(GoodCall)]
  <2>1. CASE CallHandler(th)
    <3> DEFINE call == [top EXCEPT !.busy = TRUE, !.callbacks = Tail(@),
                                   !.called = Append(@, Head(top.callbacks))]
    <3>1. SetTop(th, call) /\ top.callbacks # <<>>
      BY <2>1 DEF CallHandler
    <3>2. /\ top.callbacks \in Seq(Ids) /\ top.called \in Seq(Ids)
          /\ top.due \in SUBSET Ids
          /\ Increasing(top.called) /\ Increasing(top.callbacks)
          /\ \A id \in Range(top.called), later \in Range(top.callbacks) : id < later
          /\ Range(top.called) \cup Range(top.callbacks) = top.due
      BY <1>2 DEF GoodCall, Call
    <3>3. /\ Head(top.callbacks) \in Ids /\ Tail(top.callbacks) \in Seq(Ids)
          /\ Increasing(Tail(top.callbacks))
          /\ \A later \in Range(Tail(top.callbacks)) : Head(top.callbacks) < later
          /\ Range(top.callbacks) = {Head(top.callbacks)} \cup Range(Tail(top.callbacks))
      BY <3>1, <3>2, HeadLowest
    <3>4. /\ Append(top.called, Head(top.callbacks)) \in Seq(Ids)
          /\ Increasing(Append(top.called, Head(top.callbacks)))
          /\ Range(Append(top.called, Head(top.callbacks)))
               = Range(top.called) \cup {Head(top.callbacks)}
      BY <3>2, <3>3, AppendIncreasing
    <3>5. /\ call \in Call
          /\ call.callbacks = Tail(top.callbacks) /\ call.due = top.due
          /\ call.called = Append(top.called, Head(top.callbacks))
      BY <1>2, <3>2, <3>3, <3>4 DEF GoodCall, Call
    <3> HIDE DEF call
    <3>6. call \in GoodCall
      BY <3>2, <3>3, <3>4, <3>5 DEF GoodCall
    <3> QED
      BY <1>4, <3>1, <3>6
  <2>2. CASE HandlerReturns(th)
    <3> DEFINE call == [top EXCEPT !.busy = FALSE]
    <3>1. call \in GoodCall
      BY <1>2 DEF GoodCall, Call
    <3>2. SetTop(th, call)
      BY <2>2 DEF HandlerReturns
    <3> QED
      BY <1>4, <3>1, <3>2
  <2>3. CASE HandlerThrows(th) \/ PublishReturns(th)
    BY <1>2, <2>3 DEF IInv, HandlerThrows, PublishReturns
  <2> QED
    BY <2>1, <2>2, <2>3
<1>6. publishes' \in 0 .. MaxPublishes
  BY <1>3 DEF IInv, TypeOK
<1> QED
  BY <1>3, <1>5, <1>6, OnlyCalling

--------------------------------------------------------------------------------
\* The inductive invariant holds in every reachable state of every bus.
THEOREM Invariance == Spec => []IInv
<1>1. Init => IInv
  <2> SUFFICES ASSUME Init PROVE IInv
    OBVIOUS
  <2>1. TypeOK
    BY EventBusAssumption DEF Init, TypeOK
  <2>2. Fresh /\ Listed /\ calling \in [Threads -> Seq(GoodCall)]
    BY DEF Init, Fresh, Listed, Subscribed, Increasing, Range
  <2> QED
    BY <2>1, <2>2 DEF IInv
<1>2. IInv /\ [Next]_vars => IInv'
  <2> SUFFICES ASSUME IInv, [Next]_vars PROVE IInv'
    OBVIOUS
  <2>1. CASE UNCHANGED vars
    BY <2>1, OnlyCalling DEF vars, IInv, TypeOK
  <2>2. CASE Next
    BY <2>2, SubscribeStep, UnsubscribeStep, ClearStep, PublishStep, DeliverStep DEF Next
  <2> QED
    BY <2>1, <2>2
<1> QED
  BY <1>1, <1>2, PTL DEF Spec

\* The variables keep their types.
THEOREM TypeCorrect == Spec => []TypeOK
<1>1. IInv => TypeOK
  BY DEF IInv
<1> QED
  BY Invariance, <1>1, PTL

\* A publish calls what was subscribed when it began, in order, each once and, if no
\* handler throws, all, whatever other threads and the handlers do to the bus.
THEOREM DeliveredExactly == Spec => []Delivered
<1>1. IInv => Delivered
  <2> SUFFICES ASSUME IInv, NEW th \in Threads, NEW call \in Range(calling[th])
               PROVE  /\ Increasing(call.called)
                      /\ Range(call.called) \subseteq call.due
                      /\ \A id \in call.due \ Range(call.called) :
                           call.callbacks # <<>> /\ \A other \in Range(call.called) : other < id
    BY DEF Delivered
  <2>1. call \in GoodCall
    BY RangeIsElements DEF IInv
  <2>2. Range(<<>>) = {}
    BY DEF Range
  <2> QED
    BY <2>1, <2>2 DEF GoodCall
<1> QED
  BY Invariance, <1>1, PTL

\* No id is given twice: what appears in a list has not been given before.
THEOREM NeverReused == Spec => IdsFresh
<1>1. IInv /\ [Next]_vars =>
        [\A T \in Types, id \in Ids :
           id \in Range(callbacks_'[T]) \ Range(callbacks_[T]) => id \notin given]_vars
  <2> SUFFICES ASSUME IInv, [Next]_vars, NEW T \in Types, NEW id \in Ids,
                      id \in Range(callbacks_'[T]) \ Range(callbacks_[T])
               PROVE  id \notin given
    OBVIOUS
  <2>1. /\ \A S \in Types : callbacks_[S] \in Seq(Ids) /\ Increasing(callbacks_[S])
                              /\ Range(callbacks_[S]) = Subscribed(S)
        /\ callbacks_ \in [Types -> Seq(Ids)]
    BY DEF IInv, TypeOK, Listed
  <2>2. callbacks_' # callbacks_
    OBVIOUS
  <2>3. ASSUME NEW th \in Threads, NEW S \in Types, Subscribe(th, S) PROVE id \notin given
    <3>1. IInv'
      BY <2>3, SubscribeStep
    <3>2. \A y \in given' : y < next_id_'
      BY <3>1 DEF IInv, Fresh
    <3>3. id \in Subscribed(T)' /\ id \notin Subscribed(T)
      BY <2>1, <3>1 DEF IInv, Listed
    <3>4. live' = live \cup {<<S, next_id_>>} /\ given' = given \cup {next_id_}
      BY <2>3 DEF Subscribe
    <3>5. id = next_id_
      BY <3>3, <3>4 DEF Subscribed, IInv, Fresh
    <3> QED
      BY <3>5, EventBusAssumption DEF IInv, Fresh, TypeOK
  <2>4. ASSUME NEW th \in Threads, NEW S \in Types, NEW other \in given,
               Unsubscribe(th, S, other)
        PROVE  id \notin given
    <3>1. IInv'
      BY <2>4, UnsubscribeStep
    <3>2. id \in Subscribed(T)' /\ id \notin Subscribed(T)
      BY <2>1, <3>1 DEF IInv, Listed
    <3> QED
      BY <2>4, <3>2 DEF Unsubscribe, Subscribed
  <2>5. ASSUME NEW th \in Threads, Clear(th) PROVE id \notin given
    BY <2>5 DEF Clear, Range
  <2>6. ASSUME NEW th \in Threads,
               \/ \E S \in Types : Publish(th, S)
               \/ CallHandler(th) \/ HandlerReturns(th) \/ HandlerThrows(th)
               \/ PublishReturns(th)
        PROVE  FALSE
    BY <2>2, <2>6 DEF Publish, CallHandler, HandlerReturns, HandlerThrows, PublishReturns
  <2> QED
    BY <2>2, <2>3, <2>4, <2>5, <2>6 DEF Next, vars
<1> QED
  BY Invariance, <1>1, PTL DEF Spec, IdsFresh
================================================================================
