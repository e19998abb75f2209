--------------------------------- MODULE EventBus ---------------------------------
(***************************************************************************)
(* tangbase::EventBus (src/event_bus.hpp): threads that subscribe handlers *)
(* to types of events, unsubscribe them and publish events.                *)
(*                                                                         *)
(* publish copies the handlers of the type under mutex_ and calls them     *)
(* after it has released it, so a handler may use the bus itself, other    *)
(* threads change it meanwhile, and publish calls nest.  A critical        *)
(* section of mutex_ is one action; a handler is named by the id that its  *)
(* subscription was given.                                                 *)
(***************************************************************************)
EXTENDS Naturals, SequencesExt, Subsequence

CONSTANTS
  Threads,
  Types,            \* the types of events
  MaxSubscribes,    \* bound: calls of subscribe
  MaxPublishes      \* bound: calls of publish, those by handlers included

ASSUME EventBusAssumption == MaxSubscribes \in Nat /\ MaxPublishes \in Nat

VARIABLES
  callbacks_,   \* of each type its subscriptions' ids, in their order
  next_id_,
  calling,      \* of each thread its calls of publish, the innermost last
  publishes,    \* how many calls of publish there have been
  given,        \* history: the ids subscribe has returned
  live          \* history: <<type, id>> of what has been subscribed, and
                \* neither unsubscribed nor cleared

vars == <<callbacks_, next_id_, calling, publishes, given, live>>

Ids == 0 .. MaxSubscribes - 1

\* A call of publish: the copied handlers still to be called, whether one of them
\* is running; and for the properties the handlers called so far, and those whom
\* the history had subscribed when the call took its copy.
Call == [callbacks : Seq(Ids), busy : BOOLEAN, called : Seq(Ids), due : SUBSET Ids]

Top(th) == Last(calling[th])
SetTop(th, call) == calling' = [calling EXCEPT ![th] = Append(Front(@), call)]

Publishing(th) == calling[th] # <<>>

\* The thread executes code of a client: a handler, or outside of any publish.
InClient(th) == Publishing(th) => Top(th).busy

--------------------------------------------------------------------------------
(* Mutants: the definitions below as a plausible slip would write them.  No *)
(* definition uses them; PROJECT.json says which property rejects which.    *)

\* clear() makes a new start with the ids as well.
ClearRestarts(th) ==
  /\ InClient(th)
  /\ callbacks_' = [T \in Types |-> <<>>]
  /\ live' = {}
  /\ next_id_' = 0
  /\ UNCHANGED <<calling, publishes, given>>

\* unsubscribe looks for the id under every type.
UnsubscribeAnyType(th, T, id) ==
  /\ InClient(th) /\ id \in given
  /\ callbacks_' = [S \in Types |-> Filtered(callbacks_[S], Ids \ {id})]
  /\ live' = live \ {<<T, id>>}
  /\ UNCHANGED <<next_id_, calling, publishes, given>>

\* publish goes on with the handler it has just called.
CallAgain(th) ==
  /\ Publishing(th) /\ ~Top(th).busy /\ Top(th).callbacks # <<>>
  /\ SetTop(th, [Top(th) EXCEPT !.busy = TRUE])
  /\ UNCHANGED <<callbacks_, next_id_, publishes, given, live>>

--------------------------------------------------------------------------------
(* The operations; each may be called from a handler *)

Init ==
  /\ callbacks_ = [T \in Types |-> <<>>]
  /\ next_id_ = 0
  /\ calling = [th \in Threads |-> <<>>]
  /\ publishes = 0
  /\ given = {} /\ live = {}

Subscribe(th, T) ==
  /\ InClient(th) /\ next_id_ < MaxSubscribes
  /\ callbacks_' = [callbacks_ EXCEPT ![T] = Append(@, next_id_)]
  /\ next_id_' = next_id_ + 1
  /\ given' = given \cup {next_id_}
  /\ live' = live \cup {<<T, next_id_>>}
  /\ UNCHANGED <<calling, publishes>>

\* Any id that subscribe has returned, also one of another type or one that is
\* gone: what T does not have is not removed.
Unsubscribe(th, T, id) ==
  /\ InClient(th) /\ id \in given
  /\ callbacks_' = [callbacks_ EXCEPT ![T] = Filtered(@, Ids \ {id})]
  /\ live' = live \ {<<T, id>>}
  /\ UNCHANGED <<next_id_, calling, publishes, given>>

\* The subscriptions are gone, next_id_ stays.
Clear(th) ==
  /\ InClient(th)
  /\ callbacks_' = [T \in Types |-> <<>>]
  /\ live' = {}
  /\ UNCHANGED <<next_id_, calling, publishes, given>>

Subscribed(T) == {id \in given : <<T, id>> \in live}

\* publish: its critical section.
Publish(th, T) ==
  /\ InClient(th) /\ publishes < MaxPublishes
  /\ publishes' = publishes + 1
  /\ calling' = [calling EXCEPT ![th] = Append(@,
       [callbacks |-> callbacks_[T], busy |-> FALSE,
        called |-> <<>>, due |-> Subscribed(T)])]
  /\ UNCHANGED <<callbacks_, next_id_, given, live>>

\* cb(event), without the mutex.
CallHandler(th) ==
  /\ Publishing(th) /\ ~Top(th).busy /\ Top(th).callbacks # <<>>
  /\ SetTop(th, [Top(th) EXCEPT !.busy = TRUE, !.callbacks = Tail(@),
                                !.called = Append(@, Head(Top(th).callbacks))])
  /\ UNCHANGED <<callbacks_, next_id_, publishes, given, live>>

HandlerReturns(th) ==
  /\ Publishing(th) /\ Top(th).busy
  /\ SetTop(th, [Top(th) EXCEPT !.busy = FALSE])
  /\ UNCHANGED <<callbacks_, next_id_, publishes, given, live>>

\* A handler throws: publish is left, whoever called it catches what it threw, or
\* throws in turn.
HandlerThrows(th) ==
  /\ Publishing(th) /\ Top(th).busy
  /\ calling' = [calling EXCEPT ![th] = Front(@)]
  /\ UNCHANGED <<callbacks_, next_id_, publishes, given, live>>

PublishReturns(th) ==
  /\ Publishing(th) /\ ~Top(th).busy /\ Top(th).callbacks = <<>>
  /\ calling' = [calling EXCEPT ![th] = Front(@)]
  /\ UNCHANGED <<callbacks_, next_id_, publishes, given, live>>

Next ==
  \E th \in Threads :
    \/ \E T \in Types : \/ Subscribe(th, T) \/ Publish(th, T)
                        \/ \E id \in given : Unsubscribe(th, T, id)
    \/ Clear(th)
    \/ CallHandler(th) \/ HandlerReturns(th) \/ HandlerThrows(th) \/ PublishReturns(th)

Spec == Init /\ [][Next]_vars

\* publish goes on, and a handler returns or throws in the end.
Fairness ==
  \A th \in Threads :
    /\ WF_vars(CallHandler(th) \/ PublishReturns(th))
    /\ WF_vars(HandlerReturns(th) \/ HandlerThrows(th))

FairSpec == Spec /\ Fairness
--------------------------------------------------------------------------------
(* Properties *)

TypeOK ==
  /\ callbacks_ \in [Types -> Seq(Ids)]
  /\ next_id_ \in 0 .. MaxSubscribes
  /\ calling \in [Threads -> Seq(Call)]
  /\ publishes \in 0 .. MaxPublishes
  /\ given \subseteq Ids /\ live \subseteq Types \X Ids

\* An id names one subscription for as long as the bus exists, over all types and
\* also past clear(): an unsubscribe that comes late cannot hit another's handler.
IdsFresh ==
  [][\A T \in Types, id \in Ids :
       id \in Range(callbacks_'[T]) \ Range(callbacks_[T]) => id \notin given]_vars

\* The order of the subscriptions is that of their ids.
Increasing(s) == \A i, j \in 1 .. Len(s) : i < j => s[i] < s[j]

\* One publish calls the handlers that were subscribed to its type when it began,
\* in the order of their subscriptions and each once, and, unless one of them
\* throws, all of them; whatever handlers and other threads do meanwhile.  A
\* handler unsubscribed before it began, or with it cleared, is not called.
Delivered ==
  \A th \in Threads : \A call \in Range(calling[th]) :
    /\ Increasing(call.called)
    /\ Range(call.called) \subseteq call.due
    /\ \A id \in call.due \ Range(call.called) :
         call.callbacks # <<>> /\ \A other \in Range(call.called) : other < id

\* publish returns to its caller, however handlers nest and throw.
PublishEnds == \A th \in Threads : Publishing(th) ~> ~Publishing(th)
================================================================================
