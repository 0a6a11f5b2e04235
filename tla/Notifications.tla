--------------------------- MODULE Notifications ---------------------------
(***************************************************************************)
(* From the engine's events to the clients that listen.                   *)
(*                                                                         *)
(* The engine calls handleEngineEvents and does not wait for it.  A call   *)
(* first pushes the vouchers that were received into a bounded channel,    *)
(* and then notifies the listeners of each updated payment channel, and    *)
(* those of all payment channels.  The listeners under one key share a     *)
(* mutex and the last info that was sent; a listener is a bounded channel. *)
(* (Ledgers have a map and listeners of their own, which work the same     *)
(* way.)                                                                   *)
(*                                                                         *)
(* A call, and the holder of a mutex, runs on until a push finds a buffer  *)
(* full; calls overtake one another only there.  So updates are notified   *)
(* in the engine's order, but for those that overtake a call which waits   *)
(* to push a voucher, because they bring none themselves.                  *)
(***************************************************************************)
EXTENDS Naturals, Sequences, FiniteSets, SequencesExt

CONSTANTS
  Channels,       \* the payment channels
  All,            \* the key of the listeners to all of them
  None,           \* no client, no listener, no info
  Values,         \* what an info may say of a channel
  Clients,        \* those who register once each
  KeyOf,          \* the key each registers under
  Readers,        \* those of them who go on reading
  Receives,       \* whether an event may bring a voucher
  ReadsVouchers,  \* whether somebody reads receivedVouchers()
  ListenerBuffer, \* 1000 in the code
  VoucherBuffer,  \* 1000 in the code
  MaxEvents,      \* bound: events of the engine
  Closes          \* whether the node is closed

ASSUME KeyAssumption == All \notin Channels /\ KeyOf \in [Clients -> Channels \cup {All}]
ASSUME BufferAssumption == ListenerBuffer \in Nat \ {0} /\ VoucherBuffer \in Nat \ {0}

Keys == Channels \cup {All}
Info == [of : Channels, value : Values]

Listener == [buffer : Seq(Info), from : Nat, got : Seq(Info)]

\* What waits for a mutex, its holder first.
Task == [kind : {"notify", "getOrCreate", "create", "close"},
         info : Info \cup {None}, client : Clients \cup {None}, at : Nat]

VARIABLES
  listeners,  \* the listeners of each key, oldest first
  prev,       \* the last info that was sent to them
  queue,      \* who has and who waits for the mutex of each key
  vouchers,   \* how many vouchers are in the channel
  blocked,    \* the updates of the calls that wait to push a voucher
  holds,      \* the listener each client was given
  closing,    \* the keys close has yet to see, or None before close
  emitted     \* history: the updates of each key, in the order of notification

vars == <<listeners, prev, queue, vouchers, blocked, holds, closing, emitted>>

Init ==
  /\ listeners = [k \in Keys |-> <<>>]
  /\ prev = [k \in Keys |-> None]
  /\ queue = [k \in Keys |-> <<>>]
  /\ vouchers = 0
  /\ blocked = <<>>
  /\ holds = [c \in Clients |-> None]
  /\ closing = None
  /\ emitted = [k \in Keys |-> <<>>]

(***************************************************************************)
(* handleEngineEvents, and notifyPaymentUpdated, which does not wait for   *)
(* notify either.                                                          *)
(***************************************************************************)
Notify(info) == [kind |-> "notify", info |-> info, client |-> None, at |-> 1]

NotifyChannelOnly(info) ==                                             \* mutant
  queue' = [queue EXCEPT ![info.of] = Append(@, Notify(info))]

NotifyPaymentUpdated(info) ==
  queue' = [k \in Keys |-> IF k \in {info.of, All} THEN Append(queue[k], Notify(info))
                           ELSE queue[k]]

Emit(info) ==
  emitted' = [k \in Keys |-> IF k \in {info.of, All} THEN Append(emitted[k], info)
                             ELSE emitted[k]]

HandleEngineEvents(info, received) ==
  /\ closing = None
  /\ Len(emitted[All]) + Len(blocked) < MaxEvents
  /\ IF received /\ vouchers = VoucherBuffer
       THEN /\ blocked' = Append(blocked, info)
            /\ UNCHANGED <<queue, vouchers, emitted>>
       ELSE /\ vouchers' = vouchers + IF received THEN 1 ELSE 0
            /\ NotifyPaymentUpdated(info)
            /\ Emit(info)
            /\ UNCHANGED blocked
  /\ UNCHANGED <<listeners, prev, holds, closing>>

\* A client takes a voucher; the first call that waits goes on.
ReadVoucher ==
  /\ ReadsVouchers /\ vouchers > 0
  /\ IF blocked = <<>>
       THEN vouchers' = vouchers - 1 /\ UNCHANGED <<blocked, queue, emitted>>
       ELSE /\ blocked' = Tail(blocked)
            /\ NotifyPaymentUpdated(Head(blocked))
            /\ Emit(Head(blocked))
            /\ UNCHANGED vouchers
  /\ UNCHANGED <<listeners, prev, holds, closing>>

(***************************************************************************)
(* Registering, and reading.                                               *)
(***************************************************************************)
Create(c) == [kind |-> "create", info |-> None, client |-> c, at |-> 1]
GetOrCreate(c) == [kind |-> "getOrCreate", info |-> None, client |-> c, at |-> 1]

Registers(c) == \E i \in DOMAIN queue[KeyOf[c]] : queue[KeyOf[c]][i].client = c

Register(c) ==
  /\ closing = None
  /\ holds[c] = None /\ ~ Registers(c)
  /\ queue' = [queue EXCEPT ![KeyOf[c]] =
       Append(@, IF KeyOf[c] = All THEN GetOrCreate(c) ELSE Create(c))]
  /\ UNCHANGED <<listeners, prev, vouchers, blocked, holds, closing, emitted>>

Read(c) ==
  /\ c \in Readers /\ holds[c] # None
  /\ listeners[KeyOf[c]][holds[c]].buffer # <<>>
  /\ listeners' = [listeners EXCEPT ![KeyOf[c]][holds[c]].buffer = Tail(@)]
  /\ UNCHANGED <<prev, queue, vouchers, blocked, holds, closing, emitted>>

(***************************************************************************)
(* What the holder of the mutex of key k does.                             *)
(***************************************************************************)
Holder(k) == Head(queue[k])
Holds(k, kind) == queue[k] # <<>> /\ Holder(k).kind = kind

Release(k) == queue' = [queue EXCEPT ![k] = Tail(@)]

ReleasedWhenNew(k) ==                                                  \* mutant
  IF prev[k] = Holder(k).info THEN UNCHANGED queue ELSE Release(k)

Released(k) == Release(k)

IsNews(k) == prev[k] # Holder(k).info

NotifiedAll(k) == Holder(k).at > Len(listeners[k])

\* notify: an info that is not new is dropped.
SkipInfo(k) ==
  /\ Holds(k, "notify")
  /\ ~ IsNews(k)
  /\ Released(k)
  /\ UNCHANGED <<listeners, prev, vouchers, blocked, holds, closing, emitted>>

IsClosed(k) == closing # None /\ k \notin closing

HasRoom(listener) == Len(listener.buffer) < ListenerBuffer

PushInfo(k) ==
  LET i == Holder(k).at
  IN /\ Holds(k, "notify")
     /\ IsNews(k) /\ ~ NotifiedAll(k) /\ ~ IsClosed(k)
     /\ HasRoom(listeners[k][i])
     /\ listeners' = [listeners EXCEPT
          ![k][i].buffer = Append(@, Holder(k).info),
          ![k][i].got = Append(@, Holder(k).info)]
     /\ queue' = [queue EXCEPT ![k][1].at = @ + 1]
     /\ UNCHANGED <<prev, vouchers, blocked, holds, closing, emitted>>

\* A push into a closed channel throws, out of a promise nobody waits for.
PushFails(k) ==
  /\ Holds(k, "notify")
  /\ IsNews(k) /\ ~ NotifiedAll(k) /\ IsClosed(k)
  /\ Release(k)
  /\ UNCHANGED <<listeners, prev, vouchers, blocked, holds, closing, emitted>>

FinishNotifyForgetful(k) ==                                            \* mutant
  /\ Holds(k, "notify")
  /\ IsNews(k) /\ NotifiedAll(k)
  /\ prev' = [prev EXCEPT ![k] = IF listeners[k] = <<>> THEN @ ELSE Holder(k).info]
  /\ Release(k)
  /\ UNCHANGED <<listeners, vouchers, blocked, holds, closing, emitted>>

FinishNotify(k) ==
  /\ Holds(k, "notify")
  /\ IsNews(k) /\ NotifiedAll(k)
  /\ prev' = [prev EXCEPT ![k] = Holder(k).info]
  /\ Release(k)
  /\ UNCHANGED <<listeners, vouchers, blocked, holds, closing, emitted>>

\* The updates that are ahead of a new listener are not sent to it.
Behind(k) == Cardinality({i \in DOMAIN queue[k] : queue[k][i].kind = "notify"})

NewListener(k) == [buffer |-> <<>>, from |-> Len(emitted[k]) - Behind(k), got |-> <<>>]

CreateNewListener(k) ==
  /\ Holds(k, "create")
  /\ listeners' = [listeners EXCEPT ![k] = Append(@, NewListener(k))]
  /\ holds' = [holds EXCEPT ![Holder(k).client] = Len(listeners[k]) + 1]
  /\ Release(k)
  /\ UNCHANGED <<prev, vouchers, blocked, closing, emitted>>

\* getOrCreateListener: with no listener yet, the mutex is given up, and
\* asked for again in createNewListener.
GetOrCreateListener(k) ==
  /\ Holds(k, "getOrCreate")
  /\ IF listeners[k] # <<>>
       THEN /\ holds' = [holds EXCEPT ![Holder(k).client] = 1]
            /\ Release(k)
       ELSE /\ queue' = [queue EXCEPT ![k] = Append(Tail(@), Create(Holder(k).client))]
            /\ UNCHANGED holds
  /\ UNCHANGED <<listeners, prev, vouchers, blocked, closing, emitted>>

(***************************************************************************)
(* close: the engine has stopped; one key after the other.                 *)
(***************************************************************************)
Closing == [kind |-> "close", info |-> None, client |-> None, at |-> 1]

Close ==
  /\ Closes /\ closing = None
  /\ closing' = Keys
  /\ UNCHANGED <<listeners, prev, queue, vouchers, blocked, holds, emitted>>

IsClosing(k) == \E i \in DOMAIN queue[k] : queue[k][i].kind = "close"

CloseNext(k) ==
  /\ closing # None
  /\ k \in closing /\ \A l \in Keys : ~ IsClosing(l)
  /\ queue' = [queue EXCEPT ![k] = Append(@, Closing)]
  /\ UNCHANGED <<listeners, prev, vouchers, blocked, holds, closing, emitted>>

CloseListeners(k) ==
  /\ Holds(k, "close")
  /\ closing' = closing \ {k}
  /\ Release(k)
  /\ UNCHANGED <<listeners, prev, vouchers, blocked, holds, emitted>>

Step(k) ==
  \/ SkipInfo(k) \/ PushInfo(k) \/ PushFails(k) \/ FinishNotify(k)
  \/ CreateNewListener(k) \/ GetOrCreateListener(k)
  \/ CloseNext(k) \/ CloseListeners(k)

Next ==
  \/ \E info \in Info, received \in Receives : HandleEngineEvents(info, received)
  \/ ReadVoucher
  \/ \E c \in Clients : Register(c) \/ Read(c)
  \/ \E k \in Keys : Step(k)
  \/ Close

Spec == Init /\ [][Next]_vars

\* Promises that can go on do so, and those who read keep reading.
Fairness ==
  /\ WF_vars(ReadVoucher)
  /\ \A c \in Clients : WF_vars(Read(c))
  /\ \A k \in Keys : WF_vars(Step(k))

FairSpec == Spec /\ Fairness

-----------------------------------------------------------------------------
(***************************************************************************)
(* Properties.                                                             *)
(***************************************************************************)
TypeOK ==
  /\ listeners \in [Keys -> Seq(Listener)]
  /\ prev \in [Keys -> Info \cup {None}]
  /\ queue \in [Keys -> Seq(Task)]
  /\ vouchers \in 0 .. VoucherBuffer
  /\ blocked \in Seq(Info)
  /\ holds \in [Clients -> 1 .. Cardinality(Clients) \cup {None}]
  /\ closing \in SUBSET Keys \cup {None}
  /\ emitted \in [Keys -> Seq(Info)]
  /\ \A k \in Keys : \A i \in DOMAIN listeners[k] :
       Len(listeners[k][i].buffer) <= ListenerBuffer

\* Of the updates of key k since a listener was made, those that differ from
\* the one before.
Changes(k, from) ==
  LET changed == {i \in from + 1 .. Len(emitted[k]) :
                    i = 1 \/ emitted[k][i] # emitted[k][i - 1]}
  IN [i \in 1 .. Cardinality(changed) |-> emitted[k][SetToSortSeq(changed, <)[i]]]

\* A listener hears the changes of what it listens to, from the moment it was
\* made, in the order in which the calls come to notify, each once, and when
\* nobody is left at the mutex it has heard all of them, unless the notifier
\* is closed (notify, createNewListener).
ListenersHearChanges ==
  \A k \in Keys : \A i \in DOMAIN listeners[k] :
    LET heard == listeners[k][i].got
        changes == Changes(k, listeners[k][i].from)
    IN /\ IsPrefix(heard, changes)
       /\ queue[k] = <<>> /\ ~ IsClosed(k) => heard = changes

\* Every update of a channel is notified and reaches its listeners in the end,
\* also when its call has to wait with a voucher, unless the notifier is closed
\* (handleEngineEvents, notifyPaymentUpdated).
AllAreHeard ==
  /\ blocked = <<>>
  /\ \A k \in Keys : \A i \in DOMAIN listeners[k] :
       Len(listeners[k][i].got) = Len(Changes(k, listeners[k][i].from))

EveryUpdateIsHeard == <>[](closing # None \/ AllAreHeard)

\* Closing the notifier comes to an end while those who listen read
\* (ChannelNotifier.close).
CloseEnds == (closing # None) ~> (closing = {})

\* The listeners to all channels are one (getOrCreateListener).
OneListenerToAll == Len(listeners[All]) <= 1

=============================================================================
