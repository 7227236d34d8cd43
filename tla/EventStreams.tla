---------------------------- MODULE EventStreams ----------------------------
(***************************************************************************)
(* Live model events: PrismaService publishes a message for every write    *)
(* (emitModelEvent), RedisService shares one subscription per pattern      *)
(* among its listeners, EventsService.listenDbEvents opens and closes a    *)
(* listener for every stream.  One pattern: patterns share nothing.        *)
(*                                                                         *)
(* Redis answers the commands of the subscriber in the order they were     *)
(* sent, and may refuse one.  A browser reads the data when its stream     *)
(* opens and again on every message; neither Redis nor the browser is part *)
(* of the repository.                                                      *)
(***************************************************************************)
EXTENDS Naturals, Sequences, FiniteSets

CONSTANTS
    Streams,
    Writers,
    MaxWrites       \* bound on the writes

VARIABLES
    stream,     \* stream |-> "new", "adding", "open", "failed", "leaving" or "closed"
    ended,      \* the streams whose observer has ended: by the client or an error
    listeners,  \* eventManager: the streams that listen
    subscribed, \* subscribedPatterns has the pattern
    commands,   \* sent to Redis and not answered: [kind, stream]
    callbacks,  \* how often a message of the pattern is emitted
    writes,     \* the writes made
    committed,  \* the data
    tx,         \* writer |-> is its transaction open
    wire,       \* published messages on their way, by writer
    view,       \* stream |-> the data its browser shows
    orphans,    \* history: streams that joined a subscription that then failed
    leaked,     \* history: an unsubscribe was refused
    unheard     \* history: the streams whose view may be old, and need not know

streamVars == <<stream, ended, listeners, subscribed, commands, callbacks, orphans, leaked>>
dataVars == <<writes, committed, tx, wire>>
eventVars == <<streamVars, dataVars, view, unheard>>

EventsInit ==
    /\ stream = [s \in Streams |-> "new"]
    /\ ended = {} /\ listeners = {} /\ orphans = {} /\ unheard = {}
    /\ subscribed = FALSE /\ leaked = FALSE
    /\ commands = <<>> /\ wire = <<>>
    /\ callbacks = 0 /\ writes = 0 /\ committed = 0
    /\ tx = [w \in Writers |-> FALSE]
    /\ view = [s \in Streams |-> 0]

Open(s) == stream[s] = "open" /\ s \notin ended
OpenStreams == {s \in Streams : Open(s)}

(***************************************************************************)
(* addPatternListener and removePatternListener.                           *)
(***************************************************************************)
(* The first listener subscribes and waits, the others are done at once.   *)
(* A stream that opens shows the data of the moment.                       *)
Listen(s) ==
    /\ stream[s] = "new"
    /\ listeners' = listeners \cup {s}
    /\ subscribed' = TRUE
    /\ IF subscribed
       THEN /\ stream' = [stream EXCEPT ![s] = "open"]
            /\ view' = [view EXCEPT ![s] = committed]
            /\ UNCHANGED commands
       ELSE /\ stream' = [stream EXCEPT ![s] = "adding"] /\ UNCHANGED view
            /\ commands' = Append(commands, [kind |-> "subscribe", stream |-> s])
    /\ UNCHANGED <<ended, callbacks, orphans, leaked, dataVars, unheard>>

(* The subscriber is not ready: the stream ends before it has listened. *)
ListenUnready(s) ==
    /\ stream[s] = "new"
    /\ stream' = [stream EXCEPT ![s] = "failed"]
    /\ ended' = ended \cup {s}
    /\ UNCHANGED <<listeners, subscribed, commands, callbacks, orphans, leaked, dataVars, view, unheard>>

Command(kind) == commands # <<>> /\ Head(commands).kind = kind /\ commands' = Tail(commands)

Subscribed ==
    /\ Command("subscribe")
    /\ callbacks' = callbacks + 1
    /\ stream' = [stream EXCEPT ![Head(commands).stream] = "open"]
    /\ view' = [view EXCEPT ![Head(commands).stream] = committed]
    /\ orphans' = {}
    /\ UNCHANGED <<ended, listeners, subscribed, leaked, dataVars, unheard>>

(* The listener and the pattern are taken out, the other listeners stay. *)
SubscribeFails ==
    /\ Command("subscribe")
    /\ LET s == Head(commands).stream IN
       /\ listeners' = listeners \ {s}
       /\ subscribed' = FALSE
       /\ stream' = [stream EXCEPT ![s] = "failed"]
       /\ ended' = ended \cup {s}
       /\ orphans' = listeners \ {s}
    /\ UNCHANGED <<callbacks, leaked, dataVars, view, unheard>>

(* The browser goes; or the connection reports an error, which ends every  *)
(* stream (Redis subscribes again by itself).                              *)
Leave(s) ==
    /\ stream[s] \in {"adding", "open"}
    /\ ended' = ended \cup {s}
    /\ UNCHANGED <<stream, listeners, subscribed, commands, callbacks, orphans, leaked, dataVars,
                   view, unheard>>
ConnectionError ==
    /\ ended' = ended \cup {s \in Streams : stream[s] \in {"adding", "open"}}
    /\ UNCHANGED <<stream, listeners, subscribed, commands, callbacks, orphans, leaked, dataVars,
                   view, unheard>>

(* Faulty variant: only a listener that was added is cleaned up. *)
SettledOpen(s) == stream[s] = "open"
(* Cleanup waits until the listener has been added or has failed to be. *)
Settled(s) == stream[s] \in {"open", "failed"}

(* The last one out unsubscribes. *)
Teardown(s) ==
    /\ s \in ended /\ Settled(s)
    /\ listeners' = listeners \ {s}
    /\ IF listeners \subseteq {s}
       THEN /\ subscribed' = FALSE
            /\ commands' = Append(commands, [kind |-> "unsubscribe", stream |-> s])
            /\ stream' = [stream EXCEPT ![s] = "leaving"]
       ELSE stream' = [stream EXCEPT ![s] = "closed"] /\ UNCHANGED <<subscribed, commands>>
    /\ UNCHANGED <<ended, callbacks, orphans, leaked, dataVars, view, unheard>>

Unsubscribed ==
    /\ Command("unsubscribe")
    /\ callbacks' = 0
    /\ stream' = [stream EXCEPT ![Head(commands).stream] = "closed"]
    /\ UNCHANGED <<ended, listeners, subscribed, orphans, leaked, dataVars, view, unheard>>

(* The error is logged; the subscription stays. *)
UnsubscribeFails ==
    /\ Command("unsubscribe")
    /\ leaked' = TRUE
    /\ stream' = [stream EXCEPT ![Head(commands).stream] = "closed"]
    /\ UNCHANGED <<ended, listeners, subscribed, callbacks, orphans, dataVars, view, unheard>>

(***************************************************************************)
(* emitModelEvent, after every operation of a scoped client.               *)
(***************************************************************************)
(* The operations told apart: an upsert is not published. *)
Operations == {"update", "updateMany", "upsert"}
(* Faulty variant: operations on many rows are left out. *)
PublishedSingle == {"update"}
Published == {"update", "updateMany"}

Publish(w) == wire' = Append(wire, w)

(* Inside a transaction the message goes out with the statement. *)
WriteInTransaction(w, operation) ==
    /\ ~tx[w] /\ writes < MaxWrites
    /\ tx' = [tx EXCEPT ![w] = TRUE]
    /\ writes' = writes + 1
    /\ IF operation \in Published THEN Publish(w) ELSE UNCHANGED wire
    /\ UNCHANGED <<committed, streamVars, view, unheard>>

(* Nobody hears of the commit if the message has gone before it. *)
Commit(w) ==
    /\ tx[w]
    /\ tx' = [tx EXCEPT ![w] = FALSE]
    /\ committed' = committed + 1
    /\ unheard' = IF \E i \in DOMAIN wire : wire[i] = w THEN unheard ELSE unheard \cup OpenStreams
    /\ UNCHANGED <<writes, wire, streamVars, view>>
RollBack(w) ==
    /\ tx[w]
    /\ tx' = [tx EXCEPT ![w] = FALSE]
    /\ UNCHANGED <<writes, committed, wire, streamVars, view, unheard>>

(* A single statement is committed when the message goes out. *)
Write(w, operation) ==
    /\ ~tx[w] /\ writes < MaxWrites
    /\ writes' = writes + 1
    /\ committed' = committed + 1
    /\ IF operation \in Published THEN Publish(w) ELSE UNCHANGED wire
    /\ unheard' = IF operation = "upsert" THEN unheard \cup OpenStreams ELSE unheard
    /\ UNCHANGED <<tx, streamVars, view>>

(* Publishing fails: logged, and the message is gone. *)
LoseMessage ==
    /\ wire # <<>>
    /\ wire' = Tail(wire)
    /\ unheard' = unheard \cup OpenStreams
    /\ UNCHANGED <<writes, committed, tx, streamVars, view>>

(* Every listener hears a message, if the pattern is subscribed to. *)
Deliver ==
    /\ wire # <<>>
    /\ wire' = Tail(wire)
    /\ view' = [s \in Streams |-> IF callbacks > 0 /\ s \in listeners \cap OpenStreams
                                 THEN committed ELSE view[s]]
    /\ unheard' = IF callbacks = 0 THEN unheard \cup OpenStreams ELSE unheard \ OpenStreams
    /\ UNCHANGED <<writes, committed, tx, streamVars>>

EventSteps ==
    \/ \E s \in Streams : Listen(s) \/ ListenUnready(s) \/ Leave(s) \/ Teardown(s)
    \/ Subscribed \/ SubscribeFails \/ Unsubscribed \/ UnsubscribeFails \/ ConnectionError
    \/ \E w \in Writers :
          \/ \E operation \in Operations : WriteInTransaction(w, operation) \/ Write(w, operation)
          \/ Commit(w) \/ RollBack(w)
    \/ Deliver \/ LoseMessage

EventsSpec == EventsInit /\ [][EventSteps]_eventVars

(* Redis answers, promises settle, and a transaction ends. *)
EventFairness ==
    /\ WF_eventVars(Subscribed \/ SubscribeFails \/ Unsubscribed \/ UnsubscribeFails)
    /\ \A s \in Streams : WF_eventVars(Teardown(s))

(***************************************************************************)
(* Properties.                                                             *)
(***************************************************************************)
(* An open stream has a subscription, or one on its way, unless the one it *)
(* joined while it was pending has failed since: the cleanup after that    *)
(* failure takes the pattern out and leaves the other listeners.           *)
DeafOnlyAfterFailure ==
    \A s \in OpenStreams :
        \/ callbacks > 0
        \/ \E i \in DOMAIN commands : commands[i].kind = "subscribe"
        \/ s \in orphans

(* A message reaches a listener once, unless an unsubscribe was refused,   *)
(* whose callback then stays beside that of the next subscription.         *)
HeardOnce == callbacks > 1 => leaked

(* When nothing is under way an open stream shows the data as it is,       *)
(* unless the last message was lost, came before the commit it is about    *)
(* or before the subscription was there, or the write was an upsert        *)
(* (emitModelEvent is not awaited and knows of no transaction).            *)
ViewFresh ==
    (wire = <<>> /\ \A w \in Writers : ~tx[w]) =>
        \A s \in OpenStreams \ unheard : view[s] = committed

(* Every stream that has ended is cleaned up, whether it was being opened, *)
(* open, or had failed.                                                    *)
StreamsClose == \A s \in Streams : s \in ended ~> stream[s] = "closed"

(* What a stream hears (addPatternListener, removePatternListener,         *)
(* emitModelEvent): it is subscribed, hears a message once, and shows the  *)
(* data, up to the failures each part names.                               *)
StreamsHear == DeafOnlyAfterFailure /\ HeardOnce /\ ViewFresh
=============================================================================
