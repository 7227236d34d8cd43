-------------------------- MODULE FieldWorkProofs ---------------------------
(***************************************************************************)
(* Proofs about the parts of the system that serve work in the field: that *)
(* event streams hear what is published, for any number of streams,        *)
(* writers and writes; that tags stay with their assets and scans see what *)
(* they may, for any tags, tokens and keys; that answers write their own   *)
(* metadata, for any assets and products; that questions are asked when    *)
(* their conditions are met, for any questions and facts; that a reorder   *)
(* moves one point of its route, for any points and reorders; and that an  *)
(* asset's last warning comes before it is due, and mails are neither lost *)
(* nor sent twice without a cause and stay within their reader's reach,    *)
(* for any assets, members, sites, days and faults.                        *)
(***************************************************************************)
EXTENDS Scans, Assets, Questions, RouteOrder, EventStreams, Notifications, FiniteSetTheorems, WellFoundedInduction, TLAPS
-----------------------------------------------------------------------------
(* Event streams *)

StreamStates == {"new", "adding", "open", "failed", "leaving", "closed"}
RedisCommands == [kind : {"subscribe", "unsubscribe"}, stream : Streams]

EventsTyped ==
    /\ stream \in [Streams -> StreamStates]
    /\ commands \in Seq(RedisCommands)
    /\ callbacks \in Nat
    /\ wire \in Seq(Writers)
    /\ view \in [Streams -> Nat] /\ committed \in Nat

Pending(kind) == \E i \in 1 .. Len(commands) : commands[i].kind = kind

(* At most one subscribe is on its way, behind whatever was sent before    *)
(* it, for a stream that waits for it; what unsubscribed is gone for good. *)
CommandsSound ==
    /\ \A i \in 1 .. Len(commands) :
          /\ commands[i].kind = "subscribe" =>
                /\ i = Len(commands) /\ subscribed
                /\ stream[commands[i].stream] = "adding"
          /\ commands[i].kind = "unsubscribe" => stream[commands[i].stream] \in {"leaving", "closed"}
    /\ \A s \in Streams : stream[s] \in {"adding", "open"} => s \in listeners

(* The flag stands for a subscription that is there or on its way, and no  *)
(* listener is left to an unsubscribe without one behind it.               *)
SubscriptionSound ==
    /\ subscribed => Pending("subscribe") \/ (callbacks > 0 /\ ~Pending("unsubscribe"))
    /\ Pending("unsubscribe") /\ listeners # {} => Pending("subscribe")

(* Without a refused unsubscribe there is one callback at most, and it is  *)
(* the one of the flag or about to go.                                     *)
CallbackSingle ==
    ~leaked => /\ callbacks <= 1
               /\ callbacks > 0 /\ ~Pending("unsubscribe") => subscribed /\ ~Pending("subscribe")

ViewFollows == \A s \in OpenStreams \ unheard : view[s] = committed \/ wire # <<>>

EventsInv == /\ EventsTyped /\ CommandsSound /\ SubscriptionSound /\ CallbackSingle
             /\ DeafOnlyAfterFailure /\ ViewFollows

(* Before the first stream nothing is subscribed and nothing sent. *)
LEMMA EventsInvInit == EventsInit => EventsInv
<1> SUFFICES ASSUME EventsInit PROVE EventsInv
  OBVIOUS
<1> USE DEF EventsInit
<1>1. EventsTyped /\ CommandsSound
  BY DEF EventsTyped, StreamStates, CommandsSound
<1>2. SubscriptionSound /\ CallbackSingle
  BY DEF SubscriptionSound, CallbackSingle, Pending
<1>3. DeafOnlyAfterFailure /\ ViewFollows
  BY DEF DeafOnlyAfterFailure, ViewFollows, OpenStreams, Open
<1> QED
  BY <1>1, <1>2, <1>3 DEF EventsInv

(* The commands that are left once the first is answered. *)
LEMMA CommandAnswered ==
    ASSUME EventsInv, NEW kind, Command(kind)
    PROVE  /\ commands # <<>> /\ commands' = Tail(commands) /\ commands' \in Seq(RedisCommands)
           /\ Head(commands) \in RedisCommands /\ Head(commands).kind = kind
           /\ Head(commands) = commands[1] /\ 1 \in 1 .. Len(commands)
           /\ Len(commands') = Len(commands) - 1 /\ Len(commands) \in Nat
           /\ \A i \in 1 .. Len(commands') : commands'[i] = commands[i + 1] /\ i + 1 \in 1 .. Len(commands)
           /\ \A j \in 1 .. Len(commands) : j # 1 => j - 1 \in 1 .. Len(commands') /\ commands'[j - 1] = commands[j]
BY DEF Command, EventsInv, EventsTyped

(* A subscribe that is answered was the only command on its way. *)
LEMMA SubscribeAnswered ==
    ASSUME EventsInv, Command("subscribe")
    PROVE  /\ Len(commands) = 1 /\ commands' = <<>> /\ ~Pending("unsubscribe") /\ Pending("subscribe")
           /\ subscribed /\ Head(commands).stream \in Streams
           /\ stream[Head(commands).stream] = "adding" /\ Head(commands).stream \in listeners
           /\ ~Pending("subscribe")' /\ ~Pending("unsubscribe")'
<1>1. /\ commands # <<>> /\ commands' = Tail(commands) /\ Head(commands) \in RedisCommands
      /\ Head(commands).kind = "subscribe" /\ Head(commands) = commands[1] /\ 1 \in 1 .. Len(commands)
      /\ Len(commands') = Len(commands) - 1 /\ Len(commands) \in Nat
  BY CommandAnswered
<1>2. Len(commands) = 1 /\ subscribed /\ stream[Head(commands).stream] = "adding"
  BY <1>1 DEF EventsInv, CommandsSound
<1>3. Head(commands).stream \in Streams
  BY <1>1 DEF RedisCommands
<1>4. commands' = <<>>
  BY <1>1, <1>2 DEF EventsInv, EventsTyped
<1>5. \A i \in 1 .. Len(commands) : i = 1
  BY <1>2
<1>6. Pending("subscribe") /\ ~Pending("unsubscribe")
  BY <1>1, <1>5 DEF Pending
<1>7. Len(commands') = 0
  BY <1>1, <1>2
<1>8. ~Pending("subscribe")' /\ ~Pending("unsubscribe")'
  BY <1>7 DEF Pending
<1>9. Head(commands).stream \in listeners
  BY <1>2, <1>3 DEF EventsInv, CommandsSound
<1> QED
  BY <1>2, <1>3, <1>4, <1>6, <1>8, <1>9

(* A subscription that is there, refused or not, and its listeners. *)
LEMMA SubscribedInv ==
    ASSUME EventsInv, Subscribed
    PROVE  EventsInv'
<1> DEFINE s == Head(commands).stream
<1> USE DEF EventsInv
<1>1. /\ commands' = <<>> /\ ~Pending("unsubscribe") /\ Pending("subscribe") /\ subscribed /\ s \in Streams
      /\ stream[s] = "adding" /\ s \in listeners /\ ~Pending("subscribe")' /\ ~Pending("unsubscribe")'
  BY SubscribeAnswered DEF Subscribed
<1>2. /\ callbacks' = callbacks + 1 /\ stream' = [stream EXCEPT ![s] = "open"]
      /\ view' = [view EXCEPT ![s] = committed]
      /\ UNCHANGED <<ended, listeners, subscribed, leaked, committed, wire, unheard>>
  BY DEF Subscribed, dataVars
<1>3. EventsTyped'
  BY <1>1, <1>2 DEF EventsTyped, StreamStates
<1>4. CommandsSound'
  BY <1>1, <1>2 DEF CommandsSound, EventsTyped
<1>5. SubscriptionSound' /\ CallbackSingle'
  BY <1>1, <1>2 DEF SubscriptionSound, CallbackSingle, EventsTyped
<1>6. DeafOnlyAfterFailure'
  BY <1>2 DEF DeafOnlyAfterFailure, EventsTyped
<1>7. ViewFollows'
  BY <1>1, <1>2 DEF ViewFollows, OpenStreams, Open, EventsTyped
<1> QED
  BY <1>3, <1>4, <1>5, <1>6, <1>7

(* A subscription that fails leaves its other listeners behind, as orphans. *)
LEMMA SubscribeFailsInv ==
    ASSUME EventsInv, SubscribeFails
    PROVE  EventsInv'
<1> DEFINE s == Head(commands).stream
<1> USE DEF EventsInv
<1>1. /\ commands' = <<>> /\ ~Pending("unsubscribe") /\ Pending("subscribe") /\ subscribed /\ s \in Streams
      /\ stream[s] = "adding" /\ s \in listeners /\ ~Pending("subscribe")' /\ ~Pending("unsubscribe")'
  BY SubscribeAnswered DEF SubscribeFails
<1>2. /\ listeners' = listeners \ {s} /\ subscribed' = FALSE /\ stream' = [stream EXCEPT ![s] = "failed"]
      /\ ended' = ended \cup {s} /\ orphans' = listeners \ {s}
      /\ UNCHANGED <<callbacks, leaked, committed, wire, view, unheard>>
  BY DEF SubscribeFails, dataVars
<1>3. EventsTyped'
  BY <1>1, <1>2 DEF EventsTyped, StreamStates
<1>4. CommandsSound'
  BY <1>1, <1>2 DEF CommandsSound, EventsTyped
<1>5. SubscriptionSound' /\ CallbackSingle'
  BY <1>1, <1>2 DEF SubscriptionSound, CallbackSingle, EventsTyped
<1>6. DeafOnlyAfterFailure'
  BY <1>1, <1>2 DEF DeafOnlyAfterFailure, CommandsSound, OpenStreams, Open, EventsTyped
<1>7. ViewFollows'
  BY <1>1, <1>2 DEF ViewFollows, OpenStreams, Open, EventsTyped
<1> QED
  BY <1>3, <1>4, <1>5, <1>6, <1>7

(* An unsubscribe, carried out or refused, takes nothing from a listener   *)
(* that a later subscribe does not give back.                              *)
LEMMA UnsubscribeAnsweredInv ==
    ASSUME EventsInv, Unsubscribed \/ UnsubscribeFails
    PROVE  EventsInv'
<1> DEFINE s == Head(commands).stream
<1> USE DEF EventsInv
<1>1. Command("unsubscribe")
  BY DEF Unsubscribed, UnsubscribeFails
<1>2. /\ commands' \in Seq(RedisCommands) /\ Head(commands) \in RedisCommands
      /\ Head(commands).kind = "unsubscribe" /\ Head(commands) = commands[1] /\ 1 \in 1 .. Len(commands)
      /\ Len(commands') = Len(commands) - 1 /\ Len(commands) \in Nat
      /\ \A i \in 1 .. Len(commands') : commands'[i] = commands[i + 1] /\ i + 1 \in 1 .. Len(commands)
      /\ \A j \in 1 .. Len(commands) : j # 1 => j - 1 \in 1 .. Len(commands') /\ commands'[j - 1] = commands[j]
  BY <1>1, CommandAnswered
<1>3. /\ stream' = [stream EXCEPT ![s] = "closed"] /\ s \in Streams
      /\ stream[s] \in {"leaving", "closed"}
      /\ UNCHANGED <<ended, listeners, subscribed, orphans, committed, wire, view, unheard>>
      /\ (callbacks' = 0 /\ leaked' = leaked) \/ (callbacks' = callbacks /\ leaked')
  BY <1>2 DEF Unsubscribed, UnsubscribeFails, dataVars, CommandsSound, RedisCommands
<1>4. EventsTyped'
  BY <1>2, <1>3 DEF EventsTyped, StreamStates
<1>5. CommandsSound'
  <2>1. ASSUME NEW i \in 1 .. Len(commands')
        PROVE  /\ commands'[i].kind = "subscribe" =>
                     i = Len(commands') /\ subscribed' /\ stream'[commands'[i].stream] = "adding"
               /\ commands'[i].kind = "unsubscribe" => stream'[commands'[i].stream] \in {"leaving", "closed"}
    <3>1. commands'[i] = commands[i + 1] /\ i + 1 \in 1 .. Len(commands) /\ commands'[i] \in RedisCommands
      BY <1>2
    <3>2. commands'[i].stream \in Streams
      BY <3>1 DEF RedisCommands
    <3>3. ASSUME commands'[i].kind = "subscribe"
          PROVE  i = Len(commands') /\ subscribed' /\ stream'[commands'[i].stream] = "adding"
      <4>1. i + 1 = Len(commands) /\ subscribed /\ stream[commands'[i].stream] = "adding"
        BY <3>1, <3>3 DEF CommandsSound
      <4> QED
        BY <1>2, <1>3, <3>2, <4>1 DEF EventsTyped
    <3>4. ASSUME commands'[i].kind = "unsubscribe"
          PROVE  stream'[commands'[i].stream] \in {"leaving", "closed"}
      <4>1. stream[commands'[i].stream] \in {"leaving", "closed"}
        BY <3>1, <3>4 DEF CommandsSound
      <4> QED
        BY <1>3, <3>2, <4>1 DEF EventsTyped
    <3> QED
      BY <3>3, <3>4
  <2>2. \A u \in Streams : stream'[u] \in {"adding", "open"} => u \in listeners'
    BY <1>3 DEF CommandsSound, EventsTyped
  <2> QED
    BY <2>1, <2>2 DEF CommandsSound
<1>6. Pending("unsubscribe") /\ (Pending("subscribe")' <=> Pending("subscribe"))
  <2>1. Pending("unsubscribe") /\ (Pending("subscribe")' => Pending("subscribe"))
    BY <1>2 DEF Pending
  <2>2. ASSUME Pending("subscribe") PROVE Pending("subscribe")'
    <3>1. PICK j \in 1 .. Len(commands) : commands[j].kind = "subscribe"
      BY <2>2 DEF Pending
    <3>2. j # 1
      BY <1>2, <3>1
    <3>3. j - 1 \in 1 .. Len(commands') /\ commands'[j - 1].kind = "subscribe"
      BY <1>2, <3>1, <3>2
    <3> QED
      BY <3>3 DEF Pending
  <2> QED
    BY <2>1, <2>2
<1>7. SubscriptionSound'
  BY <1>3, <1>6 DEF SubscriptionSound
<1>8. CallbackSingle'
  BY <1>3, <1>6 DEF CallbackSingle, EventsTyped
<1>9. DeafOnlyAfterFailure'
  <2> SUFFICES ASSUME NEW u \in OpenStreams'
               PROVE  callbacks' > 0 \/ Pending("subscribe")' \/ u \in orphans'
    <3>1. DOMAIN commands' = 1 .. Len(commands')
      BY <1>4 DEF EventsTyped
    <3> QED
      BY <3>1 DEF DeafOnlyAfterFailure, Pending
  <2>1. u \in listeners /\ u \in OpenStreams
    BY <1>3 DEF OpenStreams, Open, CommandsSound, EventsTyped
  <2> QED
    BY <1>6, <2>1 DEF SubscriptionSound
<1>10. ViewFollows'
  BY <1>3 DEF ViewFollows, OpenStreams, Open, EventsTyped
<1> QED
  BY <1>4, <1>5, <1>7, <1>8, <1>9, <1>10

(* A command is sent for a stream. *)
LEMMA CommandStreams ==
    ASSUME EventsInv
    PROVE  \A i \in 1 .. Len(commands) : commands[i].stream \in Streams
<1>1. \A i \in 1 .. Len(commands) : commands[i] \in RedisCommands
  BY DEF EventsInv, EventsTyped
<1> QED
  BY <1>1 DEF RedisCommands

(* What is left once a command is sent after the others. *)
LEMMA CommandSent ==
    ASSUME EventsInv, NEW kind \in {"subscribe", "unsubscribe"}, NEW s \in Streams,
           commands' = Append(commands, [kind |-> kind, stream |-> s])
    PROVE  /\ commands' \in Seq(RedisCommands) /\ Len(commands') = Len(commands) + 1 /\ Len(commands) \in Nat
           /\ commands'[Len(commands')].kind = kind /\ commands'[Len(commands')].stream = s
           /\ \A i \in 1 .. Len(commands) : i \in 1 .. Len(commands') /\ commands'[i] = commands[i]
           /\ \A i \in 1 .. Len(commands') : i # Len(commands') => i \in 1 .. Len(commands)
<1> DEFINE c == [kind |-> kind, stream |-> s]
<1>1. c \in RedisCommands /\ commands \in Seq(RedisCommands)
  BY DEF RedisCommands, EventsInv, EventsTyped
<1>2. c.kind = kind /\ c.stream = s
  OBVIOUS
<1> HIDE DEF c
<1>3. commands' = Append(commands, c)
  BY DEF c
<1> QED
  BY <1>1, <1>2, <1>3

(* A stream that listens joins the subscription or asks for one. *)
LEMMA ListenInv ==
    ASSUME EventsInv, NEW s \in Streams, Listen(s)
    PROVE  EventsInv'
<1> USE DEF EventsInv
<1>1. /\ stream[s] = "new" /\ listeners' = listeners \cup {s} /\ subscribed'
      /\ UNCHANGED <<ended, callbacks, orphans, leaked, committed, wire, unheard>>
  BY DEF Listen, dataVars
<1>2. CASE subscribed
  <2>1. /\ stream' = [stream EXCEPT ![s] = "open"] /\ view' = [view EXCEPT ![s] = committed]
        /\ commands' = commands
    BY <1>2 DEF Listen
  <2>2. EventsTyped'
    BY <1>1, <2>1 DEF EventsTyped, StreamStates
  <2>3. CommandsSound'
    BY <1>1, <1>2, <2>1 DEF CommandsSound, EventsTyped, RedisCommands
  <2>4. SubscriptionSound' /\ CallbackSingle'
    BY <1>1, <1>2, <2>1 DEF SubscriptionSound, CallbackSingle, Pending
  <2>5. DOMAIN commands = 1 .. Len(commands)
    BY DEF EventsTyped
  <2>6. Pending("subscribe") \/ callbacks > 0
    BY <1>2 DEF SubscriptionSound
  <2>7. DeafOnlyAfterFailure'
    BY <1>1, <2>1, <2>5, <2>6 DEF DeafOnlyAfterFailure, Pending
  <2>8. ViewFollows'
    BY <1>1, <2>1 DEF ViewFollows, OpenStreams, Open, EventsTyped
  <2> QED
    BY <2>2, <2>3, <2>4, <2>7, <2>8
<1>3. CASE ~subscribed
  <2>1. /\ stream' = [stream EXCEPT ![s] = "adding"] /\ view' = view
        /\ commands' = Append(commands, [kind |-> "subscribe", stream |-> s])
    BY <1>3 DEF Listen
  <2>2. /\ commands' \in Seq(RedisCommands) /\ Len(commands') = Len(commands) + 1 /\ Len(commands) \in Nat
        /\ commands'[Len(commands')].kind = "subscribe" /\ commands'[Len(commands')].stream = s
        /\ \A i \in 1 .. Len(commands) : i \in 1 .. Len(commands') /\ commands'[i] = commands[i]
        /\ \A i \in 1 .. Len(commands') : i # Len(commands') => i \in 1 .. Len(commands)
    BY <2>1, CommandSent
  <2>3. EventsTyped'
    BY <1>1, <2>1, <2>2 DEF EventsTyped, StreamStates
  <2>4. CommandsSound'
    <3>1. ASSUME NEW i \in 1 .. Len(commands')
          PROVE  /\ commands'[i].kind = "subscribe" =>
                       i = Len(commands') /\ subscribed' /\ stream'[commands'[i].stream] = "adding"
                 /\ commands'[i].kind = "unsubscribe" => stream'[commands'[i].stream] \in {"leaving", "closed"}
      <4>1. CASE i = Len(commands')
        BY <1>1, <2>1, <2>2, <4>1 DEF EventsTyped
      <4>2. CASE i # Len(commands')
        <5>1. i \in 1 .. Len(commands) /\ commands'[i] = commands[i] /\ commands[i] \in RedisCommands
          BY <2>2, <4>2 DEF EventsTyped
        <5>2. commands[i].stream \in Streams /\ commands[i].kind # "subscribe"
          BY <1>3, <5>1 DEF CommandsSound, RedisCommands
        <5>3. commands[i].kind = "unsubscribe" => stream[commands[i].stream] \in {"leaving", "closed"}
          BY <5>1 DEF CommandsSound
        <5> QED
          BY <1>1, <2>1, <5>1, <5>2, <5>3 DEF EventsTyped
      <4> QED
        BY <4>1, <4>2
    <3>2. \A u \in Streams : stream'[u] \in {"adding", "open"} => u \in listeners'
      BY <1>1, <2>1 DEF CommandsSound, EventsTyped
    <3> QED
      BY <3>1, <3>2 DEF CommandsSound
  <2>5. Pending("subscribe")' /\ (Pending("unsubscribe") => Pending("unsubscribe")')
    <3>1. Len(commands') \in 1 .. Len(commands')
      BY <2>2
    <3> QED
      BY <2>2, <3>1 DEF Pending
  <2>6. SubscriptionSound'
    BY <2>5 DEF SubscriptionSound
  <2>7. CallbackSingle'
    BY <1>1, <1>3, <2>5 DEF CallbackSingle
  <2>8. DOMAIN commands' = 1 .. Len(commands')
    BY <2>2
  <2>9. DeafOnlyAfterFailure'
    BY <2>5, <2>8 DEF DeafOnlyAfterFailure, Pending
  <2>10. ViewFollows'
    BY <1>1, <2>1 DEF ViewFollows, OpenStreams, Open, EventsTyped
  <2> QED
    BY <2>3, <2>4, <2>6, <2>7, <2>9, <2>10
<1> QED
  BY <1>2, <1>3

(* A stream that ends, or fails before it listened, changes no subscription. *)
LEMMA EndingInv ==
    ASSUME EventsInv,
           ConnectionError \/ \E s \in Streams : ListenUnready(s) \/ Leave(s)
    PROVE  EventsInv'
<1> USE DEF EventsInv
<1>1. /\ UNCHANGED <<listeners, subscribed, commands, callbacks, orphans, leaked, committed, wire, view, unheard>>
      /\ ended \subseteq ended'
  BY DEF ConnectionError, ListenUnready, Leave, dataVars
<1>2. stream' = stream \/ \E s \in Streams : stream[s] = "new" /\ stream' = [stream EXCEPT ![s] = "failed"]
  BY DEF ConnectionError, ListenUnready, Leave
<1>3. stream' \in [Streams -> StreamStates]
  BY <1>2 DEF EventsTyped, StreamStates
<1>4. \A u \in Streams : stream'[u] = stream[u] \/ (stream[u] = "new" /\ stream'[u] = "failed")
  BY <1>2 DEF EventsTyped
<1>5. EventsTyped'
  BY <1>1, <1>3 DEF EventsTyped
<1>6. \A i \in 1 .. Len(commands) : commands[i].stream \in Streams
  BY CommandStreams
<1>7. CommandsSound'
  BY <1>1, <1>4, <1>6 DEF CommandsSound
<1>8. SubscriptionSound' /\ CallbackSingle'
  BY <1>1 DEF SubscriptionSound, CallbackSingle, Pending
<1>9. OpenStreams' \subseteq OpenStreams
  BY <1>1, <1>4 DEF OpenStreams, Open
<1>10. DeafOnlyAfterFailure' /\ ViewFollows'
  BY <1>1, <1>9 DEF DeafOnlyAfterFailure, ViewFollows
<1> QED
  BY <1>5, <1>7, <1>8, <1>10

(* The last stream out sends an unsubscribe, and none that listens is left *)
(* to it; no subscribe was on its way, which would have had a listener.    *)
LEMMA TeardownInv ==
    ASSUME EventsInv, NEW s \in Streams, Teardown(s)
    PROVE  EventsInv'
<1> USE DEF EventsInv
<1>1. /\ s \in ended /\ stream[s] \in {"open", "failed"} /\ listeners' = listeners \ {s}
      /\ UNCHANGED <<ended, callbacks, orphans, leaked, committed, wire, view, unheard>>
  BY DEF Teardown, Settled, dataVars
<1>2. \A i \in 1 .. Len(commands) : commands[i].stream \in Streams
  BY CommandStreams
<1>3. CASE listeners \subseteq {s}
  <2>1. /\ subscribed' = FALSE /\ stream' = [stream EXCEPT ![s] = "leaving"]
        /\ commands' = Append(commands, [kind |-> "unsubscribe", stream |-> s])
    BY <1>3 DEF Teardown
  <2>2. /\ commands' \in Seq(RedisCommands) /\ Len(commands') = Len(commands) + 1 /\ Len(commands) \in Nat
        /\ commands'[Len(commands')].kind = "unsubscribe" /\ commands'[Len(commands')].stream = s
        /\ \A i \in 1 .. Len(commands) : i \in 1 .. Len(commands') /\ commands'[i] = commands[i]
        /\ \A i \in 1 .. Len(commands') : i # Len(commands') => i \in 1 .. Len(commands)
    BY <2>1, CommandSent
  <2>3. EventsTyped'
    BY <1>1, <2>1, <2>2 DEF EventsTyped, StreamStates
  <2>4. \A i \in 1 .. Len(commands) : commands[i].kind # "subscribe"
    BY <1>1, <1>2, <1>3 DEF CommandsSound
  <2>5. CommandsSound'
    <3>1. ASSUME NEW i \in 1 .. Len(commands')
          PROVE  commands'[i].kind # "subscribe" /\
                 (commands'[i].kind = "unsubscribe" => stream'[commands'[i].stream] \in {"leaving", "closed"})
      <4>1. CASE i = Len(commands')
        BY <2>1, <2>2, <4>1 DEF EventsTyped
      <4>2. CASE i # Len(commands')
        <5>1. i \in 1 .. Len(commands) /\ commands'[i] = commands[i]
          BY <2>2, <4>2
        <5>2. commands[i].kind = "unsubscribe" => stream[commands[i].stream] \in {"leaving", "closed"}
          BY <5>1 DEF CommandsSound
        <5> QED
          BY <1>2, <2>1, <2>4, <5>1, <5>2 DEF EventsTyped
      <4> QED
        BY <4>1, <4>2
    <3>2. \A u \in Streams : stream'[u] \in {"adding", "open"} => u \in listeners'
      BY <1>1, <2>1 DEF CommandsSound, EventsTyped
    <3> QED
      BY <3>1, <3>2 DEF CommandsSound
  <2>6. Pending("unsubscribe")'
    <3>1. Len(commands') \in 1 .. Len(commands')
      BY <2>2
    <3> QED
      BY <2>2, <3>1 DEF Pending
  <2>7. SubscriptionSound' /\ CallbackSingle'
    BY <1>1, <1>3, <2>1, <2>6 DEF SubscriptionSound, CallbackSingle
  <2>8. OpenStreams' = {}
    BY <1>1, <1>3, <2>1 DEF OpenStreams, Open, CommandsSound, EventsTyped
  <2>9. DeafOnlyAfterFailure' /\ ViewFollows'
    BY <2>8 DEF DeafOnlyAfterFailure, ViewFollows
  <2> QED
    BY <2>3, <2>5, <2>7, <2>9
<1>4. CASE ~(listeners \subseteq {s})
  <2>1. stream' = [stream EXCEPT ![s] = "closed"] /\ UNCHANGED <<subscribed, commands>>
    BY <1>4 DEF Teardown
  <2>2. EventsTyped'
    BY <1>1, <2>1 DEF EventsTyped, StreamStates
  <2>3. CommandsSound'
    <3>1. \A i \in 1 .. Len(commands) :
             stream[commands[i].stream] = "adding" => stream'[commands[i].stream] = "adding"
      BY <1>1, <1>2, <2>1 DEF EventsTyped
    <3>2. \A i \in 1 .. Len(commands) : stream[commands[i].stream] \in {"leaving", "closed"} =>
             stream'[commands[i].stream] \in {"leaving", "closed"}
      BY <1>1, <1>2, <2>1 DEF EventsTyped
    <3>3. \A u \in Streams : stream'[u] \in {"adding", "open"} => u \in listeners'
      BY <1>1, <2>1 DEF CommandsSound, EventsTyped
    <3> QED
      BY <2>1, <3>1, <3>2, <3>3 DEF CommandsSound
  <2>4. SubscriptionSound' /\ CallbackSingle'
    BY <1>1, <1>4, <2>1 DEF SubscriptionSound, CallbackSingle, Pending
  <2>5. OpenStreams' \subseteq OpenStreams
    BY <1>1, <2>1 DEF OpenStreams, Open, EventsTyped
  <2>6. DeafOnlyAfterFailure' /\ ViewFollows'
    BY <1>1, <2>1, <2>5 DEF DeafOnlyAfterFailure, ViewFollows
  <2> QED
    BY <2>2, <2>3, <2>4, <2>6
<1> QED
  BY <1>3, <1>4

(* The writes and messages: a stream that does not know of a commit is     *)
(* either going to hear of it or among those that need not know.           *)
LEMMA DataInv ==
    ASSUME EventsInv,
           \/ \E w \in Writers :
                 \/ \E operation \in Operations : WriteInTransaction(w, operation) \/ Write(w, operation)
                 \/ Commit(w) \/ RollBack(w)
           \/ Deliver \/ LoseMessage
    PROVE  EventsInv'
<1> USE DEF EventsInv
<1>1. UNCHANGED streamVars
  BY DEF WriteInTransaction, Write, Commit, RollBack, Deliver, LoseMessage
<1>2. UNCHANGED <<stream, ended, listeners, subscribed, commands, callbacks, orphans, leaked>>
  BY <1>1 DEF streamVars
<1>3. CommandsSound' /\ SubscriptionSound' /\ CallbackSingle' /\ DeafOnlyAfterFailure'
  BY <1>2 DEF CommandsSound, SubscriptionSound, CallbackSingle, DeafOnlyAfterFailure, Pending, OpenStreams, Open
<1>4. OpenStreams' = OpenStreams /\ OpenStreams \subseteq Streams /\ OpenStreams \subseteq listeners
  BY <1>2 DEF OpenStreams, Open, CommandsSound
<1>5. committed \in Nat /\ view \in [Streams -> Nat] /\ wire \in Seq(Writers)
  BY DEF EventsTyped
<1>6. \A u \in OpenStreams \ unheard : view[u] = committed \/ wire # <<>>
  BY DEF ViewFollows
<1>7. ASSUME NEW w \in Writers, NEW operation \in Operations,
             WriteInTransaction(w, operation) \/ Write(w, operation)
      PROVE  EventsTyped' /\ ViewFollows'
  <2>1. CASE operation \in Published
    <3>1. wire' = Append(wire, w)
      BY <1>7, <2>1 DEF WriteInTransaction, Write, Publish
    <3>2. wire' \in Seq(Writers) /\ wire' # <<>>
      BY <1>5, <3>1
    <3>3. view' = view /\ committed' \in Nat
      BY <1>5, <1>7 DEF WriteInTransaction, Write
    <3> QED
      BY <1>2, <3>2, <3>3 DEF EventsTyped, ViewFollows
  <2>2. CASE operation \notin Published
    <3>1. operation = "upsert"
      BY <2>2 DEF Operations, Published
    <3>2. wire' = wire /\ view' = view /\ committed' \in Nat
      BY <1>5, <1>7, <2>2 DEF WriteInTransaction, Write
    <3>3. \/ committed' = committed /\ unheard' = unheard
          \/ unheard' = unheard \cup OpenStreams
      BY <1>7, <3>1 DEF WriteInTransaction, Write
    <3> QED
      BY <1>2, <1>4, <1>6, <3>2, <3>3 DEF EventsTyped, ViewFollows
  <2> QED
    BY <2>1, <2>2
<1>8. ASSUME NEW w \in Writers, Commit(w) \/ RollBack(w)
      PROVE  EventsTyped' /\ ViewFollows'
  <2>1. wire' = wire /\ view' = view /\ committed' \in Nat
    BY <1>5, <1>8 DEF Commit, RollBack
  <2>2. \/ wire # <<>>
        \/ committed' = committed /\ unheard' = unheard
        \/ unheard' = unheard \cup OpenStreams
    BY <1>5, <1>8 DEF Commit, RollBack
  <2> QED
    BY <1>2, <1>4, <1>6, <2>1, <2>2 DEF EventsTyped, ViewFollows
<1>9. ASSUME LoseMessage PROVE EventsTyped' /\ ViewFollows'
  <2>1. wire' \in Seq(Writers) /\ view' = view /\ committed' = committed /\ unheard' = unheard \cup OpenStreams
    BY <1>5, <1>9 DEF LoseMessage
  <2> QED
    BY <1>2, <1>4, <2>1 DEF EventsTyped, ViewFollows
<1>10. ASSUME Deliver PROVE EventsTyped' /\ ViewFollows'
  <2>1. /\ wire' \in Seq(Writers) /\ committed' = committed
        /\ view' = [u \in Streams |-> IF callbacks > 0 /\ u \in listeners \cap OpenStreams
                                      THEN committed ELSE view[u]]
        /\ unheard' = IF callbacks = 0 THEN unheard \cup OpenStreams ELSE unheard \ OpenStreams
    BY <1>5, <1>10 DEF Deliver
  <2>2. view' \in [Streams -> Nat]
    BY <1>5, <2>1
  <2>3. callbacks = 0 \/ callbacks > 0
    BY DEF EventsTyped
  <2>4. \A u \in OpenStreams : callbacks > 0 => view'[u] = committed
    BY <1>4, <2>1
  <2> QED
    BY <1>2, <1>4, <2>1, <2>2, <2>3, <2>4 DEF EventsTyped, ViewFollows
<1> QED
  BY <1>3, <1>7, <1>8, <1>9, <1>10

(* The subscriptions stay sound through every interleaving of streams,     *)
(* writers, answers and refusals of Redis.                                 *)
THEOREM EventsInvariant == EventsSpec => []EventsInv
<1>1. EventsInv /\ [EventSteps]_eventVars => EventsInv'
  <2> SUFFICES ASSUME EventsInv, [EventSteps]_eventVars PROVE EventsInv'
    OBVIOUS
  <2>1. CASE UNCHANGED eventVars
    BY <2>1 DEF eventVars, streamVars, dataVars, EventsInv, EventsTyped, CommandsSound, SubscriptionSound,
                CallbackSingle, DeafOnlyAfterFailure, ViewFollows, Pending, OpenStreams, Open
  <2>2. CASE \E s \in Streams : Listen(s)
    BY <2>2, ListenInv
  <2>3. CASE ConnectionError \/ \E s \in Streams : ListenUnready(s) \/ Leave(s)
    BY <2>3, EndingInv
  <2>4. CASE \E s \in Streams : Teardown(s)
    BY <2>4, TeardownInv
  <2>5. CASE Subscribed \/ SubscribeFails \/ Unsubscribed \/ UnsubscribeFails
    BY <2>5, SubscribedInv, SubscribeFailsInv, UnsubscribeAnsweredInv
  <2>6. CASE \/ \E w \in Writers :
                  \/ \E operation \in Operations : WriteInTransaction(w, operation) \/ Write(w, operation)
                  \/ Commit(w) \/ RollBack(w)
             \/ Deliver \/ LoseMessage
    BY <2>6, DataInv
  <2> QED
    BY <2>1, <2>2, <2>3, <2>4, <2>5, <2>6 DEF EventSteps
<1> QED
  BY EventsInvInit, <1>1, PTL DEF EventsSpec

(* A stream that is open is subscribed or about to be, hears a message     *)
(* once, and shows the data once nothing is under way, except after the    *)
(* failures that StreamsHear names: for any number of streams and writers. *)
THEOREM StreamsStayHeard == EventsSpec => []StreamsHear
<1>1. EventsInv => StreamsHear
  <2> SUFFICES ASSUME EventsInv PROVE StreamsHear
    OBVIOUS
  <2>1. HeardOnce
    BY DEF EventsInv, HeardOnce, CallbackSingle, EventsTyped
  <2>2. ViewFresh
    BY DEF EventsInv, ViewFresh, ViewFollows
  <2> QED
    BY <2>1, <2>2 DEF EventsInv, StreamsHear
<1> QED
  BY <1>1, EventsInvariant, PTL
-----------------------------------------------------------------------------
(* Signatures *)

SignTyped ==
    /\ keyRow \in SigningKeys \cup {NoKey}
    /\ keyCache \in [Instances -> SigningKeys \cup {NoKey}]
    /\ signatures \subseteq [secret : Instances, time : Nat, until : Nat]
    /\ hour \in Nat

(* An instance has cached the key that is in the database, before or after *)
(* it was ended.                                                           *)
CachedKeySound ==
    \A i \in Instances : keyCache[i] # NoKey =>
        /\ keyRow # NoKey
        /\ keyCache[i].secret = keyRow.secret
        /\ keyCache[i].expired \in {NoKey, keyRow.expired}

(* There has been one key, and all signatures were made with it. *)
OneKey == \A s \in signatures : keyRow # NoKey /\ s.secret = keyRow.secret

SignInv == SignTyped /\ CachedKeySound /\ OneKey

(* Signing adds one signature, with the key's secret. *)
LEMMA SignInvSign ==
    ASSUME SignInv, NEW i \in Instances, NEW until \in Nat, keyCache[i] # NoKey, Sign(keyCache[i], until),
           UNCHANGED <<keyRow, keyCache, hour>>
    PROVE  SignInv'
<1> DEFINE new == [secret |-> keyCache[i].secret, time |-> hour, until |-> until]
<1>1. signatures' = signatures \cup {new}
  BY DEF Sign
<1>2. keyCache[i] \in SigningKeys /\ keyRow # NoKey /\ keyCache[i].secret = keyRow.secret
  BY DEF SignInv, SignTyped, CachedKeySound
<1>3. new \in [secret : Instances, time : Nat, until : Nat] /\ new.secret = keyRow.secret
  BY <1>2 DEF SignInv, SignTyped, SigningKeys
<1> HIDE DEF new
<1>4. SignTyped' /\ CachedKeySound'
  BY <1>1, <1>3 DEF SignInv, SignTyped, CachedKeySound
<1>5. OneKey'
  BY <1>1, <1>2, <1>3 DEF SignInv, OneKey
<1> QED
  BY <1>4, <1>5 DEF SignInv

(* Instances that race to create the key end up with the one that was      *)
(* written first.                                                          *)
LEMMA SignInvStep ==
    ASSUME SignInv, SignSteps
    PROVE  SignInv'
<1> USE SigningAssumption
<1>1. ASSUME NEW i \in Instances, LoadKey(i) PROVE SignInv'
  BY <1>1 DEF LoadKey, SignInv, SignTyped, CachedKeySound, OneKey
<1>2. ASSUME NEW i \in Instances, CreateKey(i) PROVE SignInv'
  <2>1. CASE keyRow # NoKey
    BY <1>2, <2>1 DEF CreateKey, SignInv, SignTyped, CachedKeySound, OneKey
  <2>2. CASE keyRow = NoKey
    <3> DEFINE key == [secret |-> i, expired |-> NoKey]
    <3>1. keyRow' = key /\ keyCache' = [keyCache EXCEPT ![i] = key] /\ UNCHANGED <<signatures, hour>>
      BY <1>2, <2>2 DEF CreateKey
    <3>2. key \in SigningKeys
      BY DEF SigningKeys
    <3> HIDE DEF key
    <3>3. \A j \in Instances : keyCache[j] = NoKey
      BY <2>2 DEF SignInv, CachedKeySound
    <3>4. signatures = {}
      BY <2>2 DEF SignInv, OneKey
    <3> QED
      BY <3>1, <3>2, <3>3, <3>4 DEF SignInv, SignTyped, CachedKeySound, OneKey
  <2> QED
    BY <2>1, <2>2
<1>3. ASSUME NEW i \in Instances, GenerateSignedUrl(i) PROVE SignInv'
  BY <1>3, SignInvSign DEF GenerateSignedUrl
<1>4. ASSUME NEW i \in Instances, NEW s \in signatures, ValidateTagSignature(i, s) PROVE SignInv'
  <2>1. hour + 1 \in Nat
    BY DEF SignInv, SignTyped
  <2> QED
    BY <1>4, <2>1, SignInvSign DEF ValidateTagSignature
<1>5. ASSUME NEW i \in Instances, Restart(i) PROVE SignInv'
  BY <1>5 DEF Restart, SignInv, SignTyped, CachedKeySound, OneKey
<1>6. ASSUME Tick PROVE SignInv'
  BY <1>6 DEF Tick, SignInv, SignTyped, CachedKeySound, OneKey
<1>7. ASSUME ExpireKey PROVE SignInv'
  <2>1. /\ keyRow \in SigningKeys /\ keyRow.expired = NoKey /\ keyRow' = [keyRow EXCEPT !.expired = hour]
        /\ UNCHANGED <<keyCache, signatures, hour>>
    BY <1>7 DEF ExpireKey, SignInv, SignTyped
  <2>2. keyRow' \in SigningKeys /\ keyRow'.secret = keyRow.secret
    BY <2>1 DEF SigningKeys, SignInv, SignTyped
  <2>3. \A i \in Instances : keyCache[i] # NoKey => keyCache[i].expired = NoKey
    BY <2>1 DEF SignInv, CachedKeySound
  <2> QED
    BY <2>1, <2>2, <2>3 DEF SignInv, SignTyped, CachedKeySound, OneKey
<1> QED
  BY <1>1, <1>2, <1>3, <1>4, <1>5, <1>6, <1>7 DEF SignSteps

(* What one instance signed every other accepts, since there is one key. *)
LEMMA SignaturesAgree == SignInv => SignaturesVerify
<1> SUFFICES ASSUME SignInv, NEW s \in signatures, NEW i \in Instances,
                    keyCache[i] # NoKey, hour <= s.until,
                    ~(keyRow.expired # NoKey /\ keyRow.expired < s.time)
             PROVE  Verifies(keyCache[i], s)
  BY DEF SignaturesVerify
<1>1. /\ keyRow \in SigningKeys /\ keyCache[i].secret = keyRow.secret /\ s.secret = keyRow.secret
      /\ keyCache[i].expired \in {NoKey, keyRow.expired}
  BY DEF SignInv, SignTyped, CachedKeySound, OneKey
<1>2. keyRow.expired \in Nat \cup {NoKey} /\ s.time \in Nat
  BY <1>1 DEF SigningKeys, SignInv, SignTyped
<1> QED
  BY <1>1, <1>2 DEF Verifies, Usable
-----------------------------------------------------------------------------
(* Tags *)

TagCalls == [step : {"create", "claim", "update"}, grant : Callers, tag : TagIds, asset : AssetIds,
             site : AskedSites, row : Nat \cup {None}, read : TagRows \cup {None}]

TagsTyped ==
    /\ tag \in [TagIds -> TagRows \cup {None}]
    /\ tagOf \in [AssetIds -> TagIds \cup {None}]
    /\ rows \in Nat
    /\ call \in [Calls -> TagCalls \cup {Idle}]

(* No asset holds on to a tag that was removed. *)
NoneHeldGone == \A t \in TagIds : tag[t] = None => Holders(t) = {}

(* A claim is made of a row that was read without a client or a site. *)
ClaimsRead == \A c \in Calls : call[c].step = "claim" => call[c].read \in TagRows /\ NeedsClaim(call[c].read)

TagsInv == TagsTyped /\ NoneHeldGone /\ ClaimsRead

(* A row with another client or site is a row. *)
LEMMA RowWith ==
    ASSUME NEW r \in TagRows, NEW c \in Clients \cup {None}, NEW s \in Sites \cup {None}
    PROVE  /\ [r EXCEPT !.site = s] \in TagRows /\ [r EXCEPT !.site = s].client = r.client
           /\ [r EXCEPT !.client = c, !.site = s] \in TagRows
           /\ [row |-> r.row, client |-> c, site |-> s] \in TagRows
BY DEF TagRows

(* Those that ask have a client and a site. *)
LEMMA CallersTyped ==
    /\ \A g \in Callers : g \in Grants /\ g.client \in Clients /\ g.site \in Sites
    /\ \A s \in Sites : SiteClient[s] \in Clients /\ SiteClient[s] # None
    /\ \A a \in AssetIds : SiteOfAsset[a] \in Sites
BY TagsAssumption DEF Clients

(* A tag that is connected is on its asset alone, and on no other moves. *)
LEMMA ConnectMoves ==
    ASSUME TagsTyped, NEW a \in AssetIds, NEW t \in TagIds, Connect(a, t)
    PROVE  /\ tagOf' \in [AssetIds -> TagIds \cup {None}]
           /\ Holders(t)' = {a}
           /\ \A u \in TagIds : u # t => Holders(u)' \subseteq Holders(u)
<1>1. tagOf' = [b \in AssetIds |-> IF b = a THEN t ELSE IF tagOf[b] = t THEN None ELSE tagOf[b]]
  BY DEF Connect
<1>2. tagOf' \in [AssetIds -> TagIds \cup {None}]
  BY <1>1 DEF TagsTyped
<1>3. \A u \in TagIds : u # t => Holders(u)' \subseteq Holders(u)
  BY <1>1, TagsAssumption DEF Holders
<1>4. Holders(t)' = {a}
  BY <1>1, TagsAssumption DEF Holders
<1> QED
  BY <1>2, <1>3, <1>4

(* A step that writes one tag keeps the others as they are. *)
LEMMA OthersKept ==
    ASSUME NoneHeldGone, NEW t \in TagIds, tag'[t] = None => Holders(t)' = {},
           \A u \in TagIds : u # t => Holders(u)' \subseteq Holders(u) /\ tag'[u] = tag[u]
    PROVE  NoneHeldGone' /\ \A u \in TagIds : u # t /\ Agrees(u) => Agrees(u)'
<1>1. NoneHeldGone'
  BY DEF NoneHeldGone
<1>2. \A u \in TagIds : u # t /\ Agrees(u) => Agrees(u)'
  BY DEF Agrees
<1> QED
  BY <1>1, <1>2

(* A registration that ends leaves the others in flight. *)
LEMMA CallsKept ==
    ASSUME TagsInv, UNCHANGED call \/ \E c \in Calls : Finish(c)
    PROVE  call' \in [Calls -> TagCalls \cup {Idle}] /\ ClaimsRead'
<1>1. Idle.step # "claim"
  BY DEF Idle
<1>2. CASE UNCHANGED call
  BY <1>2 DEF TagsInv, TagsTyped, ClaimsRead
<1>3. ASSUME NEW c \in Calls, Finish(c) PROVE call' \in [Calls -> TagCalls \cup {Idle}] /\ ClaimsRead'
  BY <1>1, <1>3 DEF Finish, TagsInv, TagsTyped, ClaimsRead
<1> QED
  BY <1>2, <1>3

(* A registration that is not idle has what it was asked for. *)
LEMMA CallTyped ==
    ASSUME TagsInv, NEW c \in Calls, call[c].step # "idle"
    PROVE  /\ call[c] \in TagCalls /\ call[c].tag \in TagIds /\ call[c].asset \in AssetIds
           /\ call[c].grant \in Callers /\ call[c].site \in Sites \cup {None}
           /\ call[c].grant.client \in Clients /\ call[c].grant.site \in Sites
<1>1. call[c] \in TagCalls
  BY DEF TagsInv, TagsTyped, Idle
<1>2. call[c].tag \in TagIds /\ call[c].asset \in AssetIds /\ call[c].grant \in Callers /\ call[c].site \in AskedSites
  BY <1>1 DEF TagCalls
<1> QED
  BY <1>1, <1>2, CallersTyped, TagsAssumption

(* The start of a registration reads. *)
LEMMA RegisterStep ==
    ASSUME TagsInv, NEW c \in Calls, NEW g \in Callers, NEW t \in TagIds, NEW a \in AssetIds,
           NEW s \in AskedSites, Register(c, g, t, a, s)
    PROVE  TagsInv' /\ \A u \in TagIds : Agrees(u) => Agrees(u)'
<1> DEFINE step == IF tag[t] = None THEN "create" ELSE IF NeedsClaim(tag[t]) THEN "claim" ELSE "update"
           row == IF tag[t] = None THEN None ELSE tag[t].row
           read == IF tag[t] # None /\ NeedsClaim(tag[t]) THEN tag[t] ELSE None
           new == [step |-> step, grant |-> g, tag |-> t, asset |-> a, site |-> s, row |-> row, read |-> read]
<1>1. call' = [call EXCEPT ![c] = new] /\ UNCHANGED <<tag, tagOf, rows>>
  BY DEF Register
<1>2. tag[t] \in TagRows \cup {None}
  BY DEF TagsInv, TagsTyped
<1>3. row \in Nat \cup {None} /\ read \in TagRows \cup {None} /\ step \in {"create", "claim", "update"}
  BY <1>2 DEF TagRows
<1>4. step = "claim" => read \in TagRows /\ NeedsClaim(read)
  BY <1>2
<1> HIDE DEF step, row, read
<1>5. new \in TagCalls /\ new.step = step /\ new.read = read
  BY <1>3 DEF TagCalls
<1> HIDE DEF new
<1>6. TagsTyped' /\ ClaimsRead'
  BY <1>1, <1>4, <1>5 DEF TagsInv, TagsTyped, ClaimsRead
<1>7. NoneHeldGone' /\ \A u \in TagIds : Agrees(u) => Agrees(u)'
  BY <1>1 DEF TagsInv, NoneHeldGone, Agrees, Holders
<1> QED
  BY <1>6, <1>7 DEF TagsInv

(* A claim parts the tag from its asset only where the row was not the one *)
(* that was read, or had no site.                                          *)
LEMMA ClaimStep ==
    ASSUME TagsInv, NEW c \in Calls, Claim(c)
    PROVE  /\ TagsInv'
           /\ \A u \in TagIds : Agrees(u) /\ ~Agrees(u)' =>
                 u = call[c].tag /\ (call[c].read # tag[u] \/ tag[u].site = None)
<1>1. call[c].step = "claim" /\ UNCHANGED <<tagOf, rows>>
  BY DEF Claim
<1>2. /\ call[c] \in TagCalls /\ call[c].tag \in TagIds
      /\ call[c].grant.client \in Clients /\ call[c].grant.site \in Sites
  BY <1>1, CallTyped
<1> PICK t \in TagIds : t = call[c].tag
  BY <1>2
<1>3. CASE SeenRow(c)
  <2>1. /\ tag' = [tag EXCEPT ![t].client = call[c].grant.client, ![t].site = call[c].grant.site]
        /\ call' = [call EXCEPT ![c].step = "update", ![c].read = None]
        /\ tag[t] # None
    BY <1>3 DEF Claim, SeenRow
  <2>2. tag[t] \in TagRows
    BY <1>2, <2>1 DEF TagsInv, TagsTyped
  <2>3. tag' = [tag EXCEPT ![t] = [tag[t] EXCEPT !.client = call[c].grant.client, !.site = call[c].grant.site]]
    BY <1>2, <2>1 DEF TagsInv, TagsTyped
  <2>4. tag' \in [TagIds -> TagRows \cup {None}] /\ tag'[t] \in TagRows
        /\ \A u \in TagIds : u # t => tag'[u] = tag[u]
    BY <1>2, <2>2, <2>3, RowWith DEF TagsInv, TagsTyped
  <2>5. call' = [call EXCEPT ![c] = [call[c] EXCEPT !.step = "update", !.read = None]]
    BY <2>1 DEF TagsInv, TagsTyped
  <2>6. [call[c] EXCEPT !.step = "update", !.read = None] \in TagCalls
        /\ [call[c] EXCEPT !.step = "update", !.read = None].step = "update"
    BY <1>2 DEF TagCalls
  <2>7. call' \in [Calls -> TagCalls \cup {Idle}] /\ ClaimsRead'
    BY <2>5, <2>6 DEF TagsInv, TagsTyped, ClaimsRead
  <2>8. \A u \in TagIds : Holders(u)' = Holders(u)
    BY <1>1 DEF Holders
  <2>9. tag'[t] # None
    BY <2>4, TagsAssumption
  <2>10. NoneHeldGone' /\ \A u \in TagIds : u # t /\ Agrees(u) => Agrees(u)'
    BY <1>2, <2>4, <2>8, <2>9, OthersKept DEF TagsInv
  <2>11. TagsInv'
    BY <1>1, <2>4, <2>7, <2>10 DEF TagsInv, TagsTyped
  <2>12. ASSUME Agrees(t), call[c].read = tag[t], tag[t].site # None PROVE Agrees(t)'
    <3>1. tag[t].client = None
      BY <1>1, <2>12 DEF TagsInv, ClaimsRead, NeedsClaim
    <3>2. Holders(t) = {}
      BY <2>1, <2>12, <3>1, CallersTyped DEF Agrees, Holders
    <3> QED
      BY <1>2, <2>8, <3>2 DEF Agrees
  <2> QED
    BY <2>10, <2>11, <2>12
<1>4. CASE ~SeenRow(c)
  <2>1. Finish(c) /\ UNCHANGED tag
    BY <1>4 DEF Claim
  <2>2. call' \in [Calls -> TagCalls \cup {Idle}] /\ ClaimsRead'
    BY <2>1, CallsKept
  <2>3. NoneHeldGone' /\ \A u \in TagIds : Agrees(u) => Agrees(u)'
    BY <1>1, <2>1 DEF TagsInv, NoneHeldGone, Agrees, Holders
  <2> QED
    BY <1>1, <2>1, <2>2, <2>3 DEF TagsInv, TagsTyped
<1> QED
  BY <1>3, <1>4

(* A tag that is written and put on an asset of its client agrees with it. *)
LEMMA ConnectAgrees ==
    ASSUME TagsInv, NEW a \in AssetIds, NEW t \in TagIds, Connect(a, t), NEW row \in TagRows,
           tag' = [tag EXCEPT ![t] = row], UNCHANGED call \/ \E c \in Calls : Finish(c), rows' \in Nat
    PROVE  /\ TagsInv'
           /\ \A u \in TagIds : u # t /\ Agrees(u) => Agrees(u)'
           /\ SiteClient[SiteOfAsset[a]] = row.client => Agrees(t)'
<1>1. /\ tagOf' \in [AssetIds -> TagIds \cup {None}] /\ Holders(t)' = {a}
      /\ \A u \in TagIds : u # t => Holders(u)' \subseteq Holders(u)
  BY ConnectMoves DEF TagsInv
<1>2. /\ tag' \in [TagIds -> TagRows \cup {None}] /\ tag'[t] = row /\ row # None
      /\ \A u \in TagIds : u # t => tag'[u] = tag[u]
  BY TagsAssumption DEF TagsInv, TagsTyped
<1>3. call' \in [Calls -> TagCalls \cup {Idle}] /\ ClaimsRead'
  BY CallsKept
<1>4. NoneHeldGone' /\ \A u \in TagIds : u # t /\ Agrees(u) => Agrees(u)'
  BY <1>1, <1>2, OthersKept DEF TagsInv
<1>5. TagsInv'
  BY <1>1, <1>2, <1>3, <1>4 DEF TagsInv, TagsTyped
<1>6. SiteClient[SiteOfAsset[a]] = row.client => Agrees(t)'
  BY <1>1, <1>2 DEF Agrees
<1> QED
  BY <1>4, <1>5, <1>6

(* The update of a registration is within one client, that of the grant. *)
LEMMA UpdateRegisteredStep ==
    ASSUME TagsInv, NEW c \in Calls, UpdateRegistered(c)
    PROVE  TagsInv' /\ \A u \in TagIds : Agrees(u) => Agrees(u)'
<1>1. call[c].step = "update" /\ Finish(c) /\ rows' = rows /\ rows' \in Nat
  BY DEF UpdateRegistered, TagsInv, TagsTyped
<1>2. /\ call[c].tag \in TagIds /\ call[c].asset \in AssetIds /\ call[c].site \in Sites \cup {None}
  BY <1>1, CallTyped
<1> PICK t \in TagIds, a \in AssetIds : t = call[c].tag /\ a = call[c].asset
  BY <1>2
<1>3. CASE CanUpdate(c)
  <2>1. tag' = [tag EXCEPT ![t].site = NewSite(c)] /\ Connect(a, t)
    BY <1>3 DEF UpdateRegistered
  <2>2. /\ tag[t] \in TagRows /\ tag[t].client = call[c].grant.client
        /\ SiteClient[SiteOfAsset[a]] = call[c].grant.client
    BY <1>3 DEF CanUpdate, SeenRow, TagVisible, Visible, Connectable, AssetVisible, TagsInv, TagsTyped
  <2>3. NewSite(c) \in Sites \cup {None}
    BY <1>2, <2>2 DEF NewSite, TagRows
  <2> DEFINE row == [tag[t] EXCEPT !.site = NewSite(c)]
  <2>4. tag' = [tag EXCEPT ![t] = row]
    BY <2>1 DEF TagsInv, TagsTyped
  <2>5. row \in TagRows /\ row.client = tag[t].client
    BY <2>2, <2>3 DEF TagRows
  <2>6. PICK r \in TagRows : r.client = SiteClient[SiteOfAsset[a]] /\ tag' = [tag EXCEPT ![t] = r]
    BY <2>2, <2>4, <2>5
  <2>7. TagsInv' /\ (\A u \in TagIds : u # t /\ Agrees(u) => Agrees(u)') /\ Agrees(t)'
    BY <1>1, <2>1, <2>6, ConnectAgrees
  <2> QED
    BY <2>7
<1>4. CASE ~CanUpdate(c)
  <2>1. UNCHANGED <<tag, tagOf>>
    BY <1>4 DEF UpdateRegistered
  <2>2. NoneHeldGone' /\ \A u \in TagIds : Agrees(u) => Agrees(u)'
    BY <2>1 DEF TagsInv, NoneHeldGone, Agrees, Holders
  <2> QED
    BY <1>1, <2>1, <2>2, CallsKept DEF TagsInv, TagsTyped
<1> QED
  BY <1>3, <1>4

(* So is a tag that a registration creates. *)
LEMMA CreateRegisteredStep ==
    ASSUME TagsInv, NEW c \in Calls, CreateRegistered(c)
    PROVE  TagsInv' /\ \A u \in TagIds : Agrees(u) => Agrees(u)'
<1>1. call[c].step = "create" /\ Finish(c) /\ rows' \in Nat /\ rows \in Nat
  BY DEF CreateRegistered, TagsInv, TagsTyped
<1>2. /\ call[c].tag \in TagIds /\ call[c].asset \in AssetIds /\ call[c].site \in Sites \cup {None}
      /\ call[c].grant.client \in Clients /\ call[c].grant.site \in Sites
  BY <1>1, CallTyped
<1> PICK t \in TagIds, a \in AssetIds : t = call[c].tag /\ a = call[c].asset
  BY <1>2
<1>3. CASE CanCreate(c)
  <2> DEFINE row == [row |-> rows, client |-> call[c].grant.client, site |-> CreateSite(c)]
  <2>1. tag' = [tag EXCEPT ![t] = row] /\ Connect(a, t)
    BY <1>3 DEF CreateRegistered
  <2>2. SiteClient[SiteOfAsset[a]] = call[c].grant.client
    BY <1>3 DEF CanCreate, Connectable, AssetVisible, Visible
  <2>3. CreateSite(c) \in Sites \cup {None}
    BY <1>2 DEF CreateSite
  <2>4. row \in TagRows /\ row.client = call[c].grant.client
    BY <1>1, <1>2, <2>3 DEF TagRows
  <2> HIDE DEF row
  <2> QED
    BY <1>1, <2>1, <2>2, <2>4, ConnectAgrees
<1>4. CASE ~CanCreate(c)
  <2>1. UNCHANGED <<tag, tagOf>>
    BY <1>4 DEF CreateRegistered
  <2>2. NoneHeldGone' /\ \A u \in TagIds : Agrees(u) => Agrees(u)'
    BY <2>1 DEF TagsInv, NoneHeldGone, Agrees, Holders
  <2> QED
    BY <1>1, <2>1, <2>2, CallsKept DEF TagsInv, TagsTyped
<1> QED
  BY <1>3, <1>4

(* A system administrator may part a tag from its asset, the one named. *)
LEMMA SystemRegisterStep ==
    ASSUME TagsInv, NEW t \in TagIds, NEW a \in AssetIds, NEW s \in Sites \cup {None}, NEW client \in Clients,
           SystemRegister(t, a, client, s)
    PROVE  TagsInv' /\ \A u \in TagIds : u # t /\ Agrees(u) => Agrees(u)'
<1> DEFINE row == [row |-> IF tag[t] = None THEN rows ELSE tag[t].row,
                   client |-> client,
                   site |-> IF tag[t] # None /\ s = None THEN tag[t].site ELSE s]
<1>1. Connect(a, t) /\ UNCHANGED call /\ rows' \in Nat /\ rows \in Nat /\ tag[t] \in TagRows \cup {None}
  BY DEF SystemRegister, TagsInv, TagsTyped
<1>2. tag' = [tag EXCEPT ![t] = row]
  BY DEF SystemRegister
<1>3. row \in TagRows
  BY <1>1 DEF TagRows
<1> HIDE DEF row
<1> QED
  BY <1>1, <1>2, <1>3, ConnectAgrees

(* The other operations write one tag within its client, or take it away. *)
LEMMA TagEdits ==
    ASSUME TagsInv,
           \/ \E t \in TagIds : CreateTag(t)
           \/ \E g \in Callers, t \in TagIds : \/ \E s \in Sites \cup {None} : UpdateTag(g, t, s)
                                            \/ RemoveTag(g, t)
                                            \/ \E a \in AssetIds : AddTag(g, a, t)
    PROVE  TagsInv' /\ \A u \in TagIds : Agrees(u) => Agrees(u)'
<1>1. ASSUME NEW t \in TagIds, CreateTag(t) PROVE TagsInv' /\ \A u \in TagIds : Agrees(u) => Agrees(u)'
  <2> DEFINE row == [row |-> rows, client |-> None, site |-> None]
  <2>1. tag[t] = None /\ tag' = [tag EXCEPT ![t] = row] /\ UNCHANGED <<tagOf, call>> /\ rows' \in Nat
    BY <1>1 DEF CreateTag, TagsInv, TagsTyped
  <2>2. row \in TagRows
    BY DEF TagRows, TagsInv, TagsTyped
  <2> HIDE DEF row
  <2>3. Holders(t)' = {} /\ \A u \in TagIds : Holders(u)' = Holders(u)
    BY <2>1 DEF TagsInv, NoneHeldGone, Holders
  <2>4. tag' \in [TagIds -> TagRows \cup {None}] /\ \A u \in TagIds : u # t => tag'[u] = tag[u]
    BY <2>1, <2>2 DEF TagsInv, TagsTyped
  <2>5. NoneHeldGone' /\ \A u \in TagIds : u # t /\ Agrees(u) => Agrees(u)'
    BY <2>3, <2>4, OthersKept DEF TagsInv
  <2>6. Agrees(t)'
    BY <2>3 DEF Agrees
  <2>7. TagsInv'
    BY <2>1, <2>4, <2>5, CallsKept DEF TagsInv, TagsTyped
  <2> QED
    BY <2>5, <2>6, <2>7
<1>2. ASSUME NEW g \in Callers, NEW t \in TagIds, NEW s \in Sites \cup {None}, UpdateTag(g, t, s)
      PROVE  TagsInv' /\ \A u \in TagIds : Agrees(u) => Agrees(u)'
  <2>1. tag[t] \in TagRows /\ tag' = [tag EXCEPT ![t].site = s] /\ UNCHANGED <<tagOf, rows, call>>
    BY <1>2 DEF UpdateTag, TagVisible, TagsInv, TagsTyped
  <2>2. [tag[t] EXCEPT !.site = s] \in TagRows /\ [tag[t] EXCEPT !.site = s].client = tag[t].client
    BY <2>1 DEF TagRows
  <2>3. /\ tag' \in [TagIds -> TagRows \cup {None}] /\ tag'[t].client = tag[t].client /\ tag'[t] \in TagRows
        /\ \A u \in TagIds : u # t => tag'[u] = tag[u]
    BY <2>1, <2>2 DEF TagsInv, TagsTyped
  <2>4. \A u \in TagIds : Holders(u)' = Holders(u)
    BY <2>1 DEF Holders
  <2>5. NoneHeldGone' /\ \A u \in TagIds : u # t /\ Agrees(u) => Agrees(u)'
    BY <2>3, <2>4, TagsAssumption, OthersKept DEF TagsInv
  <2>6. Agrees(t) => Agrees(t)'
    BY <2>1, <2>3, <2>4, TagsAssumption DEF Agrees
  <2>7. TagsInv'
    BY <2>1, <2>3, <2>5, CallsKept DEF TagsInv, TagsTyped
  <2> QED
    BY <2>5, <2>6, <2>7
<1>3. ASSUME NEW g \in Callers, NEW t \in TagIds, RemoveTag(g, t)
      PROVE  TagsInv' /\ \A u \in TagIds : Agrees(u) => Agrees(u)'
  <2>1. /\ tag' = [tag EXCEPT ![t] = None] /\ UNCHANGED <<rows, call>>
        /\ tagOf' = [a \in AssetIds |-> IF tagOf[a] = t THEN None ELSE tagOf[a]]
    BY <1>3 DEF RemoveTag
  <2>2. /\ tag' \in [TagIds -> TagRows \cup {None}] /\ tag'[t] = None
        /\ \A u \in TagIds : u # t => tag'[u] = tag[u]
    BY <2>1 DEF TagsInv, TagsTyped
  <2>3. Holders(t)' = {} /\ \A u \in TagIds : Holders(u)' \subseteq Holders(u)
    BY <2>1, TagsAssumption DEF Holders
  <2>4. NoneHeldGone' /\ \A u \in TagIds : u # t /\ Agrees(u) => Agrees(u)'
    BY <2>2, <2>3, OthersKept DEF TagsInv
  <2>5. Agrees(t)'
    BY <2>2 DEF Agrees
  <2>6. tagOf' \in [AssetIds -> TagIds \cup {None}]
    BY <2>1 DEF TagsInv, TagsTyped
  <2>7. TagsInv'
    BY <2>1, <2>2, <2>4, <2>6, CallsKept DEF TagsInv, TagsTyped
  <2> QED
    BY <2>4, <2>5, <2>7
<1>4. ASSUME NEW g \in Callers, NEW t \in TagIds, NEW a \in AssetIds, AddTag(g, a, t)
      PROVE  TagsInv' /\ \A u \in TagIds : Agrees(u) => Agrees(u)'
  <2>1. /\ tag[t] \in TagRows /\ tag[t].client = g.client /\ SiteClient[SiteOfAsset[a]] = g.client
        /\ Connect(a, t) /\ UNCHANGED <<tag, rows, call>>
    BY <1>4 DEF AddTag, TagVisible, Connectable, AssetVisible, Visible, TagsInv, TagsTyped
  <2>2. tag' = [tag EXCEPT ![t] = tag[t]] /\ rows' \in Nat
    BY <2>1 DEF TagsInv, TagsTyped
  <2>3. SiteClient[SiteOfAsset[a]] = tag[t].client
    BY <2>1
  <2>4. TagsInv' /\ (\A u \in TagIds : u # t /\ Agrees(u) => Agrees(u)') /\ Agrees(t)'
    BY <2>1, <2>2, <2>3, ConnectAgrees
  <2> QED
    BY <2>4
<1> QED
  BY <1>1, <1>2, <1>3, <1>4

(* Tags and the registrations in flight stay sound. *)
LEMMA TagsInvInit == TagsInit => TagsInv
BY TagsAssumption DEF TagsInit, TagsInv, TagsTyped, NoneHeldGone, ClaimsRead, Holders, Idle

(* Every step keeps the tags sound, and parts a tag from its asset only in *)
(* the two ways that the property names.                                   *)
LEMMA TagsStep ==
    ASSUME TagsInv, TagSteps
    PROVE  /\ TagsInv'
           /\ \A t \in TagIds : Agrees(t) /\ ~Agrees(t)' =>
                 \/ \E a \in AssetIds, client \in Clients, s \in Sites \cup {None} : SystemRegister(t, a, client, s)
                 \/ \E c \in Calls : /\ call[c].step = "claim" /\ call[c].tag = t
                                     /\ call[c].read # tag[t] \/ tag[t].site = None
<1>1. ASSUME NEW c \in Calls,
             \/ \E g \in Callers, t \in TagIds, a \in AssetIds, s \in AskedSites : Register(c, g, t, a, s)
             \/ UpdateRegistered(c) \/ CreateRegistered(c)
      PROVE  TagsInv' /\ \A u \in TagIds : Agrees(u) => Agrees(u)'
  BY <1>1, RegisterStep, UpdateRegisteredStep, CreateRegisteredStep
<1>2. ASSUME NEW c \in Calls, Claim(c)
      PROVE  /\ TagsInv' /\ call[c].step = "claim"
             /\ \A u \in TagIds : Agrees(u) /\ ~Agrees(u)' =>
                   u = call[c].tag /\ (call[c].read # tag[u] \/ tag[u].site = None)
  BY <1>2, ClaimStep DEF Claim
<1>3. ASSUME NEW t \in TagIds, NEW a \in AssetIds, NEW s \in AskedSites,
             NEW client \in IF s = None THEN Clients ELSE {SiteClient[s]}, SystemRegister(t, a, client, s)
      PROVE  /\ s \in Sites \cup {None} /\ client \in Clients
             /\ TagsInv' /\ \A u \in TagIds : u # t /\ Agrees(u) => Agrees(u)'
  <2>1. s \in Sites \cup {None} /\ client \in Clients
    BY TagsAssumption, CallersTyped
  <2> QED
    BY <1>3, <2>1, SystemRegisterStep
<1>4. ASSUME \/ \E t \in TagIds : CreateTag(t)
             \/ \E g \in Callers, t \in TagIds : \/ \E s \in Sites \cup {None} : UpdateTag(g, t, s)
                                              \/ RemoveTag(g, t)
                                              \/ \E a \in AssetIds : AddTag(g, a, t)
      PROVE  TagsInv' /\ \A u \in TagIds : Agrees(u) => Agrees(u)'
  BY <1>4, TagEdits
<1> QED
  BY <1>1, <1>2, <1>3, <1>4 DEF TagSteps

(* A tag and the asset it is on stay with one client, except through a     *)
(* claim of a row that has changed since it was read or has no site, or a  *)
(* system administrator: for any tags, assets, grants and registrations in *)
(* flight at once.                                                         *)
THEOREM TagsStayWithAssets == TagsSpec => TagStaysWithAsset
<1>1. TagsInv /\ [TagSteps]_tagVars => TagsInv'
  <2>1. TagsInv /\ UNCHANGED tagVars => TagsInv'
    BY DEF tagVars, TagsInv, TagsTyped, NoneHeldGone, ClaimsRead, Holders
  <2> QED
    BY <2>1, TagsStep
<1>2. TagsInv /\ [TagSteps]_tagVars =>
         [\A t \in TagIds : Agrees(t) /\ ~Agrees(t)' =>
             \/ \E a \in AssetIds, client \in Clients, s \in Sites \cup {None} : SystemRegister(t, a, client, s)
             \/ \E c \in Calls : /\ call[c].step = "claim" /\ call[c].tag = t
                                 /\ call[c].read # tag[t] \/ tag[t].site = None]_tagVars
  BY TagsStep
<1>3. TagsSpec => []TagsInv
  BY <1>1, TagsInvInit, PTL DEF TagsSpec
<1> QED
  BY <1>2, <1>3, PTL DEF TagsSpec, TagStaysWithAsset
-----------------------------------------------------------------------------
(* Scans *)

(* The ranks of the scopes. *)
LEMMA ScopeRanks ==
    /\ ScopeRank("SYSTEM") = 1 /\ ScopeRank("GLOBAL") = 2 /\ ScopeRank("CLIENT") = 3
    /\ ScopeRank("SITE_GROUP") = 4 /\ ScopeRank("SITE") = 5 /\ ScopeRank("SELF") = 6
<1>1. DOMAIN SCOPE_HIERARCHY = 1 .. 6
  BY DEF SCOPE_HIERARCHY
<1>2. /\ SCOPE_HIERARCHY[1] = "SYSTEM" /\ SCOPE_HIERARCHY[2] = "GLOBAL" /\ SCOPE_HIERARCHY[3] = "CLIENT"
      /\ SCOPE_HIERARCHY[4] = "SITE_GROUP" /\ SCOPE_HIERARCHY[5] = "SITE" /\ SCOPE_HIERARCHY[6] = "SELF"
  BY DEF SCOPE_HIERARCHY
<1> DEFINE Position(scope) == CHOOSE i \in 1 .. 6 : SCOPE_HIERARCHY[i] = scope
<1>3. \A scope : ScopeRank(scope) = Position(scope)
  BY <1>1 DEF ScopeRank
<1>4. ASSUME NEW n \in 1 .. 6 PROVE \A i \in 1 .. 6 : SCOPE_HIERARCHY[i] = SCOPE_HIERARCHY[n] => i = n
  BY <1>2
<1>5. \A n \in 1 .. 6 : Position(SCOPE_HIERARCHY[n]) = n
  BY <1>4
<1> HIDE DEF Position
<1> QED
  BY <1>2, <1>3, <1>5

(* Whoever has at least the scope of a group of sites has just that or     *)
(* more than a client's.                                                   *)
LEMMA ScopesBetween ==
    ASSUME NEW g \in Grants
    PROVE  ScopeAtLeast(g.scope, "SITE_GROUP") <=> ScopeAtLeast(g.scope, "CLIENT") \/ g.scope = "SITE_GROUP"
<1>1. \E i \in 1 .. 6 : SCOPE_HIERARCHY[i] = g.scope
  BY TagsAssumption DEF SCOPE_HIERARCHY
<1>2. g.scope \in {"SYSTEM", "GLOBAL", "CLIENT", "SITE_GROUP", "SITE", "SELF"}
  BY <1>1 DEF SCOPE_HIERARCHY
<1> QED
  BY <1>2, ScopeRanks DEF ScopeAtLeast

(* A row resolves a scan exactly when row level security shows the tag. *)
LEMMA ScansAgree == ScanAgreesWithRowSecurity
<1> SUFFICES ASSUME NEW t \in TagIds, tag[t] # None, tag[t].client # None, tag[t].site # None, NEW g \in Grants
             PROVE  Resolves(g, tag[t].client, tag[t].site) <=> TagVisible(g, t)
  BY DEF ScanAgreesWithRowSecurity
<1> QED
  BY ScopesBetween DEF Resolves, TagVisible, Visible, SiteAllowed

(* The link of a tag verifies on every instance and is answered with a     *)
(* context that shows the tag, for any number of instances, restarts and   *)
(* keys that are ended, and for any grants and sites.                      *)
THEOREM ScansStayOpen == ScansSpec => []ScansOpen
<1>1. ScansInit => SignInv
  BY SigningAssumption DEF ScansInit, SignInit, SignInv, SignTyped, CachedKeySound, OneKey
<1>2. SignInv /\ [ScansNext]_<<tagVars, signVars>> => SignInv'
  <2>1. SignInv /\ UNCHANGED signVars => SignInv'
    BY DEF signVars, SignInv, SignTyped, CachedKeySound, OneKey
  <2> QED
    BY <2>1, SignInvStep DEF ScansNext
<1>3. SignInv => ScansOpen
  BY SignaturesAgree, ScansAgree DEF ScansOpen
<1> QED
  BY <1>1, <1>2, <1>3, PTL DEF ScansSpec
-----------------------------------------------------------------------------
(* Assets *)

AssetWorks ==
    [step : {"configure"}, seen : Metadata, answers : AnswerSets]
    \cup [step : {"setup"}, seen : Metadata, answers : AnswerSets, found : SUBSET Products]

AssetsInv ==
    /\ metadata \in Metadata
    /\ consumables \in [Products -> Nat]
    /\ work \in [Works -> AssetWorks \cup {NoWork}]

(* A merge gives metadata, and of other keys leaves what it started from,  *)
(* if that is what there is and only texts.                                *)
LEMMA MergeKeeps ==
    ASSUME metadata \in Metadata, NEW m \in Metadata, NEW answers, NEW new \in Merges(m, answers)
    PROVE  /\ new \in Metadata
           /\ \A k \in Keys \ WrittenKeys(answers) :
                 new[k] = metadata[k] \/ m # metadata \/ \E l \in Keys : metadata[l] \in NonTexts
<1>1. CASE Written(answers) = {}
  BY <1>1 DEF Merges
<1>2. CASE Written(answers) # {}
  <2>1. /\ new \in Metadata
        /\ \A k \in Keys \ WrittenKeys(answers) : new[k] = Existing(m)[k]
    BY <1>2 DEF Merges
  <2>2. m = metadata /\ (\A l \in Keys : metadata[l] \notin NonTexts) => Existing(m) = metadata
    BY DEF Existing
  <2> QED
    BY <2>1, <2>2
<1> QED
  BY <1>1, <1>2

(* The answers about a product can be counted. *)
LEMMA AnswersCounted ==
    ASSUME NEW answers \in AnswerSets, NEW p
    PROVE  Cardinality(For(answers, p)) \in Nat
<1>1. For(answers, p) \subseteq Questions
  BY AssetsAssumption DEF For, SetupAnswers
<1> QED
  BY <1>1, AssetsAssumption, FS_Subset, FS_CardinalityType

(* The requests in flight. *)
LEMMA WorkTyped ==
    ASSUME AssetsInv, NEW w \in Works
    PROVE  /\ NoWork.step = "idle"
           /\ work[w].step \in {"configure", "setup"} =>
                 work[w].seen \in Metadata /\ work[w].answers \in AnswerSets
           /\ work[w].step = "setup" => work[w].found \subseteq Products
BY DEF AssetsInv, AssetWorks, NoWork

(* A request that is begun or ends leaves the others as they are. *)
LEMMA AssetsBegin ==
    ASSUME AssetsInv, NEW w \in Works, NEW answers \in AnswerSets, Configure(w, answers) \/ Setup(w, answers)
    PROVE  AssetsInv' /\ \A v \in Works : ~Ends(v)
<1> DEFINE configure == [step |-> "configure", seen |-> metadata, answers |-> answers]
           setup == [step |-> "setup", seen |-> metadata, answers |-> answers,
                     found |-> {p \in Products : consumables[p] > 0}]
<1>1. configure \in AssetWorks /\ setup \in AssetWorks /\ configure.step # "idle" /\ setup.step # "idle"
  BY DEF AssetWorks, AssetsInv
<1>2. /\ UNCHANGED <<metadata, consumables>>
      /\ work' = [work EXCEPT ![w] = configure] \/ work' = [work EXCEPT ![w] = setup]
  BY DEF Configure, Setup
<1> HIDE DEF configure, setup
<1> QED
  BY <1>1, <1>2 DEF AssetsInv, Ends

(* One that ends has written its own keys and consumables. *)
LEMMA AssetsCommit ==
    ASSUME AssetsInv, NEW w \in Works, CommitConfigure(w) \/ CommitSetup(w) \/ AbortSetup(w)
    PROVE  /\ AssetsInv' /\ \A v \in Works : Ends(v) => v = w
           /\ \A k \in Keys \ WrittenKeys(work[w].answers) :
                 \/ metadata'[k] = metadata[k]
                 \/ work[w].seen # metadata
                 \/ \E l \in Keys : metadata[l] \in NonTexts
           /\ \A p \in Products :
                 work[w].step = "setup" /\ consumables'[p] > consumables[p] /\ consumables'[p] > 1 =>
                     \/ p \notin work[w].found /\ consumables[p] > 0
                     \/ Cardinality(For(work[w].answers, p)) > 1
<1>1. work' = [work EXCEPT ![w] = NoWork] /\ work[w].step \in {"configure", "setup"}
  BY DEF CommitConfigure, CommitSetup, AbortSetup
<1>2. work[w].seen \in Metadata /\ work[w].answers \in AnswerSets
  BY <1>1, WorkTyped
<1>3. work' \in [Works -> AssetWorks \cup {NoWork}] /\ \A v \in Works : Ends(v) => v = w
  BY <1>1 DEF AssetsInv, Ends
<1>4. /\ metadata' \in Metadata
      /\ \A k \in Keys \ WrittenKeys(work[w].answers) :
            metadata'[k] = metadata[k] \/ work[w].seen # metadata \/ \E l \in Keys : metadata[l] \in NonTexts
  <2>1. CASE CommitConfigure(w)
    BY <1>2, <2>1, MergeKeeps DEF CommitConfigure, AssetsInv
  <2>2. CASE CommitSetup(w)
    BY <1>2, <2>2, MergeKeeps DEF CommitSetup, AssetsInv
  <2>3. CASE AbortSetup(w)
    BY <2>3 DEF AbortSetup, AssetsInv
  <2> QED
    BY <2>1, <2>2, <2>3
<1>5. /\ consumables' \in [Products -> Nat]
      /\ \A p \in Products : consumables'[p] > consumables[p] /\ consumables'[p] > 1 =>
            \/ p \notin work[w].found /\ consumables[p] > 0
            \/ Cardinality(For(work[w].answers, p)) > 1
  <2>1. CASE CommitSetup(w)
    <3>1. consumables' = [p \in Products |-> consumables[p] + Created(w, p)]
      BY <2>1 DEF CommitSetup
    <3>2. \A p \in Products : Cardinality(For(work[w].answers, p)) \in Nat
      BY <1>2, AnswersCounted
    <3>3. \A p \in Products : /\ Created(w, p) \in Nat
                              /\ Created(w, p) > 0 => /\ p \notin work[w].found
                                                      /\ Created(w, p) = Cardinality(For(work[w].answers, p))
      BY <3>2 DEF Created
    <3> QED
      BY <3>1, <3>2, <3>3 DEF AssetsInv
  <2>2. CASE CommitConfigure(w) \/ AbortSetup(w)
    BY <2>2 DEF CommitConfigure, AbortSetup, AssetsInv
  <2> QED
    BY <2>1, <2>2
<1> QED
  BY <1>3, <1>4, <1>5 DEF AssetsInv

(* The edits of users are no requests. *)
LEMMA AssetsEdited ==
    ASSUME AssetsInv,
           \/ \E m \in Edits : Update(m)
           \/ \E p \in Products : CreateConsumable(p) \/ RemoveConsumable(p)
           \/ UNCHANGED assetVars
    PROVE  AssetsInv' /\ \A v \in Works : ~Ends(v)
<1>1. work' = work
  BY DEF Update, CreateConsumable, RemoveConsumable, assetVars
<1>2. metadata' \in Metadata
  BY AssetsAssumption DEF Update, CreateConsumable, RemoveConsumable, assetVars, AssetsInv
<1>3. consumables' \in [Products -> Nat]
  BY DEF Update, CreateConsumable, RemoveConsumable, assetVars, AssetsInv
<1> QED
  BY <1>1, <1>2, <1>3 DEF AssetsInv, Ends

(* Answers write the keys they are about, and setup no second consumable,  *)
(* up to the races that AnswersWriteTheirOwn names: for any questions,     *)
(* answers, edits and requests in flight.                                  *)
THEOREM AnswersStayTheirOwn == AssetsSpec => AnswersWriteTheirOwn
<1> DEFINE Kept == \A w \in Works : Ends(w) =>
                     \A k \in Keys \ WrittenKeys(work[w].answers) :
                         \/ metadata'[k] = metadata[k]
                         \/ work[w].seen # metadata
                         \/ \E l \in Keys : metadata[l] \in NonTexts
           Explained == \A w \in Works, p \in Products :
                     Ends(w) /\ work[w].step = "setup" /\ consumables'[p] > consumables[p] /\ consumables'[p] > 1 =>
                         \/ p \notin work[w].found /\ consumables[p] > 0
                         \/ Cardinality(For(work[w].answers, p)) > 1
<1>1. AssetsInit => AssetsInv
  BY DEF AssetsInit, AssetsInv, Metadata
<1>2. AssetsInv /\ [AssetSteps]_assetVars => AssetsInv' /\ Kept /\ Explained
  <2> SUFFICES ASSUME AssetsInv, [AssetSteps]_assetVars PROVE AssetsInv' /\ Kept /\ Explained
    OBVIOUS
  <2>1. ASSUME NEW w \in Works, NEW answers \in AnswerSets, Configure(w, answers) \/ Setup(w, answers)
        PROVE  AssetsInv' /\ Kept /\ Explained
    BY <2>1, AssetsBegin
  <2>2. ASSUME NEW w \in Works, CommitConfigure(w) \/ CommitSetup(w) \/ AbortSetup(w)
        PROVE  AssetsInv' /\ Kept /\ Explained
    BY <2>2, AssetsCommit
  <2>3. CASE \/ \E m \in Edits : Update(m)
             \/ \E p \in Products : CreateConsumable(p) \/ RemoveConsumable(p)
             \/ UNCHANGED assetVars
    BY <2>3, AssetsEdited
  <2> QED
    BY <2>1, <2>2, <2>3 DEF AssetSteps
<1>3. AssetsInv /\ [AssetSteps]_assetVars => [Kept]_assetVars /\ [Explained]_assetVars
  BY <1>2
<1> QED
  BY <1>1, <1>2, <1>3, PTL DEF AssetsSpec, AnswersWriteTheirOwn, OtherKeysKept, SecondConsumableExplained
-----------------------------------------------------------------------------
(* Questions *)

(* The conditions of a question are finitely many, so counting the ones    *)
(* that are met tells whether all are.                                     *)
QuestionsInv ==
    /\ conditions = [q \in QuestionIds |-> conditions[q]]
    /\ \A q \in QuestionIds : IsFiniteSet(conditions[q])
    /\ custom \in [QuestionIds -> {TRUE, FALSE, Nothing}]

(* The move adds at most one condition for a field. *)
LEMMA MigratedFinite ==
    ASSUME NEW q, NEW type, NEW value
    PROVE  IsFiniteSet(Migrated(q, type, value))
BY FS_EmptySet, FS_Singleton DEF Migrated

(* Edits, answers and the move keep the conditions finite. *)
LEMMA QuestionsInvStep ==
    ASSUME QuestionsInv, [QuestionSteps]_questionVars
    PROVE  QuestionsInv'
<1>1. CASE UNCHANGED <<conditions, custom>>
  BY <1>1 DEF QuestionsInv
<1>2. ASSUME NEW q \in QuestionIds, NEW c, NEW d,
             AddCondition(q, c) \/ RemoveCondition(q, c) \/ UpdateCondition(q, c, d)
      PROVE  QuestionsInv'
  <2>1. IsFiniteSet(conditions[q])
    BY DEF QuestionsInv
  <2>2. IsFiniteSet(conditions[q] \cup {c}) /\ IsFiniteSet(conditions[q] \ {c})
    BY <2>1, FS_AddElement, FS_RemoveElement
  <2>3. IsFiniteSet((conditions[q] \ {c}) \cup {d})
    BY <2>2, FS_AddElement
  <2>4. PICK new : IsFiniteSet(new) /\ conditions' = [conditions EXCEPT ![q] = new] /\ custom' = custom
    BY <1>2, <2>2, <2>3 DEF AddCondition, RemoveCondition, UpdateCondition
  <2> QED
    BY <2>4 DEF QuestionsInv
<1>3. ASSUME NEW q \in QuestionIds, NEW enabled \in {TRUE, FALSE, Nothing}, Customize(q, enabled)
      PROVE  QuestionsInv'
  BY <1>3 DEF Customize, QuestionsInv
<1>4. CASE MigrateQuestionsToConditions
  <2> DEFINE more(q) == conditions[q] \cup Migrated(q, "PRODUCT_CATEGORY", fields[q].category)
                                     \cup Migrated(q, "PRODUCT", fields[q].product)
  <2>1. conditions' = [q \in QuestionIds |-> more(q)] /\ custom' = custom
    BY <1>4 DEF MigrateQuestionsToConditions
  <2>2. \A q \in QuestionIds : IsFiniteSet(more(q))
    BY MigratedFinite, FS_Union DEF QuestionsInv
  <2> HIDE DEF more
  <2> QED
    BY <2>1, <2>2 DEF QuestionsInv
<1>5. QuestionSteps \/ UNCHANGED questionVars
  OBVIOUS
<1>6. CASE UNCHANGED questionVars
  BY <1>1, <1>6 DEF questionVars
<1>7. CASE CheckAssetConfiguration \/ Answer \/ \E q \in QuestionIds : UpdateActive(q)
  BY <1>1, <1>7 DEF CheckAssetConfiguration, Answer, ConfigureAnswers, UpdateActive
<1> QED
  BY <1>2, <1>3, <1>4, <1>5, <1>6, <1>7 DEF QuestionSteps

(* As many rows joined as there are conditions means that all are met. *)
LEMMA CountedWhenAllMet == QuestionsInv => AskedWhenAllMet
<1> SUFFICES ASSUME QuestionsInv, NEW type, NEW q \in QuestionIds
             PROVE  q \in FindQuestionIds(type) <=>
                       /\ q \notin inactive /\ custom[q] # FALSE
                       /\ KindMatches(q, type)
                       /\ conditions[q] # {} /\ \A c \in conditions[q] : ConditionMet(c)
  BY DEF AskedWhenAllMet
<1> DEFINE joined == {c \in conditions[q] : custom[q] \in {Nothing, TRUE} /\ ConditionMet(c)}
<1>1. q \in FindQuestionIds(type) <=>
         /\ q \notin inactive /\ KindMatches(q, type)
         /\ joined # {} /\ Cardinality(joined) = Cardinality(conditions[q])
  BY DEF FindQuestionIds
<1>2. joined \in SUBSET conditions[q] /\ IsFiniteSet(conditions[q])
  BY DEF QuestionsInv
<1> HIDE DEF joined
<1>3. Cardinality(joined) = Cardinality(conditions[q]) <=> joined = conditions[q]
  BY <1>2, FS_Subset
<1>4. custom[q] \in {Nothing, TRUE} <=> custom[q] # FALSE
  BY QuestionsAssumption DEF QuestionsInv
<1>5. joined = conditions[q] /\ joined # {} <=>
         custom[q] \in {Nothing, TRUE} /\ conditions[q] # {} /\ \A c \in conditions[q] : ConditionMet(c)
  BY DEF joined
<1> QED
  BY <1>1, <1>3, <1>4, <1>5

(* A field is cleared once its value is in a condition. *)
LEMMA FieldMigrated ==
    ASSUME NEW q \in QuestionIds, NEW type, NEW value, value # Nothing,
           conditions[q] \cup Migrated(q, type, value) \subseteq conditions'[q]
    PROVE  \E c \in conditions'[q] : c.type = type /\ value \in c.values
<1>1. CASE \E c \in conditions[q] : c.type = type /\ value \in c.values
  BY <1>1
<1>2. CASE ~\E c \in conditions[q] : c.type = type /\ value \in c.values
  <2> DEFINE new == [type |-> type, values |-> {value}]
  <2>1. new \in conditions'[q]
    BY <1>2 DEF Migrated
  <2>2. new.type = type /\ value \in new.values
    OBVIOUS
  <2> QED
    BY <2>1, <2>2
<1> QED
  BY <1>1, <1>2

(* The count of joined rows decides whether a question is asked, for any   *)
(* conditions, edits and answers, and the move into conditions loses none  *)
(* of the old fields.                                                      *)
THEOREM QuestionsStaySound == QuestionsSpec => QuestionsSound
<1> DEFINE Moved == \A q \in QuestionIds :
                     /\ fields[q].category # fields'[q].category =>
                           \E c \in conditions'[q] : c.type = "PRODUCT_CATEGORY" /\ fields[q].category \in c.values
                     /\ fields[q].product # fields'[q].product =>
                           \E c \in conditions'[q] : c.type = "PRODUCT" /\ fields[q].product \in c.values
<1>1. QuestionsInit => QuestionsInv
  BY QuestionsAssumption DEF QuestionsInit, QuestionsInv
<1>2. QuestionSteps => Moved
  <2>1. CASE MigrateQuestionsToConditions
    <3> SUFFICES ASSUME NEW q \in QuestionIds
                 PROVE  /\ fields[q].category # fields'[q].category =>
                              \E c \in conditions'[q] : c.type = "PRODUCT_CATEGORY" /\ fields[q].category \in c.values
                        /\ fields[q].product # fields'[q].product =>
                              \E c \in conditions'[q] : c.type = "PRODUCT" /\ fields[q].product \in c.values
      OBVIOUS
    <3>1. conditions'[q] = conditions[q] \cup Migrated(q, "PRODUCT_CATEGORY", fields[q].category)
                                         \cup Migrated(q, "PRODUCT", fields[q].product)
      BY <2>1 DEF MigrateQuestionsToConditions
    <3>2. /\ fields'[q].category \in {Nothing, fields[q].category}
          /\ fields'[q].product \in {Nothing, fields[q].product}
      BY <2>1 DEF MigrateQuestionsToConditions
    <3>3. fields[q].category # fields'[q].category => fields[q].category # Nothing
      BY <3>2
    <3>4. fields[q].product # fields'[q].product => fields[q].product # Nothing
      BY <3>2
    <3> QED
      BY <3>1, <3>2, FieldMigrated
  <2>2. QuestionSteps /\ ~MigrateQuestionsToConditions => fields' = fields
    BY DEF QuestionSteps, CheckAssetConfiguration, Answer, ConfigureAnswers, AddCondition, RemoveCondition,
           UpdateCondition, UpdateActive, Customize
  <2> QED
    BY <2>1, <2>2
<1>3. QuestionsInv /\ [QuestionSteps]_questionVars => QuestionsInv'
  BY QuestionsInvStep
<1>4. QuestionsSpec => [][Moved]_questionVars
  BY <1>2, PTL DEF QuestionsSpec
<1>5. QuestionsSpec => []AskedWhenAllMet
  BY <1>1, <1>3, CountedWhenAllMet, PTL DEF QuestionsSpec
<1> QED
  BY <1>4, <1>5, PTL DEF QuestionsSound, FieldsBecomeConditions
------------------------------------------------------------------------------
(* Inspection routes *)

(* A set of naturals that is not empty has a least element. *)
LEMMA LeastNumber ==
    ASSUME NEW T, T \subseteq Nat, T # {}
    PROVE  \E x \in T : \A y \in T : x <= y
<1>1. IsWellFoundedOn(OpToRel(<, Nat), Nat)
  BY NatLessThanWellFounded
<1>2. PICK x \in T : \A y \in T : ~ (<<y, x>> \in OpToRel(<, Nat))
  BY <1>1, WFMin
<1>3. \A y \in T : y \in Nat /\ x \in Nat /\ ~(y < x)
  BY <1>2 DEF OpToRel
<1>4. \A y \in T : x <= y
  BY <1>3
<1> QED
  BY <1>4

(* Positions that are closed downwards are the first ones. *)
LEMMA FirstPositions ==
    ASSUME NEW n \in Nat, NEW B, B \subseteq 1 .. n,
           \A i \in B : \A j \in 1 .. n : j <= i => j \in B
    PROVE  /\ Cardinality(B) \in 0 .. n
           /\ B = 1 .. Cardinality(B)
<1> DEFINE T == (1 .. n + 1) \ B
<1>1. T \subseteq Nat /\ n + 1 \in T
  OBVIOUS
<1>2. PICK k \in T : \A y \in T : k <= y
  <2> HIDE DEF T
  <2> QED
    BY <1>1, LeastNumber
<1>3. k \in 1 .. n + 1 /\ k \notin B /\ \A y \in 1 .. n + 1 : y < k => y \in B
  BY <1>2
<1>4. B = 1 .. (k - 1)
  <2>1. ASSUME NEW i \in B PROVE i \in 1 .. (k - 1)
    <3>1. ~(k <= i)
      <4>1. k <= i => k \in 1 .. n
        BY <1>3
      <4> QED
        BY <4>1, <1>3
    <3> QED
      BY <1>3, <3>1
  <2>2. ASSUME NEW i \in 1 .. (k - 1) PROVE i \in B
    BY <1>3
  <2> QED
    BY <2>1, <2>2
<1>5. Cardinality(1 .. (k - 1)) = k - 1
  BY <1>3, FS_Interval
<1> QED
  BY <1>3, <1>4, <1>5

(* The elements of one sequence after another. *)
LEMMA Joined ==
    ASSUME NEW X, NEW s \in Seq(X), NEW t \in Seq(X)
    PROVE  /\ s \o t \in Seq(X) /\ Len(s \o t) = Len(s) + Len(t)
           /\ \A i \in 1 .. Len(s) + Len(t) : (s \o t)[i] = IF i <= Len(s) THEN s[i] ELSE t[i - Len(s)]
<1>1. /\ s \o t \in Seq(X) /\ Len(s) \in Nat /\ Len(t) \in Nat
      /\ Len(s \o t) = Len(s) + Len(t)
      /\ \A i \in 1 .. Len(s) : (s \o t)[i] = s[i]
      /\ \A i \in 1 .. Len(t) : (s \o t)[Len(s) + i] = t[i]
  OBVIOUS
<1>u. PICK u, n, m : u = s \o t /\ n = Len(s) /\ m = Len(t)
  OBVIOUS
<1>2. ASSUME NEW i \in 1 .. n + m PROVE u[i] = IF i <= n THEN s[i] ELSE t[i - n]
  <2>1. CASE i <= n
    BY <1>1, <1>u, <2>1
  <2>2. CASE ~(i <= n)
    <3>1. PICK j : j = i - n
      OBVIOUS
    <3>2. j \in 1 .. m /\ n + j = i
      BY <1>1, <1>u, <2>2, <3>1
    <3>3. u[n + j] = t[j]
      BY <1>1, <1>u, <3>2
    <3> QED
      BY <2>2, <3>1, <3>2, <3>3
  <2> QED
    BY <2>1, <2>2
<1> QED
  BY <1>1, <1>2, <1>u

(* The sequence r is s without the element at place k, and r is s with e    *)
(* put in at place k.                                                      *)
Shorter(r, s, k, X) == /\ r \in Seq(X) /\ Len(r) = Len(s) - 1
                       /\ \A i \in 1 .. Len(s) - 1 : r[i] = IF i < k THEN s[i] ELSE s[i + 1]
Longer(r, s, k, e, X) == /\ r \in Seq(X) /\ Len(r) = Len(s) + 1
                         /\ \A i \in 1 .. Len(s) + 1 :
                               r[i] = IF i < k THEN s[i] ELSE IF i = k THEN e ELSE s[i - 1]
Appended(r, s, t, X) == /\ r \in Seq(X) /\ Len(r) = Len(s) + Len(t)
                        /\ \A i \in 1 .. Len(s) + Len(t) : r[i] = IF i <= Len(s) THEN s[i] ELSE t[i - Len(s)]

(* Joined, of a result that has a name. *)
LEMMA JoinedIn ==
    ASSUME NEW X, NEW s \in Seq(X), NEW t \in Seq(X), NEW r, r = s \o t
    PROVE  Appended(r, s, t, X)
<1>1. Appended(s \o t, s, t, X)
  BY Joined DEF Appended
<1> QED
  BY <1>1

(* A sequence without one of its elements. *)
LEMMA Removed ==
    ASSUME NEW X, NEW s \in Seq(X), NEW k \in 1 .. Len(s), NEW r, r = RemoveAt(s, k)
    PROVE  Shorter(r, s, k, X)
<1>1. Len(s) \in Nat /\ k \in Nat
  OBVIOUS
<1>2. PICK a, b : a = SubSeq(s, 1, k - 1) /\ b = SubSeq(s, k + 1, Len(s))
  OBVIOUS
<1>3. a \in Seq(X) /\ Len(a) = k - 1 /\ \A i \in 1 .. k - 1 : a[i] = s[i]
  BY <1>1, <1>2
<1>4. b \in Seq(X) /\ Len(b) = Len(s) - k /\ \A i \in 1 .. Len(s) - k : b[i] = s[k + i]
  <2>1. CASE k + 1 <= Len(s)
    BY <1>1, <1>2, <2>1
  <2>2. CASE k = Len(s)
    BY <1>1, <1>2, <2>2
  <2> QED
    BY <1>1, <2>1, <2>2
<1>5. r = a \o b
  BY <1>2 DEF RemoveAt
<1>6. Appended(r, a, b, X)
  BY <1>3, <1>4, <1>5, JoinedIn
<1>7. /\ r \in Seq(X) /\ Len(r) = Len(s) - 1
      /\ \A i \in 1 .. Len(s) - 1 : r[i] = IF i <= k - 1 THEN a[i] ELSE b[i - (k - 1)]
  BY <1>1, <1>3, <1>4, <1>6 DEF Appended
<1>8. ASSUME NEW i \in 1 .. Len(s) - 1
      PROVE  r[i] = IF i < k THEN s[i] ELSE s[i + 1]
  <2>1. CASE i < k
    <3>1. i \in 1 .. k - 1
      BY <1>1, <2>1
    <3> QED
      BY <1>3, <1>7, <2>1, <3>1
  <2>2. CASE ~(i < k)
    <3>1. PICK j : j = i - (k - 1)
      OBVIOUS
    <3>2. j \in 1 .. Len(s) - k /\ k + j = i + 1 /\ ~(i <= k - 1)
      BY <1>1, <2>2, <3>1
    <3>3. r[i] = b[j] /\ b[j] = s[k + j]
      BY <1>4, <1>7, <3>1, <3>2
    <3> QED
      BY <2>2, <3>2, <3>3
  <2> QED
    BY <2>1, <2>2
<1> QED
  BY <1>7, <1>8 DEF Shorter

(* A sequence with one more element. *)
LEMMA Inserted ==
    ASSUME NEW X, NEW s \in Seq(X), NEW k \in 1 .. Len(s) + 1, NEW e \in X, NEW r, r = InsertAt(s, k, e)
    PROVE  Longer(r, s, k, e, X)
<1>1. Len(s) \in Nat /\ k \in Nat
  OBVIOUS
<1>2. PICK a, b, c : a = SubSeq(s, 1, k - 1) /\ b = SubSeq(s, k, Len(s)) /\ c = <<e>>
  OBVIOUS
<1>3. a \in Seq(X) /\ Len(a) = k - 1 /\ \A i \in 1 .. k - 1 : a[i] = s[i]
  BY <1>1, <1>2
<1>4. b \in Seq(X) /\ Len(b) = Len(s) - k + 1 /\ \A i \in 1 .. Len(s) - k + 1 : b[i] = s[k + i - 1]
  <2>1. CASE k <= Len(s)
    BY <1>1, <1>2, <2>1
  <2>2. CASE k = Len(s) + 1
    BY <1>1, <1>2, <2>2
  <2> QED
    BY <1>1, <2>1, <2>2
<1>5. c \in Seq(X) /\ Len(c) = 1 /\ c[1] = e
  BY <1>2
<1>6. PICK d : d = a \o c
  OBVIOUS
<1>7. Appended(d, a, c, X)
  BY <1>3, <1>5, <1>6, JoinedIn
<1>8. /\ d \in Seq(X) /\ Len(d) = k
      /\ \A i \in 1 .. k : d[i] = IF i <= k - 1 THEN a[i] ELSE c[i - (k - 1)]
  BY <1>1, <1>3, <1>5, <1>7 DEF Appended
<1>9. d[k] = e /\ \A i \in 1 .. k - 1 : d[i] = s[i]
  <2>1. k - (k - 1) = 1 /\ ~(k <= k - 1) /\ k \in 1 .. k
    BY <1>1
  <2>2. d[k] = c[1]
    BY <1>8, <2>1
  <2>3. ASSUME NEW i \in 1 .. k - 1 PROVE d[i] = s[i]
    <3>1. i \in 1 .. k /\ i <= k - 1
      BY <1>1
    <3> QED
      BY <1>3, <1>8, <3>1
  <2> QED
    BY <1>5, <2>2, <2>3
<1>10. r = d \o b
  BY <1>2, <1>6 DEF InsertAt
<1>11. Appended(r, d, b, X)
  BY <1>4, <1>8, <1>10, JoinedIn
<1>12. /\ r \in Seq(X) /\ Len(r) = Len(s) + 1
       /\ \A i \in 1 .. Len(s) + 1 : r[i] = IF i <= k THEN d[i] ELSE b[i - k]
  BY <1>1, <1>4, <1>8, <1>11 DEF Appended
<1>13. ASSUME NEW i \in 1 .. Len(s) + 1
       PROVE  r[i] = IF i < k THEN s[i] ELSE IF i = k THEN e ELSE s[i - 1]
  <2>1. CASE i < k
    <3>1. i \in 1 .. k - 1 /\ i <= k
      BY <1>1, <2>1
    <3> QED
      BY <1>9, <1>12, <2>1, <3>1
  <2>2. CASE i = k
    <3>1. i <= k /\ ~(i < k)
      BY <1>1, <2>2
    <3>2. r[i] = d[k]
      BY <1>12, <2>2, <3>1
    <3> QED
      BY <1>9, <2>2, <3>1, <3>2
  <2>3. CASE i > k
    <3>1. PICK j : j = i - k
      OBVIOUS
    <3>2. j \in 1 .. Len(s) - k + 1 /\ k + j - 1 = i - 1 /\ ~(i <= k) /\ ~(i < k) /\ i # k
      BY <1>1, <2>3, <3>1
    <3>3. r[i] = b[j] /\ b[j] = s[k + j - 1]
      BY <1>4, <1>12, <3>1, <3>2
    <3> QED
      BY <3>2, <3>3
  <2> QED
    BY <1>1, <2>1, <2>2, <2>3
<1> QED
  BY <1>12, <1>13 DEF Longer


(* The points of a route are finitely many. *)
LEMMA FiniteRoute ==
    ASSUME NEW o
    PROVE  IsFiniteSet(OnRoute(o))
<1>1. PICK R : R = OnRoute(o)
  OBVIOUS
<1>2. R \in SUBSET Points /\ IsFiniteSet(Points)
  BY <1>1, RouteAssumption DEF OnRoute
<1> QED
  BY <1>1, <1>2, FS_Subset

(* The sequence all lists the n points of R by their orders. *)
Listing(all, o, R, n) ==
    /\ n \in Nat /\ all \in Seq(R) /\ Len(all) = n
    /\ all \in [1 .. n -> R]
    /\ \A i, k \in 1 .. n : all[i] = all[k] => i = k
    /\ \A i, k \in 1 .. n : i < k => o[all[i]] <= o[all[k]]
    /\ \A p \in R : \E i \in 1 .. n : all[i] = p

(* A sorted sequence of the points of a route is one without repetition of *)
(* all of them.                                                            *)
LEMMA SortedFacts ==
    ASSUME NEW o, NEW all \in Sorted(o), NEW R, R = OnRoute(o), NEW n, n = Cardinality(R)
    PROVE  Listing(all, o, R, n)
<1>1. IsFiniteSet(R)
  BY FiniteRoute
<1>2. n \in Nat
  BY <1>1, FS_CardinalityType
<1>3. /\ all \in [1 .. n -> R] /\ \A i, k \in 1 .. n : i # k => all[i] # all[k]
      /\ \A i, k \in DOMAIN all : i < k => o[all[i]] <= o[all[k]]
  BY DEF Sorted, SetToSeqs
<1>4. all \in Injection(1 .. n, R)
  BY <1>3 DEF Injection, IsInjective
<1>5. Cardinality(1 .. n) = n /\ IsFiniteSet(1 .. n)
  BY <1>2, FS_Interval
<1>6. all \in Surjection(1 .. n, R)
  BY <1>1, <1>4, <1>5, FS_Injection
<1>7. \A p \in R : \E i \in 1 .. n : all[i] = p
  BY <1>6 DEF Surjection
<1>8. all \in Seq(R) /\ Len(all) = n
  BY <1>2, <1>3
<1> QED
  BY <1>2, <1>3, <1>7, <1>8 DEF Listing

(* Where the point at place j comes to stand when the one at place k is    *)
(* taken out and put behind b of the others.                               *)
Down(j, k) == IF j < k THEN j ELSE j - 1
Spot(j, k, b) == IF j = k THEN b + 1 ELSE IF Down(j, k) <= b THEN Down(j, k) ELSE Down(j, k) + 1

(* The others keep their order, and no two come to one place. *)
LEMMA Spots ==
    ASSUME NEW n \in Nat, NEW k \in 1 .. n, NEW b \in 0 .. n - 1
    PROVE  /\ \A j \in 1 .. n : Spot(j, k, b) \in 1 .. n
           /\ \A j \in 1 .. n : j # k => Down(j, k) \in 1 .. n - 1
           /\ \A i, j \in 1 .. n : i # k /\ j # k /\ i < j =>
                 Down(i, k) < Down(j, k) /\ Spot(i, k, b) < Spot(j, k, b)
BY DEF Down, Spot

(* What a reorder makes of a route R of n points with the orders o: pos is *)
(* the place of every point in the new list, the others keep their order,  *)
(* and the moved one stands where it was asked for.                        *)
Placed(pos, o, to, moved, list, R, n) ==
    /\ pos \in [R -> 1 .. n]
    /\ \A p \in R : list[pos[p]] = p
    /\ \A i \in 1 .. n : pos[list[i]] = i
    /\ \A p, q \in R \ {moved} : o[p] < o[q] => pos[p] < pos[q]
    /\ \A p \in R \ {moved} : /\ o[p] < to => pos[p] < pos[moved]
                              /\ o[p] > to => pos[moved] < pos[p]

(* The new order of a reorder: which place it gives the points that were   *)
(* read, for any number of points in any order.                            *)
LEMMA ListSound ==
    ASSUME NEW o \in [Points -> Int \cup {NoOrder}], NEW v, v.seen = o, v.all \in Sorted(o),
           v.to \in Int, NEW R, R = OnRoute(o), R # {}, NEW n, n = Cardinality(R),
           NEW list, list = NewList(v), NEW moved,
           moved = IF v.point \in R THEN v.point ELSE v.all[Len(v.all)]
    PROVE  /\ n \in Nat /\ list \in [1 .. n -> R] /\ moved \in R
           /\ \E pos : Placed(pos, o, v.to, moved, list, R, n)
<1>1. PICK all : all = v.all
  OBVIOUS
<1>2. /\ n \in Nat /\ all \in Seq(R) /\ Len(all) = n /\ all \in [1 .. n -> R]
      /\ \A i, j \in 1 .. n : all[i] = all[j] => i = j
      /\ \A i, j \in 1 .. n : i < j => o[all[i]] <= o[all[j]]
      /\ \A p \in R : \E i \in 1 .. n : all[i] = p
  <2>1. Listing(all, o, R, n)
    BY <1>1, SortedFacts
  <2> QED
    BY <2>1 DEF Listing
<1>f. IsFiniteSet(R)
  BY FiniteRoute
<1>3. \A p \in R : o[p] \in Int
  BY DEF OnRoute
<1>4. n >= 1
  BY <1>2
<1>5. PICK k : k = Taken(v)
  OBVIOUS
<1>6. k \in 1 .. n /\ all[k] = IF v.point \in R THEN v.point ELSE all[Len(all)]
  <2>1. DOMAIN all = 1 .. n
    BY <1>2
  <2>2. CASE v.point \in R
    <3>1. \E i \in 1 .. n : all[i] = v.point
      BY <1>2, <2>2
    <3>2. k = CHOOSE i \in 1 .. n : all[i] = v.point
      BY <1>1, <1>5, <2>1, <3>1 DEF Taken
    <3> QED
      BY <2>2, <3>1, <3>2
  <2>3. CASE v.point \notin R
    <3>1. ~ \E i \in 1 .. n : all[i] = v.point
      BY <1>2, <2>3
    <3>2. k = Len(all)
      BY <1>1, <1>5, <2>1, <3>1 DEF Taken
    <3> QED
      BY <1>2, <1>4, <2>3, <3>2
  <2> QED
    BY <2>2, <2>3
<1>7. moved = all[k] /\ \E rest : rest = RemoveAt(all, k)
  BY <1>1, <1>6
<1>r. PICK rest : rest = RemoveAt(all, k)
  BY <1>7
<1>8. /\ moved \in R /\ rest \in Seq(R) /\ Len(rest) = n - 1
      /\ \A i \in 1 .. n - 1 : rest[i] = IF i < k THEN all[i] ELSE all[i + 1]
  <2>1. moved \in R
    BY <1>2, <1>6, <1>7
  <2>2. rest = RemoveAt(all, k)
    BY <1>r
  <2>3. n \in Nat /\ all \in Seq(R) /\ Len(all) = n /\ k \in 1 .. n
    BY <1>2, <1>6
  <2>4. Shorter(rest, all, k, R)
    BY <2>2, <2>3, Removed
  <2> QED
    BY <2>1, <2>3, <2>4 DEF Shorter
<1> DEFINE B == {i \in DOMAIN rest : \/ v.to > v.seen[moved] /\ v.seen[rest[i]] = v.to
                                     \/ v.seen[rest[i]] < v.to}
           b == Cardinality(B)
<1>9. B = {i \in 1 .. n - 1 : \/ v.to > o[moved] /\ o[rest[i]] = v.to
                              \/ o[rest[i]] < v.to}
  BY <1>8
<1>10. NewList(v) = InsertAt(rest, b + 1, moved)
  BY <1>1, <1>5, <1>7, <1>r DEF NewList
<1>11. \A i, j \in 1 .. n - 1 : j <= i => o[rest[j]] <= o[rest[i]]
  <2> SUFFICES ASSUME NEW i \in 1 .. n - 1, NEW j \in 1 .. n - 1, j <= i
               PROVE  o[rest[j]] <= o[rest[i]]
    OBVIOUS
  <2>1. CASE i = j
    <3>1. rest[i] \in R
      BY <1>8
    <3> QED
      BY <2>1, <3>1, <1>3
  <2>2. CASE j < i
    <3>1. PICK x, y : x = (IF j < k THEN j ELSE j + 1) /\ y = (IF i < k THEN i ELSE i + 1)
      OBVIOUS
    <3>2. x \in 1 .. n /\ y \in 1 .. n /\ x < y
      BY <1>2, <1>6, <2>2, <3>1
    <3>3. rest[j] = all[x] /\ rest[i] = all[y]
      BY <1>8, <3>1
    <3> QED
      BY <1>2, <3>2, <3>3
  <2> QED
    BY <2>1, <2>2
<1>12. b \in 0 .. n - 1 /\ B = 1 .. b
  <2>1. n - 1 \in Nat /\ B \subseteq 1 .. n - 1
    BY <1>2, <1>4, <1>9
  <2>2. ASSUME NEW i \in B, NEW j \in 1 .. n - 1, j <= i PROVE j \in B
    <3>1. i \in 1 .. n - 1 /\ o[rest[j]] <= o[rest[i]]
      BY <1>11, <2>1, <2>2
    <3>2. o[rest[j]] \in Int /\ o[rest[i]] \in Int
      BY <1>3, <1>8, <3>1
    <3>3. (v.to > o[moved] /\ o[rest[i]] = v.to) \/ o[rest[i]] < v.to
      BY <1>9
    <3>4. (v.to > o[moved] /\ o[rest[j]] = v.to) \/ o[rest[j]] < v.to
      BY <3>1, <3>2, <3>3
    <3> QED
      BY <1>9, <3>4
  <2> HIDE DEF B
  <2> QED
    BY <2>1, <2>2, FirstPositions
<1> HIDE DEF b
<1>13. list = NewList(v)
  OBVIOUS
<1>14. /\ list \in Seq(R) /\ Len(list) = n
       /\ \A i \in 1 .. n : list[i] = IF i < b + 1 THEN rest[i] ELSE IF i = b + 1 THEN moved ELSE rest[i - 1]
  <2> HIDE DEF B
  <2>1. PICK m, kk : m = n - 1 /\ kk = b + 1
    OBVIOUS
  <2>2. m \in Nat /\ Len(rest) = m /\ kk \in 1 .. m + 1 /\ m + 1 = n
    BY <1>2, <1>4, <1>8, <1>12, <2>1
  <2>3. list = InsertAt(rest, kk, moved)
    BY <1>10, <1>13, <2>1
  <2>4. rest \in Seq(R) /\ moved \in R
    BY <1>8
  <2>5. Longer(list, rest, kk, moved, R)
    BY <2>2, <2>3, <2>4, Inserted
  <2>6. /\ list \in Seq(R) /\ Len(list) = n
        /\ \A i \in 1 .. n : list[i] = IF i < kk THEN rest[i] ELSE IF i = kk THEN moved ELSE rest[i - 1]
    BY <2>2, <2>5 DEF Longer
  <2> QED
    BY <2>1, <2>6
<1>15. list \in [1 .. n -> R]
  BY <1>14
<1>16. ASSUME NEW j \in 1 .. n PROVE Spot(j, k, b) \in 1 .. n /\ list[Spot(j, k, b)] = all[j]
  <2>1. Spot(j, k, b) \in 1 .. n /\ (j # k => Down(j, k) \in 1 .. n - 1)
    BY <1>2, <1>6, <1>12, Spots
  <2>2. CASE j = k
    <3>1. Spot(j, k, b) = b + 1
      BY <2>2 DEF Spot
    <3> QED
      BY <1>7, <1>12, <1>14, <2>1, <2>2, <3>1
  <2>3. CASE j # k
    <3>1. PICK d : d = Down(j, k)
      OBVIOUS
    <3>2. d \in 1 .. n - 1 /\ rest[d] = all[j]
      BY <1>2, <1>6, <1>8, <2>1, <2>3, <3>1 DEF Down
    <3>3. CASE d <= b
      <4>1. Spot(j, k, b) = d /\ d < b + 1
        BY <1>12, <2>3, <3>1, <3>2, <3>3 DEF Spot
      <4> QED
        BY <1>14, <2>1, <3>2, <4>1
    <3>4. CASE ~(d <= b)
      <4>1. Spot(j, k, b) = d + 1 /\ ~(d + 1 < b + 1) /\ d + 1 # b + 1 /\ (d + 1) - 1 = d
        BY <1>12, <2>3, <3>1, <3>2, <3>4 DEF Spot
      <4> QED
        BY <1>14, <2>1, <3>2, <4>1
    <3> QED
      BY <3>3, <3>4
  <2> QED
    BY <2>2, <2>3
<1> DEFINE place == [p \in R |-> CHOOSE j \in 1 .. n : all[j] = p]
           pos == [p \in R |-> Spot(place[p], k, b)]
<1>17. \A p \in R : place[p] \in 1 .. n /\ all[place[p]] = p
  BY <1>2
<1>18. \A j \in 1 .. n : all[j] \in R /\ place[all[j]] = j
  <2>1. \A j \in 1 .. n : all[j] \in R
    BY <1>2
  <2> HIDE DEF place
  <2> QED
    BY <2>1, <1>2, <1>17
<1> HIDE DEF place
<1>19. pos \in [R -> 1 .. n] /\ \A p \in R : pos[p] = Spot(place[p], k, b) /\ list[pos[p]] = p
  BY <1>16, <1>17
<1> HIDE DEF pos
<1>20. \A i, j \in 1 .. n : list[i] = list[j] => i = j
  <2>1. list \in Surjection(1 .. n, R)
    BY <1>15, <1>19 DEF Surjection
  <2>2. Cardinality(1 .. n) = n /\ IsFiniteSet(1 .. n)
    <3>1. PICK m : m = n
      OBVIOUS
    <3>2. m \in Nat
      BY <1>2, <3>1
    <3>3. Cardinality(1 .. m) = m /\ IsFiniteSet(1 .. m)
      BY <3>2, FS_Interval
    <3> QED
      BY <3>1, <3>3
  <2>3. list \in Injection(1 .. n, R)
    BY <2>1, <2>2, FS_SurjSameCardinalityImpliesInj, <1>f
  <2> QED
    BY <2>3, <1>15 DEF Injection, IsInjective
<1>21. \A i \in 1 .. n : pos[list[i]] = i
  BY <1>15, <1>19, <1>20
<1>22. \A p \in R : p # moved => place[p] # k
  BY <1>7, <1>17
<1>23. place[moved] = k /\ pos[moved] = b + 1
  <2>1. place[moved] = k
    BY <1>6, <1>7, <1>18
  <2>2. pos[moved] = Spot(k, k, b)
    BY <1>8, <1>19, <2>1
  <2> QED
    BY <2>1, <2>2 DEF Spot
<1>24. ASSUME NEW p \in R \ {moved}, NEW q \in R \ {moved}, o[p] < o[q] PROVE pos[p] < pos[q]
  <2>1. PICK i, j : i = place[p] /\ j = place[q]
    OBVIOUS
  <2>2. i \in 1 .. n /\ j \in 1 .. n /\ all[i] = p /\ all[j] = q /\ i # k /\ j # k
    BY <1>17, <1>22, <2>1
  <2>3. i < j
    <3>1. ~(j < i)
      <4> SUFFICES ASSUME j < i PROVE FALSE
        OBVIOUS
      <4>1. o[q] <= o[p]
        BY <1>2, <2>2
      <4>2. o[p] \in Int /\ o[q] \in Int
        BY <1>3
      <4> QED
        BY <1>24, <4>1, <4>2
    <3>2. i # j
      <4>1. o[p] \in Int
        BY <1>3
      <4> QED
        BY <1>24, <2>2, <4>1
    <3> QED
      BY <2>2, <3>1, <3>2
  <2>4. Spot(i, k, b) < Spot(j, k, b)
    BY <1>2, <1>6, <1>12, <2>2, <2>3, Spots
  <2> QED
    BY <1>19, <2>1, <2>4
<1>25. ASSUME NEW p \in R \ {moved}
       PROVE  (o[p] < v.to => pos[p] < pos[moved]) /\ (o[p] > v.to => pos[moved] < pos[p])
  <2>1. PICK j, d : j = place[p] /\ d = Down(j, k)
    OBVIOUS
  <2>2. j \in 1 .. n /\ all[j] = p /\ j # k
    BY <1>17, <1>22, <2>1
  <2>3. d \in 1 .. n - 1
    BY <1>2, <1>6, <1>12, <2>1, <2>2, Spots
  <2>4. rest[d] = p
    <3>1. CASE j < k
      <4>1. d = j /\ d < k
        BY <2>1, <3>1 DEF Down
      <4> QED
        BY <1>8, <2>2, <2>3, <4>1
    <3>2. CASE ~(j < k)
      <4>1. d = j - 1 /\ d + 1 = j /\ ~(d < k)
        BY <1>2, <1>6, <2>1, <2>2, <3>2 DEF Down
      <4>2. rest[d] = all[d + 1]
        BY <1>8, <2>3, <4>1
      <4> QED
        BY <2>2, <4>1, <4>2
    <3> QED
      BY <3>1, <3>2
  <2>5. pos[p] = IF d <= b THEN d ELSE d + 1
    BY <1>19, <2>1, <2>2 DEF Spot
  <2>6. d \in B <=> d <= b
    BY <1>12, <2>3
  <2>7. d \in B <=> ((v.to > o[moved] /\ o[p] = v.to) \/ o[p] < v.to)
    BY <1>9, <2>3, <2>4
  <2>8. o[p] \in Int
    BY <1>3
  <2> HIDE DEF B
  <2>9. ASSUME o[p] < v.to PROVE pos[p] < pos[moved]
    BY <1>12, <1>23, <2>3, <2>5, <2>6, <2>7, <2>9
  <2>10. ASSUME o[p] > v.to PROVE pos[moved] < pos[p]
    <3>1. ~(d <= b)
      BY <2>6, <2>7, <2>8, <2>10
    <3> QED
      BY <1>12, <1>23, <2>3, <2>5, <3>1
  <2> QED
    BY <2>9, <2>10
<1>26. Placed(pos, o, v.to, moved, list, R, n)
  BY <1>19, <1>21, <1>24, <1>25 DEF Placed
<1> QED
  BY <1>2, <1>8, <1>15, <1>26

(* The inductive invariant of the route: orders are integers where there   *)
(* is one, and a reorder in flight holds the points of a route that had    *)
(* some, sorted as they were read.                                         *)
Ordering == [Points -> Int \cup {NoOrder}]
Going(v) == v.to \in Int /\ v.seen \in Ordering /\ OnRoute(v.seen) # {} /\ v.all \in Sorted(v.seen)
RouteInv == /\ order \in Ordering
            /\ DOMAIN move = Movers
            /\ \A m \in Movers : move[m] # NoMove => Going(move[m])

(* The write of a reorder gives every point it knows its index, whoever    *)
(* changed the route meanwhile, and leaves the others as they are.         *)
LEMMA WriteTyped ==
    ASSUME RouteInv, NEW m \in Movers, WriteOrders(m)
    PROVE  order' \in Ordering
<1>1. PICK v, list : v = move[m] /\ list = NewList(v)
  OBVIOUS
<1>2. Going(v)
  BY <1>1 DEF RouteInv, WriteOrders
<1>3. PICK R, n, o, moved : /\ o = v.seen /\ R = OnRoute(o) /\ n = Cardinality(R)
                            /\ moved = IF v.point \in R THEN v.point ELSE v.all[Len(v.all)]
  OBVIOUS
<1>4. n \in Nat /\ list \in [1 .. n -> R]
  BY <1>1, <1>2, <1>3, ListSound DEF Going, Ordering
<1> DEFINE index(p) == (CHOOSE i \in DOMAIN list : list[i] = p) - 1
<1>5. \A p : (\E i \in DOMAIN list : list[i] = p) => index(p) \in Int
  <2> SUFFICES ASSUME NEW p, \E i \in DOMAIN list : list[i] = p PROVE index(p) \in Int
    OBVIOUS
  <2>1. (CHOOSE i \in DOMAIN list : list[i] = p) \in DOMAIN list
    OBVIOUS
  <2>2. DOMAIN list = 1 .. n
    BY <1>4
  <2> QED
    BY <1>4, <2>1, <2>2
<1>6. order' = [p \in Points |->
         IF order[p] # NoOrder /\ (\E i \in DOMAIN list : list[i] = p) /\ v.seen[p] # index(p)
         THEN index(p) ELSE order[p]]
  BY <1>1 DEF WriteOrders
<1>7. order \in Ordering
  BY DEF RouteInv
<1> HIDE DEF index
<1> QED
  BY <1>5, <1>6, <1>7 DEF Ordering

(* A reorder that nobody overtook: the place every point gets, and so what *)
(* MovesOnePoint says of it.                                               *)
LEMMA WriteSound ==
    ASSUME RouteInv, NEW m \in Movers, WriteOrders(m), NEW v, v = move[m], v.seen = order,
           NEW asked, asked = IF v.point \in OnRoute(order) THEN v.point ELSE v.all[Len(v.all)]
    PROVE  LET others == OnRoute(order) \ {asked} IN
           /\ {order'[p] : p \in OnRoute(order)} = 0 .. Cardinality(OnRoute(order)) - 1
           /\ \A p, q \in others : order[p] < order[q] => order'[p] < order'[q]
           /\ \A p \in others : /\ order[p] < v.to => order'[p] < order'[asked]
                                /\ order[p] > v.to => order'[asked] < order'[p]
<1>1. PICK list, R, n, o : list = NewList(v) /\ R = OnRoute(order) /\ n = Cardinality(R) /\ o = order
  OBVIOUS
<1>2. Going(v) /\ o \in Ordering /\ v.seen = o /\ R = OnRoute(o) /\ R # {}
  BY <1>1 DEF RouteInv, WriteOrders, Going
<1>3. /\ n \in Nat /\ list \in [1 .. n -> R] /\ asked \in R
      /\ \E pos : Placed(pos, o, v.to, asked, list, R, n)
  BY <1>1, <1>2, ListSound DEF Going, Ordering
<1>4. PICK pos : Placed(pos, o, v.to, asked, list, R, n)
  BY <1>3
<1>p. /\ pos \in [R -> 1 .. n]
      /\ \A p \in R : list[pos[p]] = p
      /\ \A i \in 1 .. n : pos[list[i]] = i
      /\ \A p, q \in R \ {asked} : o[p] < o[q] => pos[p] < pos[q]
      /\ \A p \in R \ {asked} : /\ o[p] < v.to => pos[p] < pos[asked]
                                /\ o[p] > v.to => pos[asked] < pos[p]
  BY <1>4 DEF Placed
<1> DEFINE index(p) == (CHOOSE i \in DOMAIN list : list[i] = p) - 1
<1>5. order' = [p \in Points |->
         IF order[p] # NoOrder /\ (\E i \in DOMAIN list : list[i] = p) /\ v.seen[p] # index(p)
         THEN index(p) ELSE order[p]]
  BY <1>1 DEF WriteOrders
<1>6. ASSUME NEW p \in R PROVE order'[p] = pos[p] - 1
  <2>1. pos[p] \in 1 .. n /\ list[pos[p]] = p /\ DOMAIN list = 1 .. n
    BY <1>3, <1>p
  <2>2. \A i \in 1 .. n : list[i] = p => i = pos[p]
    BY <1>p
  <2>3. (CHOOSE i \in DOMAIN list : list[i] = p) = pos[p]
    BY <2>1, <2>2
  <2>4. index(p) = pos[p] - 1 /\ \E i \in DOMAIN list : list[i] = p
    BY <2>1, <2>3
  <2>5. p \in Points /\ order[p] # NoOrder
    BY <1>1 DEF OnRoute
  <2>6. v.seen[p] = order[p]
    OBVIOUS
  <2> HIDE DEF index
  <2> QED
    BY <1>5, <2>4, <2>5, <2>6
<1>7. {order'[p] : p \in R} = 0 .. n - 1
  <2>1. ASSUME NEW p \in R PROVE order'[p] \in 0 .. n - 1
    <3>1. pos[p] \in 1 .. n /\ order'[p] = pos[p] - 1
      BY <1>p, <1>6
    <3>2. PICK x, y : x = pos[p] /\ y = order'[p]
      OBVIOUS
    <3>3. x \in 1 .. n /\ y = x - 1 /\ n \in Nat
      BY <1>3, <3>1, <3>2
    <3>4. y \in 0 .. n - 1
      BY <3>3
    <3> QED
      BY <3>2, <3>4
  <2>2. ASSUME NEW i \in 0 .. n - 1 PROVE \E p \in R : order'[p] = i
    <3>1. i + 1 \in 1 .. n
      BY <1>3
    <3>2. list[i + 1] \in R /\ pos[list[i + 1]] = i + 1
      BY <1>3, <1>p, <3>1
    <3>3. order'[list[i + 1]] = (i + 1) - 1
      BY <1>6, <3>2
    <3> QED
      BY <3>2, <3>3
  <2> QED
    BY <2>1, <2>2
<1>8. \A p \in R : pos[p] \in Int
  BY <1>3, <1>p
<1>9. \A p, q \in R \ {asked} : o[p] < o[q] => order'[p] < order'[q]
  BY <1>p, <1>6, <1>8
<1>10. \A p \in R \ {asked} : /\ o[p] < v.to => order'[p] < order'[asked]
                              /\ o[p] > v.to => order'[asked] < order'[p]
  <2> SUFFICES ASSUME NEW p \in R \ {asked}
               PROVE  /\ o[p] < v.to => order'[p] < order'[asked]
                      /\ o[p] > v.to => order'[asked] < order'[p]
    OBVIOUS
  <2>1. order'[p] = pos[p] - 1 /\ order'[asked] = pos[asked] - 1
    BY <1>3, <1>6
  <2>2. pos[p] \in Int /\ pos[asked] \in Int
    BY <1>3, <1>8
  <2>3. (o[p] < v.to => pos[p] < pos[asked]) /\ (o[p] > v.to => pos[asked] < pos[p])
    BY <1>p
  <2> QED
    BY <2>1, <2>2, <2>3
<1> QED
  BY <1>1, <1>7, <1>9, <1>10

(* The invariant is inductive. *)
LEMMA RouteInvInductive ==
    /\ RouteInit => RouteInv
    /\ RouteInv /\ [RouteSteps]_routeVars => RouteInv'
<1>1. ASSUME RouteInit PROVE RouteInv
  <2>1. order \in Ordering /\ DOMAIN move = Movers /\ \A m \in Movers : move[m] = NoMove
    BY <1>1 DEF RouteInit, Ordering
  <2> QED
    BY <2>1 DEF RouteInv
<1>2. ASSUME RouteInv, [RouteSteps]_routeVars PROVE RouteInv'
  <2> SUFFICES ASSUME RouteSteps PROVE RouteInv'
    BY <1>2 DEF RouteInv, routeVars, Going, Ordering
  <2>1. ASSUME NEW m \in Movers, NEW p \in Points, NEW to \in Orders, NEW all \in Sorted(order),
               ReadPoints(m, p, to, all)
        PROVE  RouteInv'
    <3>1. Going([point |-> p, to |-> to, all |-> all, seen |-> order])
      BY <1>2, <2>1, RouteAssumption DEF Going, RouteInv, ReadPoints
    <3>2. move' = [move EXCEPT ![m] = [point |-> p, to |-> to, all |-> all, seen |-> order]] /\ order' = order
      BY <2>1 DEF ReadPoints
    <3> QED
      BY <1>2, <3>1, <3>2 DEF RouteInv
  <2>2. ASSUME NEW m \in Movers, WriteOrders(m) PROVE RouteInv'
    <3>1. order' \in Ordering
      BY <1>2, <2>2, WriteTyped
    <3>2. move' = [move EXCEPT ![m] = NoMove]
      BY <2>2 DEF WriteOrders
    <3> QED
      BY <1>2, <3>1, <3>2 DEF RouteInv
  <2>3. ASSUME NEW p \in Points, NEW o \in Orders, CreatePoint(p, o) \/ UpdatePoint(p, o) PROVE RouteInv'
    <3>1. order' = [order EXCEPT ![p] = o] /\ move' = move /\ o \in Int
      BY <2>3, RouteAssumption DEF CreatePoint, UpdatePoint
    <3> QED
      BY <1>2, <3>1 DEF RouteInv, Ordering
  <2>4. ASSUME NEW p \in Points, RemovePoint(p) PROVE RouteInv'
    <3>1. order' = [order EXCEPT ![p] = NoOrder] /\ move' = move
      BY <2>4 DEF RemovePoint
    <3> QED
      BY <1>2, <3>1 DEF RouteInv, Ordering
  <2> QED
    BY <2>1, <2>2, <2>3, <2>4 DEF RouteSteps
<1> QED
  BY <1>1, <1>2

(* MovesOnePoint for every route, every number of points and any number of *)
(* reorders in flight.                                                     *)
THEOREM ReordersMoveOnePoint == RouteSpec => MovesOnePoint
<1> DEFINE Moved == \A m \in Movers :
          LET v == move[m]
              asked == IF v.point \in OnRoute(order) THEN v.point ELSE v.all[Len(v.all)]
              others == OnRoute(order) \ {asked}
          IN  move[m] # NoMove /\ move'[m] = NoMove /\ v.seen = order =>
                /\ {order'[p] : p \in OnRoute(order)} = 0 .. Cardinality(OnRoute(order)) - 1
                /\ \A p, q \in others : order[p] < order[q] => order'[p] < order'[q]
                /\ \A p \in others : /\ order[p] < v.to => order'[p] < order'[asked]
                                     /\ order[p] > v.to => order'[asked] < order'[p]
<1>1. RouteInv /\ [RouteSteps]_routeVars => [Moved]_routeVars
  <2> SUFFICES ASSUME RouteInv, RouteSteps, NEW m \in Movers,
                      move[m] # NoMove, move'[m] = NoMove, move[m].seen = order
               PROVE  LET v == move[m]
                          asked == IF v.point \in OnRoute(order) THEN v.point ELSE v.all[Len(v.all)]
                          others == OnRoute(order) \ {asked}
                      IN  /\ {order'[p] : p \in OnRoute(order)} = 0 .. Cardinality(OnRoute(order)) - 1
                          /\ \A p, q \in others : order[p] < order[q] => order'[p] < order'[q]
                          /\ \A p \in others : /\ order[p] < v.to => order'[p] < order'[asked]
                                               /\ order[p] > v.to => order'[asked] < order'[p]
    OBVIOUS
  <2>1. WriteOrders(m)
    <3>1. DOMAIN move = Movers
      BY DEF RouteInv
    <3>2. ASSUME NEW x \in Movers, NEW p \in Points, NEW to \in Orders, NEW all \in Sorted(order),
                 ReadPoints(x, p, to, all)
          PROVE  FALSE
      <4>1. x # m /\ move' = [move EXCEPT ![x] = [point |-> p, to |-> to, all |-> all, seen |-> order]]
        BY <3>2 DEF ReadPoints
      <4>2. move'[m] = move[m]
        BY <3>1, <4>1
      <4> QED
        BY <4>2
    <3>3. ASSUME NEW x \in Movers, x # m, WriteOrders(x) PROVE FALSE
      <4>1. move' = [move EXCEPT ![x] = NoMove]
        BY <3>3 DEF WriteOrders
      <4>2. move'[m] = move[m]
        BY <3>1, <3>3, <4>1
      <4> QED
        BY <4>2
    <3>4. ASSUME NEW p \in Points, (\E o \in Orders : CreatePoint(p, o) \/ UpdatePoint(p, o)) \/ RemovePoint(p)
          PROVE  FALSE
      <4>1. move' = move
        BY <3>4 DEF CreatePoint, UpdatePoint, RemovePoint
      <4> QED
        BY <4>1
    <3> QED
      BY <3>2, <3>3, <3>4 DEF RouteSteps
  <2>2. PICK v, asked : /\ v = move[m]
                        /\ asked = IF v.point \in OnRoute(order) THEN v.point ELSE v.all[Len(v.all)]
    OBVIOUS
  <2>3. /\ {order'[p] : p \in OnRoute(order)} = 0 .. Cardinality(OnRoute(order)) - 1
        /\ \A p, q \in OnRoute(order) \ {asked} : order[p] < order[q] => order'[p] < order'[q]
        /\ \A p \in OnRoute(order) \ {asked} : /\ order[p] < v.to => order'[p] < order'[asked]
                                               /\ order[p] > v.to => order'[asked] < order'[p]
    BY <2>1, <2>2, WriteSound
  <2> QED
    BY <2>2, <2>3
<1> QED
  BY <1>1, RouteInvInductive, PTL DEF RouteSpec, MovesOnePoint
-----------------------------------------------------------------------------
(* Notifications: types *)

Groups == (DOMAIN ReminderGroups) \cup (DOMAIN ReportSites) \cup {"inspection_alert_triggered"}
Mails == [group : Groups, to : DOMAIN Members, asset : DOMAIN Assets \cup {None}, since : Nat]
JobStates == {"waiting", "active", "queued", "failed", "stalled"}
JobRows == [kind : {"daily", "monthly", "alert"}, day : Nat, st : JobStates, stalls : Nat, mails : SUBSET Mails]
MailStates == {"waiting", "sent", "failed", "stalled"}
MailRows == [mail : Mails, st : MailStates, tries : Nat, stalls : Nat]

NotificationsTyped ==
    /\ day \in Nat
    /\ last \in [DOMAIN Assets -> Nat]
    /\ parent \in [DOMAIN StartParents -> DOMAIN StartParents \cup {None}]
    /\ cron \in {"due", "listed", "done"}
    /\ jobs \subseteq JobRows
    /\ mails \subseteq MailRows

(* A mail for a member about an asset, or about none, is a mail. *)
LEMMA MailTyped ==
    ASSUME NotificationsTyped, NEW g \in Groups, NEW m \in DOMAIN Members, NEW a \in DOMAIN Assets \cup {None}
    PROVE  /\ Mail(g, m, a) \in Mails /\ Mail(g, m, a).group = g /\ Mail(g, m, a).asset = a /\ Mail(g, m, a).to = m
           /\ Mail(g, m, a).since = IF a = None THEN day ELSE last[a]
           /\ a # None => Mail(g, m, a) = [group |-> g, to |-> m, asset |-> a, since |-> last[a]]
BY DEF Mail, Mails, NotificationsTyped

(* What a job computes. *)
LEMMA MailsOfTyped ==
    ASSUME NotificationsTyped, NEW j \in JobRows
    PROVE  MailsOf(j) \subseteq Mails
<1>1. Reminders \subseteq Mails
  BY MailTyped DEF Reminders, RemindersOf, Bucket, Groups
<1>2. Reports \subseteq Mails
  BY MailTyped DEF Reports, ReportsTo, Groups
<1>3. AlertAsset \in DOMAIN Assets
  BY NotificationsAssumption DEF AlertAsset
<1>4. AlertMails \subseteq Mails
  BY MailTyped, <1>3 DEF AlertMails, Groups
<1> QED
  BY <1>1, <1>2, <1>4 DEF MailsOf, JobRows

(* A job row with other states. *)
LEMMA JobWith ==
    ASSUME NEW j \in JobRows, NEW st \in JobStates, NEW n \in Nat, NEW M \in SUBSET Mails
    PROVE  /\ [j EXCEPT !.st = st] \in JobRows
           /\ [j EXCEPT !.st = st, !.mails = M] \in JobRows
           /\ [[j EXCEPT !.st = st, !.stalls = n] EXCEPT !.mails = M] \in JobRows
BY DEF JobRows

(* A row of the mail queue with other states. *)
LEMMA MailWith ==
    ASSUME NEW e \in MailRows, NEW st \in MailStates, NEW n \in Nat
    PROVE  /\ [e EXCEPT !.st = st] \in MailRows
           /\ [e EXCEPT !.tries = n, !.st = st] \in MailRows
           /\ [e EXCEPT !.st = st, !.stalls = n] \in MailRows
BY DEF MailRows

(* A new job. *)
LEMMA JobNew ==
    ASSUME NEW kind \in {"daily", "monthly", "alert"}, NEW d \in Nat
    PROVE  /\ Job(kind, d) \in JobRows /\ Job(kind, d).kind = kind /\ Job(kind, d).day = d
           /\ Job(kind, d).st = "waiting" /\ Job(kind, d).mails = {}
BY DEF Job, JobRows, JobStates

(* The days, jobs and mails keep their types. *)
LEMMA TypedInit == Init => NotificationsTyped
<1> SUFFICES ASSUME Init PROVE NotificationsTyped
  OBVIOUS
<1>1. last \in [DOMAIN Assets -> Nat]
  BY DEF Init, Unit
<1> QED
  BY <1>1, NotificationsAssumption DEF Init, NotificationsTyped

(* Cron and the worker of client jobs. *)
LEMMA TypedJobs ==
    ASSUME NotificationsTyped,
           \/ HandleDailyInspectionReminders \/ AddDailyJobs \/ RaiseAlert
           \/ \E j \in jobs : Process(j) \/ AddBulk(j) \/ Complete(j) \/ RetryJob(j) \/ RemoveJob(j)
    PROVE  NotificationsTyped'
<1> USE DEF NotificationsTyped
<1>1. CASE HandleDailyInspectionReminders
  BY <1>1 DEF HandleDailyInspectionReminders, world
<1>2. CASE AddDailyJobs
  <2>1. jobs' \subseteq jobs \cup {Job("daily", day), Job("monthly", day)}
    BY <1>2 DEF AddDailyJobs
  <2>2. jobs' \subseteq JobRows
    BY <2>1, JobNew
  <2> QED
    BY <1>2, <2>2 DEF AddDailyJobs, world
<1>3. CASE RaiseAlert
  <2>1. jobs' \subseteq JobRows
    BY <1>3, JobNew DEF RaiseAlert
  <2> QED
    BY <1>3, <2>1 DEF RaiseAlert
<1>4. ASSUME NEW j \in jobs, Process(j) PROVE NotificationsTyped'
  <2>1. j \in JobRows /\ MailsOf(j) \subseteq Mails
    BY MailsOfTyped
  <2>2. [j EXCEPT !.st = "failed"] \in JobRows /\ [j EXCEPT !.st = "active", !.mails = MailsOf(j)] \in JobRows
    BY <2>1, JobWith DEF JobStates
  <2>3. jobs' \subseteq JobRows
    BY <1>4, <2>2 DEF Process, Replace
  <2> QED
    BY <1>4, <2>3 DEF Process, world
<1>5. ASSUME NEW j \in jobs, AddBulk(j) PROVE NotificationsTyped'
  <2>1. j \in JobRows /\ j.mails \subseteq Mails
    BY DEF JobRows
  <2>2. [j EXCEPT !.st = "queued"] \in JobRows
    BY <2>1, JobWith DEF JobStates
  <2>3. \A m \in Mails : [mail |-> m, st |-> "waiting", tries |-> 0, stalls |-> 0] \in MailRows
    BY DEF MailRows, MailStates
  <2>4. jobs' \subseteq JobRows /\ mails' \subseteq MailRows
    BY <1>5, <2>1, <2>2, <2>3 DEF AddBulk, Replace
  <2> QED
    BY <1>5, <2>4 DEF AddBulk, world
<1>6. ASSUME NEW j \in jobs, Complete(j) \/ RemoveJob(j) PROVE NotificationsTyped'
  BY <1>6 DEF Complete, RemoveJob, world
<1>7. ASSUME NEW j \in jobs, RetryJob(j) PROVE NotificationsTyped'
  <2>1. [j EXCEPT !.st = "waiting", !.mails = {}] \in JobRows
    BY JobWith DEF JobStates
  <2>2. jobs' \subseteq JobRows
    BY <1>7, <2>1 DEF RetryJob, Replace
  <2> QED
    BY <1>7, <2>2 DEF RetryJob, world
<1> QED
  BY <1>1, <1>2, <1>3, <1>4, <1>5, <1>6, <1>7

(* The worker of the mail queue, faults, and the rest of the system. *)
LEMMA TypedRest ==
    ASSUME NotificationsTyped,
           \/ \E e \in mails : Send(e) \/ SendFails(e) \/ Sent(e)
           \/ Crash \/ CheckStalled \/ NextDay
           \/ \E r \in {"committed", "gone"} : EndInspection(r)
           \/ \E a \in DOMAIN Assets, t \in {0, Unit - 1} : Inspect(a, t)
           \/ \E m \in Moves : MoveSite(m)
           \/ UNCHANGED vars
    PROVE  NotificationsTyped'
<1> USE DEF NotificationsTyped
<1>1. ASSUME NEW e \in mails, Send(e) \/ SendFails(e) \/ Sent(e) PROVE NotificationsTyped'
  <2>1. e.tries + 1 \in Nat
    BY DEF MailRows
  <2>2. \A st \in MailStates : /\ [e EXCEPT !.st = st] \in MailRows
                               /\ [e EXCEPT !.tries = e.tries + 1, !.st = st] \in MailRows
    BY <2>1, MailWith
  <2>3. mails' \subseteq MailRows
    <3>1. CASE Send(e)
      BY <2>2, <3>1 DEF Send, Replace, MailStates
    <3>2. CASE SendFails(e)
      <4>1. PICK st \in MailStates : mails' = Replace(mails, e, [e EXCEPT !.tries = e.tries + 1, !.st = st])
        BY <3>2 DEF SendFails, MailStates
      <4> QED
        BY <2>2, <4>1 DEF Replace
    <3>3. CASE Sent(e)
      BY <3>3 DEF Sent
    <3> QED
      BY <1>1, <3>1, <3>2, <3>3
  <2> QED
    BY <1>1, <2>3 DEF Send, SendFails, Sent, world
<1>2. CASE Crash
  <2>1. \A j \in jobs : Stall(j) \in JobRows
    BY JobWith DEF Stall, JobStates
  <2>2. \A e \in mails : Stall(e) \in MailRows
    BY MailWith DEF Stall, MailStates
  <2>3. jobs' \subseteq JobRows /\ mails' \subseteq MailRows
    BY <1>2, <2>1, <2>2 DEF Crash
  <2> QED
    BY <1>2, <2>3 DEF Crash, world
<1>3. CASE CheckStalled
  <2>1. \A j \in jobs : [MoveStalled(j) EXCEPT !.mails = {}] \in JobRows
    <3> SUFFICES ASSUME NEW j \in jobs PROVE [MoveStalled(j) EXCEPT !.mails = {}] \in JobRows
      OBVIOUS
    <3>1. j.stalls + 1 \in Nat
      BY DEF JobRows
    <3>2. \A st \in JobStates : [[j EXCEPT !.st = st, !.stalls = j.stalls + 1] EXCEPT !.mails = {}] \in JobRows
      BY <3>1, JobWith
    <3> QED
      BY <3>2 DEF MoveStalled, JobStates
  <2>2. \A e \in mails : MoveStalled(e) \in MailRows
    <3> SUFFICES ASSUME NEW e \in mails PROVE MoveStalled(e) \in MailRows
      OBVIOUS
    <3>1. e.stalls + 1 \in Nat
      BY DEF MailRows
    <3>2. \A st \in MailStates : [e EXCEPT !.st = st, !.stalls = e.stalls + 1] \in MailRows
      BY <3>1, MailWith
    <3> QED
      BY <3>2 DEF MoveStalled, MailStates
  <2>3. jobs' \subseteq JobRows /\ mails' \subseteq MailRows
    BY <1>3, <2>1, <2>2 DEF CheckStalled, Replace
  <2> QED
    BY <1>3, <2>3 DEF CheckStalled, world
<1>4. CASE NextDay \/ UNCHANGED vars \/ \E r \in {"committed", "gone"} : EndInspection(r)
  BY <1>4 DEF NextDay, EndInspection, vars
<1>5. ASSUME NEW a \in DOMAIN Assets, NEW t \in {0, Unit - 1}, Inspect(a, t) PROVE NotificationsTyped'
  <2>1. Unit * day + t \in Nat
    BY DEF Unit
  <2> QED
    BY <1>5, <2>1 DEF Inspect
<1>6. ASSUME NEW m \in Moves, MoveSite(m) PROVE NotificationsTyped'
  BY <1>6, NotificationsAssumption DEF MoveSite
<1> QED
  BY <1>1, <1>2, <1>3, <1>4, <1>5, <1>6
-----------------------------------------------------------------------------
(* The last warning *)

(* The day of the last warning after an inspection at time l: 15 percent   *)
(* of the cycle, or three days, before the date that is due.               *)
DueAfter(a, l) == l + Unit * Assets[a].cycle
WarningDayAfter(a, l) == (DueAfter(a, l) - Lesser(3 * Assets[a].cycle, 3 * Unit)) \div Unit
WarningDay(a) == WarningDayAfter(a, last[a])
LastMail(m, a) == [group |-> LastWarning, to |-> m, asset |-> a, since |-> last[a]]

(* Once its day has come a warning is in the queue, or about to be         *)
(* computed, or computed and on its way into the queue.                    *)
WarningGiven(m, a) ==
    \/ LastMail(m, a) \in queued
    \/ WarningDay(a) = day /\ cron # "done"
    \/ \E j \in jobs : /\ j.kind = "daily" /\ j.day = WarningDay(a)
                       /\ (j.st = "waiting" \/ (j.st = "active" /\ LastMail(m, a) \in j.mails))
WarningsGiven ==
    excuses = {} =>
       \A a \in DOMAIN Assets, m \in DOMAIN Members :
          (LastWarning \in Members[m].groups /\ Sees(m, a) /\ WarningDay(a) <= day) => WarningGiven(m, a)

(* Whole days of a time. *)
LEMMA DivTwenty ==
    ASSUME NEW x \in Nat
    PROVE  x \div 20 \in Int /\ 20 * (x \div 20) <= x /\ x < 20 * (x \div 20) + 20
OBVIOUS

(* Fractions of a day: the warning comes on an earlier day than the date   *)
(* that is due, and never on the day of the inspection it counts from.     *)
LEMMA WarningTimes ==
    ASSUME NEW a \in DOMAIN Assets, NEW l \in Nat, NEW d \in Nat
    PROVE  /\ WarningDayAfter(a, l) \in Int
           /\ WarningDayAfter(a, l) < DueAfter(a, l) \div Unit
           /\ WarningDayAfter(a, l) >= StartDay
           /\ l >= Unit * d => WarningDayAfter(a, l) > d
           /\ DueAfter(a, l) \div Unit \in Int
<1> DEFINE c == Assets[a].cycle
           due == l + 20 * c
           w == due - Lesser(3 * c, 60)
<1>1. c \in Nat /\ c >= 7 /\ 20 * StartDay <= 17 * c /\ StartDay \in Nat
  BY NotificationsAssumption DEF MINIMUM_INSPECTION_CYCLE, Unit
<1>2. DueAfter(a, l) = due
  BY DEF DueAfter, Unit
<1>3. 3 * Unit = 60 /\ Unit = 20
  BY DEF Unit
<1>4. WarningDayAfter(a, l) = w \div 20
  BY <1>2, <1>3, Zenon DEF WarningDayAfter
<1>5. Lesser(3 * c, 60) \in Nat /\ Lesser(3 * c, 60) >= 20 /\ Lesser(3 * c, 60) <= 3 * c
  BY <1>1 DEF Lesser
<1>6. w \in Nat /\ w <= due - 20 /\ w >= l + 17 * c /\ due \in Nat
  BY <1>1, <1>5
<1> HIDE DEF c, w, due
<1>7. /\ w \div 20 \in Int /\ 20 * (w \div 20) <= w /\ w < 20 * (w \div 20) + 20
      /\ due \div 20 \in Int /\ due < 20 * (due \div 20) + 20
  BY <1>6, DivTwenty
<1>8. w \div 20 < due \div 20
  BY <1>6, <1>7
<1>9. w \div 20 >= StartDay /\ (l >= 20 * d => w \div 20 > d)
  BY <1>1, <1>6, <1>7
<1> QED
  BY <1>2, <1>3, <1>4, <1>7, <1>8, <1>9

(* The last warning has the smallest share: when its day comes it is the   *)
(* one that is mailed.                                                     *)
LEMMA LastWarningMailed ==
    ASSUME NotificationsTyped, NEW a \in DOMAIN Assets, NEW m \in DOMAIN Members,
           LastWarning \in Members[m].groups, Sees(m, a), WarningDay(a) = day
    PROVE  LastMail(m, a) \in Reminders
<1>1. /\ DOMAIN ReminderGroups = {"inspection_reminder", "inspection_due_soon_alert_level_1",
            "inspection_due_soon_alert_level_2", "inspection_due_soon_alert_level_3", LastWarning}
      /\ ReminderGroups[LastWarning].pct = 3 /\ ReminderGroups[LastWarning].days = 3
  BY DEF ReminderGroups, LastWarning
<1>2. \A h \in DOMAIN ReminderGroups : ReminderGroups[h].pct \in Nat /\ 3 <= ReminderGroups[h].pct
  BY DEF ReminderGroups
<1>3. Assets[a].cycle * 3 = 3 * Assets[a].cycle /\ Unit * 3 = 3 * Unit
  BY NotificationsAssumption DEF Unit
<1>4. IsThresholdMetToday(a, LastWarning)
  BY <1>1, <1>3 DEF IsThresholdMetToday, WarningDay, WarningDayAfter, DueAfter, Due
<1>5. LastWarning \in Bucket(a)
  BY <1>1, <1>2, <1>4 DEF Bucket
<1>6. LastMail(m, a) = Mail(LastWarning, m, a)
  BY NotificationsAssumption DEF LastMail, Mail
<1>7. LastMail(m, a) \in RemindersOf(m, a)
  BY <1>5, <1>6 DEF RemindersOf
<1> QED
  BY <1>7 DEF Reminders

(* A step that leaves days, inspections and sites alone, and drops no      *)
(* daily job before its mails are queued.                                  *)
LEMMA WarningsKept ==
    ASSUME WarningsGiven, UNCHANGED <<day, last, parent, cron>>, excuses \subseteq excuses', queued \subseteq queued',
           \A j \in jobs : j.kind = "daily" =>
              /\ j.st = "waiting" => j \in jobs'
              /\ j.st = "active" => j \in jobs' \/ j.mails \subseteq queued'
    PROVE  WarningsGiven'
<1> SUFFICES ASSUME excuses = {}, NEW a \in DOMAIN Assets, NEW m \in DOMAIN Members,
                    LastWarning \in Members[m].groups, Sees(m, a)', WarningDay(a)' <= day'
             PROVE  WarningGiven(m, a)'
  BY DEF WarningsGiven
<1>1. Sees(m, a) /\ WarningDay(a)' = WarningDay(a) /\ LastMail(m, a)' = LastMail(m, a)
  BY DEF Sees, WarningDay, LastMail
<1>2. WarningGiven(m, a)
  BY <1>1 DEF WarningsGiven
<1> HIDE DEF LastMail, WarningDay
<1> QED
  BY <1>1, <1>2 DEF WarningGiven

(* At first, no warning's day has passed. *)
LEMMA WarningsInit == Init => WarningsGiven
<1> SUFFICES ASSUME Init, NEW a \in DOMAIN Assets, NEW m \in DOMAIN Members, WarningDay(a) <= day
             PROVE  WarningGiven(m, a)
  BY DEF WarningsGiven
<1>1. last[a] \in Nat /\ day = StartDay /\ day \in Nat /\ cron = "due"
  BY TypedInit DEF NotificationsTyped, Init
<1>2. WarningDay(a) \in Int /\ WarningDay(a) >= day
  BY <1>1, WarningTimes DEF WarningDay
<1> QED
  BY <1>1, <1>2 DEF WarningGiven

(* Cron and the worker: the job of the day computes the warnings of the day. *)
LEMMA WarningsJobs ==
    ASSUME NotificationsTyped, WarningsGiven,
           \/ HandleDailyInspectionReminders \/ AddDailyJobs \/ RaiseAlert
           \/ \E j \in jobs : Process(j) \/ AddBulk(j) \/ Complete(j) \/ RetryJob(j) \/ RemoveJob(j)
    PROVE  WarningsGiven'
<1>1. CASE HandleDailyInspectionReminders \/ AddDailyJobs
  <2> SUFFICES ASSUME excuses' = {}, NEW a \in DOMAIN Assets, NEW m \in DOMAIN Members,
                      LastWarning \in Members[m].groups, Sees(m, a)', WarningDay(a)' <= day'
               PROVE  WarningGiven(m, a)'
    BY DEF WarningsGiven
  <2>1. UNCHANGED <<day, last, parent, queued, excuses>> /\ jobs \subseteq jobs'
    BY <1>1 DEF HandleDailyInspectionReminders, AddDailyJobs, world
  <2>2. Sees(m, a) /\ WarningDay(a)' = WarningDay(a) /\ LastMail(m, a)' = LastMail(m, a)
    BY <2>1 DEF Sees, WarningDay, LastMail
  <2>3. WarningGiven(m, a)
    BY <2>1, <2>2 DEF WarningsGiven
  <2>4. CASE HandleDailyInspectionReminders
    BY <2>1, <2>2, <2>3, <2>4 DEF WarningGiven, HandleDailyInspectionReminders
  <2>5. CASE AddDailyJobs
    <3>1. Job("daily", day) \in jobs' /\ Job("daily", day).kind = "daily" /\ Job("daily", day).day = day
          /\ Job("daily", day).st = "waiting"
      BY <2>5, JobNew DEF AddDailyJobs, NotificationsTyped
    <3> QED
      BY <2>1, <2>2, <2>3, <3>1 DEF WarningGiven
  <2> QED
    BY <1>1, <2>4, <2>5
<1>2. CASE RaiseAlert
  BY <1>2, WarningsKept DEF RaiseAlert
<1>3. ASSUME NEW j \in jobs, Process(j) PROVE WarningsGiven'
  <2> SUFFICES ASSUME excuses' = {}, NEW a \in DOMAIN Assets, NEW m \in DOMAIN Members,
                      LastWarning \in Members[m].groups, Sees(m, a)', WarningDay(a)' <= day'
               PROVE  WarningGiven(m, a)'
    BY DEF WarningsGiven
  <2>1. UNCHANGED <<day, last, parent, queued, cron>> /\ excuses = {} /\ j.day = day /\ ~Cyclic(parent)
    BY <1>3 DEF Process, world
  <2>2. Sees(m, a) /\ WarningDay(a)' = WarningDay(a) /\ LastMail(m, a)' = LastMail(m, a)
    BY <2>1 DEF Sees, WarningDay, LastMail
  <2>3. WarningGiven(m, a)
    BY <2>1, <2>2 DEF WarningsGiven
  <2>4. PICK k : jobs' = Replace(jobs, j, k) /\ k = [j EXCEPT !.st = "active", !.mails = MailsOf(j)]
    BY <1>3, <2>1 DEF Process
  <2>5. j \in JobRows /\ k.kind = j.kind /\ k.day = j.day /\ k.st = "active" /\ k.mails = MailsOf(j)
    BY <2>4 DEF JobRows, NotificationsTyped
  <2>6. CASE j.kind = "daily" /\ j.day = WarningDay(a)
    <3>1. LastMail(m, a) \in MailsOf(j)
      BY <2>1, <2>2, <2>6, LastWarningMailed DEF MailsOf
    <3> QED
      BY <2>2, <2>4, <2>5, <2>6, <3>1 DEF WarningGiven, Replace
  <2>7. CASE ~(j.kind = "daily" /\ j.day = WarningDay(a))
    BY <2>1, <2>2, <2>3, <2>4, <2>7 DEF WarningGiven, Replace
  <2> QED
    BY <2>6, <2>7
<1>4. ASSUME NEW j \in jobs, AddBulk(j) PROVE WarningsGiven'
  <2>1. \A k \in jobs : k # j => k \in jobs'
    BY <1>4 DEF AddBulk, Replace
  <2> QED
    BY <1>4, <2>1, WarningsKept DEF AddBulk, world
<1>5. ASSUME NEW j \in jobs, Complete(j) PROVE WarningsGiven'
  BY <1>5, WarningsKept DEF Complete, world
<1>6. ASSUME NEW j \in jobs, RetryJob(j) \/ RemoveJob(j) PROVE WarningsGiven'
  BY <1>6 DEF RetryJob, RemoveJob, WarningsGiven
<1> QED
  BY <1>1, <1>2, <1>3, <1>4, <1>5, <1>6

(* The mail queue, faults, and the rest: an inspection moves the warning   *)
(* to a later day.                                                         *)
LEMMA WarningsRest ==
    ASSUME NotificationsTyped, NotificationsTyped', WarningsGiven,
           \/ \E e \in mails : Send(e) \/ SendFails(e) \/ Sent(e)
           \/ Crash \/ CheckStalled \/ NextDay
           \/ \E r \in {"committed", "gone"} : EndInspection(r)
           \/ \E a \in DOMAIN Assets, t \in {0, Unit - 1} : Inspect(a, t)
           \/ \E m \in Moves : MoveSite(m)
           \/ UNCHANGED vars
    PROVE  WarningsGiven'
<1>1. CASE \E e \in mails : Send(e) \/ SendFails(e) \/ Sent(e)
  <2>1. UNCHANGED <<day, last, parent, cron, jobs, queued, excuses>>
    BY <1>1 DEF Send, SendFails, Sent, world
  <2> QED
    BY <2>1, WarningsKept
<1>2. CASE UNCHANGED vars \/ \E r \in {"committed", "gone"} : EndInspection(r)
  <2>1. UNCHANGED <<day, last, parent, cron, jobs, queued, excuses>>
    BY <1>2 DEF EndInspection, vars
  <2> QED
    BY <2>1, WarningsKept
<1>3. CASE CheckStalled
  <2>1. \A j \in jobs : j.st \in {"waiting", "active"} => j \in jobs'
    BY <1>3 DEF CheckStalled, Replace
  <2> QED
    BY <1>3, <2>1, WarningsKept DEF CheckStalled, world
<1>4. CASE Crash \/ \E m \in Moves : MoveSite(m)
  BY <1>4 DEF Crash, MoveSite, WarningsGiven
<1>5. CASE NextDay
  <2> SUFFICES ASSUME excuses = {}, NEW a \in DOMAIN Assets, NEW m \in DOMAIN Members,
                      LastWarning \in Members[m].groups, Sees(m, a)', WarningDay(a)' <= day'
               PROVE  WarningGiven(m, a)'
    BY <1>5 DEF WarningsGiven, NextDay
  <2>1. UNCHANGED <<last, parent, queued, jobs>> /\ cron = "done" /\ cron' = "due" /\ day' = day + 1
    BY <1>5 DEF NextDay
  <2>2. Sees(m, a) /\ WarningDay(a)' = WarningDay(a) /\ LastMail(m, a)' = LastMail(m, a)
    BY <2>1 DEF Sees, WarningDay, LastMail
  <2>3. WarningDay(a) \in Int /\ day \in Nat
    BY WarningTimes DEF WarningDay, NotificationsTyped
  <2>4. WarningDay(a) <= day \/ WarningDay(a) = day'
    BY <2>1, <2>2, <2>3
  <2>5. CASE WarningDay(a) <= day
    <3>1. WarningGiven(m, a)
      BY <2>2, <2>5 DEF WarningsGiven
    <3> QED
      BY <2>1, <2>2, <3>1 DEF WarningGiven
  <2> QED
    BY <2>1, <2>2, <2>4, <2>5 DEF WarningGiven
<1>6. ASSUME NEW b \in DOMAIN Assets, NEW t \in {0, Unit - 1}, Inspect(b, t) PROVE WarningsGiven'
  <2> SUFFICES ASSUME excuses = {}, NEW a \in DOMAIN Assets, NEW m \in DOMAIN Members,
                      LastWarning \in Members[m].groups, Sees(m, a)', WarningDay(a)' <= day'
               PROVE  WarningGiven(m, a)'
    BY <1>6 DEF WarningsGiven, Inspect
  <2>1. UNCHANGED <<day, parent, queued, jobs, cron>> /\ last' = [last EXCEPT ![b] = Unit * day + t]
    BY <1>6 DEF Inspect
  <2>2. CASE a = b
    <3>1. last'[a] \in Nat /\ last'[a] >= Unit * day /\ day \in Nat
      BY <2>1, <2>2 DEF NotificationsTyped, Unit
    <3>2. WarningDay(a)' \in Int /\ WarningDay(a)' > day
      BY <3>1, WarningTimes DEF WarningDay
    <3> QED
      BY <2>1, <3>1, <3>2
  <2>3. CASE a # b
    <3>1. last'[a] = last[a]
      BY <2>1, <2>3 DEF NotificationsTyped
    <3>2. Sees(m, a) /\ WarningDay(a)' = WarningDay(a) /\ LastMail(m, a)' = LastMail(m, a)
      BY <2>1, <3>1 DEF Sees, WarningDay, LastMail
    <3>3. WarningGiven(m, a)
      BY <2>1, <3>2 DEF WarningsGiven
    <3> QED
      BY <2>1, <3>2, <3>3 DEF WarningGiven
  <2> QED
    BY <2>2, <2>3
<1> QED
  BY <1>1, <1>2, <1>3, <1>4, <1>5, <1>6

(* A step of any kind. *)
LEMMA StepsOfNext ==
    ASSUME [Next]_vars
    PROVE  \/ \/ HandleDailyInspectionReminders \/ AddDailyJobs \/ RaiseAlert
              \/ \E j \in jobs : Process(j) \/ AddBulk(j) \/ Complete(j) \/ RetryJob(j) \/ RemoveJob(j)
           \/ \/ \E e \in mails : Send(e) \/ SendFails(e) \/ Sent(e)
              \/ Crash \/ CheckStalled \/ NextDay
              \/ \E r \in {"committed", "gone"} : EndInspection(r)
              \/ \E a \in DOMAIN Assets, t \in {0, Unit - 1} : Inspect(a, t)
              \/ \E m \in Moves : MoveSite(m)
              \/ UNCHANGED vars
BY DEF Next, Worker, Mailer

-----------------------------------------------------------------------------
(* Within reach *)

(* A scope of the hierarchy has a rank. *)
LEMMA ScopeRanked ==
    ASSUME NEW scope, \E r \in DOMAIN SCOPE_HIERARCHY : SCOPE_HIERARCHY[r] = scope
    PROVE  ScopeRank(scope) \in Nat
BY DEF ScopeRank, SCOPE_HIERARCHY

(* The row that reduceAccessGrants picks is one of the member's rows: the  *)
(* last of those with the most permissive scope.                           *)
LEMMA ReducedIsARow ==
    ASSUME NEW table, NEW n \in Nat \ {0}, DOMAIN table = 1 .. n,
           \A i \in 1 .. n : \E r \in DOMAIN SCOPE_HIERARCHY : SCOPE_HIERARCHY[r] = table[i].scope
    PROVE  \E i \in DOMAIN table : Reduced(table) = table[i]
<1> DEFINE rank(i) == ScopeRank(table[i].scope)
           Ranks == {rank(i) : i \in 1 .. n}
<1>1. \A i \in 1 .. n : rank(i) \in Nat
  BY ScopeRanked
<1>2. Ranks \subseteq Nat /\ Ranks # {}
  <2>1. 1 \in 1 .. n
    OBVIOUS
  <2> QED
    BY <1>1, <2>1
<1>3. PICK r \in Ranks : \A q \in Ranks : r <= q
  <2> HIDE DEF Ranks
  <2> QED
    BY <1>2, LeastNumber
<1> DEFINE Gaps == {n - i : i \in {k \in 1 .. n : rank(k) = r}}
<1>4. Gaps \subseteq Nat /\ Gaps # {}
  BY <1>3
<1>5. PICK g \in Gaps : \A h \in Gaps : g <= h
  <2> HIDE DEF Gaps
  <2> QED
    BY <1>4, LeastNumber
<1>6. PICK i \in 1 .. n : rank(i) = r /\ g = n - i
  BY <1>5
<1>7. \A k \in 1 .. n : rank(i) <= rank(k)
  BY <1>3, <1>6
<1>8. \A k \in 1 .. n : k > i => rank(k) # rank(i)
  <2> SUFFICES ASSUME NEW k \in 1 .. n, k > i, rank(k) = r PROVE FALSE
    BY <1>6
  <2>1. n - k \in Gaps
    OBVIOUS
  <2>2. n - i <= n - k
    BY <1>5, <1>6, <2>1
  <2> QED
    BY <2>2
<1>9. \A k \in 1 .. n : k > i => ~(rank(k) <= rank(i))
  <2> SUFFICES ASSUME NEW k \in 1 .. n, k > i, rank(k) <= rank(i) PROVE FALSE
    OBVIOUS
  <2>1. rank(k) \in Nat /\ rank(i) \in Nat /\ rank(i) <= rank(k) /\ rank(k) # rank(i)
    BY <1>1, <1>7, <1>8
  <2> HIDE DEF rank
  <2> QED
    BY <2>1
<1> DEFINE Best(x) == \A k \in DOMAIN table :
             /\ ScopeAtLeast(table[x].scope, table[k].scope)
             /\ k > x => ~ScopeAtLeast(table[k].scope, table[x].scope)
<1>10. Best(i)
  BY <1>7, <1>9 DEF ScopeAtLeast
<1>11. Reduced(table) = table[CHOOSE x \in DOMAIN table : Best(x)]
  BY DEF Reduced
<1>12. (CHOOSE x \in DOMAIN table : Best(x)) \in DOMAIN table
  <2> HIDE DEF Best
  <2> QED
    BY <1>6, <1>10
<1> QED
  BY <1>11, <1>12

(* Down the tree and up again: a site is above its descendants. *)
LEMMA AboveDescendants ==
    ASSUME NEW S, None \notin S, NEW up \in [S -> S \cup {None}], NEW g \in S, NEW s \in Descendants(up, g)
    PROVE  g \in Above(up, s)
<1>1. s \in S /\ DOMAIN up = S
  BY DEF Descendants
<1> SUFFICES ASSUME NEW T \in SUBSET S, \A t \in T \cup {s} : up[t] \in T \cup {None}, g \notin T
             PROVE  FALSE
  BY <1>1 DEF Above
<1> DEFINE Rest == S \ (T \cup {s})
<1>2. Subsites(up, Rest \cup {g}) \subseteq Rest
  <2> SUFFICES ASSUME NEW t \in S, up[t] \in Rest \cup {g}, t \in T \cup {s} PROVE FALSE
    BY <1>1 DEF Subsites
  <2>1. up[t] \in T
    BY <1>1
  <2> QED
    BY <2>1
<1>3. Rest \in SUBSET DOMAIN up
  BY <1>1
<1>4. s \in Rest
  BY <1>2, <1>3 DEF Descendants
<1> QED
  BY <1>4

(* What a member sees, one of the rows reaches (getVisibleSiteIds). *)
LEMMA VisibleIsReached ==
    ASSUME NotificationsTyped, NEW m \in DOMAIN Members, NEW a \in DOMAIN Assets, Sees(m, a)
    PROVE  \E i \in DOMAIN Members[m].rows : Reaches(parent, Members[m].rows[i], Assets[a].site)
<1> DEFINE table == Members[m].rows
           S == DOMAIN StartParents
           n == Len(table)
<1>1. n \in Nat \ {0} /\ DOMAIN table = 1 .. n /\ Assets[a].site \in S /\ None \notin S
  BY NotificationsAssumption
<1>2. \A i \in 1 .. n : table[i].site \in S /\ \E r \in DOMAIN SCOPE_HIERARCHY : SCOPE_HIERARCHY[r] = table[i].scope
  BY <1>1, NotificationsAssumption
<1>3. Assets[a].site \in VisibleSites(parent, table) /\ parent \in [S -> S \cup {None}]
  BY DEF Sees, NotificationsTyped
<1> HIDE DEF S, n, table
<1>4. PICK i \in DOMAIN table : Reduced(table) = table[i]
  BY <1>1, <1>2, ReducedIsARow
<1> DEFINE g == table[i]
<1>5. g.site \in S /\ Reduced(table) = g
  BY <1>1, <1>2, <1>4
<1>6. CASE ScopeAtLeast(g.scope, "CLIENT")
  BY <1>4, <1>6 DEF Reaches, table
<1>7. CASE ~ScopeAtLeast(g.scope, "CLIENT") /\ g.scope = "SITE_GROUP"
  <2>1. Assets[a].site = g.site \/ Assets[a].site \in Descendants(parent, g.site)
    BY <1>3, <1>5, <1>7 DEF VisibleSites
  <2>2. Assets[a].site = g.site \/ g.site \in Above(parent, Assets[a].site)
    BY <2>1, <1>1, <1>3, <1>5, AboveDescendants
  <2>3. Reaches(parent, g, Assets[a].site)
    BY <1>7, <2>2 DEF Reaches
  <2> QED
    BY <1>4, <2>3 DEF table
<1>8. CASE ~ScopeAtLeast(g.scope, "CLIENT") /\ g.scope = "SITE"
  <2>1. Assets[a].site = g.site
    BY <1>3, <1>5, <1>8 DEF VisibleSites
  <2>2. Reaches(parent, g, Assets[a].site)
    BY <1>8, <2>1 DEF Reaches
  <2> QED
    BY <1>4, <2>2 DEF table
<1>9. CASE ~ScopeAtLeast(g.scope, "CLIENT") /\ g.scope # "SITE_GROUP" /\ g.scope # "SITE"
  <2>1. VisibleSites(parent, table) = {}
    BY <1>5, <1>9 DEF VisibleSites
  <2> QED
    BY <1>3, <2>1
<1> QED
  BY <1>6, <1>7, <1>8, <1>9

(* The mails of a job that name an asset go to members who see it. *)
LEMMA MailsSeen ==
    ASSUME NotificationsTyped, NEW j \in JobRows, NEW x \in MailsOf(j), x.asset # None
    PROVE  x.to \in DOMAIN Members /\ x.asset \in DOMAIN Assets /\ Sees(x.to, x.asset)
<1>1. AlertAsset \in DOMAIN Assets
  BY NotificationsAssumption DEF AlertAsset
<1>2. CASE x \in Reminders
  <2>1. PICK m \in DOMAIN Members, a \in DOMAIN Assets : x \in RemindersOf(m, a)
    BY <1>2 DEF Reminders
  <2>2. PICK g \in Bucket(a) : x = Mail(g, m, a) /\ Sees(m, a)
    BY <2>1 DEF RemindersOf
  <2>3. x.to = m /\ x.asset = a
    BY <2>2 DEF Mail
  <2> QED
    BY <2>2, <2>3
<1>3. CASE x \in Reports
  <2>1. x.asset = None
    BY <1>3 DEF Reports, ReportsTo, Mail
  <2> QED
    BY <2>1
<1>4. CASE x \in AlertMails
  <2>1. PICK m \in DOMAIN Members : x = Mail("inspection_alert_triggered", m, AlertAsset) /\ Sees(m, AlertAsset)
    BY <1>4 DEF AlertMails
  <2>2. x.to = m /\ x.asset = AlertAsset
    BY <2>1 DEF Mail
  <2> QED
    BY <1>1, <2>1, <2>2
<1> QED
  BY <1>2, <1>3, <1>4 DEF MailsOf, JobRows

(* What a step adds to the queue of client jobs. *)
LEMMA JobsAdded ==
    ASSUME NotificationsTyped, [Next]_vars, NEW k \in jobs' \ jobs, k.st = "active"
    PROVE  \E j \in jobs : k.mails = MailsOf(j)
<1> USE DEF NotificationsTyped
<1>1. ASSUME NEW j \in jobs, Process(j) PROVE k.mails = MailsOf(j)
  <2>1. j \in JobRows
    OBVIOUS
  <2>2. k = [j EXCEPT !.st = "failed"] \/ k = [j EXCEPT !.st = "active", !.mails = MailsOf(j)]
    BY <1>1 DEF Process, Replace
  <2>3. k # [j EXCEPT !.st = "failed"]
    BY <2>1 DEF JobRows
  <2> QED
    BY <2>1, <2>2, <2>3 DEF JobRows
<1>2. ASSUME NEW j \in jobs, AddBulk(j) \/ RetryJob(j) PROVE FALSE
  <2>1. j \in JobRows
    OBVIOUS
  <2>2. k = [j EXCEPT !.st = "queued"] \/ k = [j EXCEPT !.st = "waiting", !.mails = {}]
    BY <1>2 DEF AddBulk, RetryJob, Replace
  <2> QED
    BY <2>1, <2>2 DEF JobRows
<1>3. CASE AddDailyJobs \/ RaiseAlert
  <2>1. \E kind : k = Job(kind, day)
    BY <1>3 DEF AddDailyJobs, RaiseAlert
  <2> QED
    BY <2>1 DEF Job
<1>4. CASE Crash
  <2>1. PICK j \in jobs : k = Stall(j)
    BY <1>4 DEF Crash
  <2>2. j \in JobRows
    OBVIOUS
  <2> QED
    BY <2>1, <2>2 DEF Stall, JobRows
<1>5. CASE CheckStalled
  <2>1. PICK j \in jobs : k = [MoveStalled(j) EXCEPT !.mails = {}]
    BY <1>5 DEF CheckStalled, Replace
  <2>2. j \in JobRows
    OBVIOUS
  <2> QED
    BY <2>1, <2>2 DEF MoveStalled, JobRows
<1>6. CASE \/ HandleDailyInspectionReminders \/ NextDay \/ UNCHANGED vars
           \/ \E j \in jobs : Complete(j) \/ RemoveJob(j)
           \/ \E e \in mails : Send(e) \/ SendFails(e) \/ Sent(e)
           \/ \E r \in {"committed", "gone"} : EndInspection(r)
           \/ \E a \in DOMAIN Assets, t \in {0, Unit - 1} : Inspect(a, t)
           \/ \E m \in Moves : MoveSite(m)
  <2>1. jobs' \subseteq jobs
    BY <1>6 DEF HandleDailyInspectionReminders, NextDay, vars, Complete, RemoveJob, Send, SendFails, Sent,
                EndInspection, Inspect, MoveSite
  <2> QED
    BY <2>1
<1> QED
  BY StepsOfNext, <1>1, <1>2, <1>3, <1>4, <1>5, <1>6

(* A step computes mails only within their reader's reach. *)
LEMMA ReachStep ==
    ASSUME NotificationsTyped, [Next]_vars, NEW k \in jobs' \ jobs, k.st = "active",
           NEW x \in k.mails, x.asset # None
    PROVE  \E i \in DOMAIN Members[x.to].rows : Reaches(parent, Members[x.to].rows[i], Assets[x.asset].site)
<1>1. PICK j \in jobs : k.mails = MailsOf(j)
  BY JobsAdded
<1>2. x.to \in DOMAIN Members /\ x.asset \in DOMAIN Assets /\ Sees(x.to, x.asset)
  BY <1>1, MailsSeen DEF NotificationsTyped
<1> QED
  BY <1>2, VisibleIsReached
-----------------------------------------------------------------------------
(* Nothing lost, and nothing twice *)

(* A mail is kept until the provider has taken it. *)
Kept == NothingLost /\ \A e \in mails : e.st = "sent" => e.mail \in delivered

Calm == excuses \cap {"crash", "retried", "late"} = {}

(* The job a mail comes from, which its words tell: a reminder is computed *)
(* on the one day its threshold is met on.                                 *)
Kind(x) ==
    IF x.group = "inspection_alert_triggered" THEN "alert"
    ELSE IF x.group \in DOMAIN ReminderGroups THEN "daily" ELSE "monthly"
ThresholdDay(g, a, l) ==
    LET pct == Assets[a].cycle * ReminderGroups[g].pct
        days == Unit * ReminderGroups[g].days
    IN (l + Unit * Assets[a].cycle - Lesser(pct, days)) \div Unit
OriginDay(x) ==
    IF Kind(x) = "alert" THEN StartDay
    ELSE IF Kind(x) = "daily" THEN ThresholdDay(x.group, x.asset, x.since) ELSE x.since
From(x, j) == Kind(x) = j.kind /\ OriginDay(x) = j.day

(* The jobs of cron and of the alert that have been added so far. *)
Added(kind, d) ==
    /\ d \in Int /\ d <= day
    /\ kind = "alert" => alert # "none" /\ d = StartDay
    /\ (kind # "alert" /\ d = day) => cron = "done"

(* There is one job of a kind and a day; its mails are its own, and none   *)
(* of them is queued before the job has queued them all.                   *)
JobsOnce ==
    /\ \A j \in jobs : /\ j.st # "stalled" /\ Added(j.kind, j.day)
                       /\ \A x \in j.mails : From(x, j)
                       /\ j.st \in {"waiting", "active"} => \A x \in queued : ~From(x, j)
    /\ \A j, k \in jobs : (j.kind = k.kind /\ j.day = k.day) => j = k
    /\ \A x \in queued : Added(Kind(x), OriginDay(x))

(* There is one row of a mail, and it is taken once. *)
MailsOnce ==
    /\ \A e \in mails : /\ e.st # "stalled" /\ e.mail \in queued
                        /\ e.st # "sent" => e.mail \notin delivered
    /\ \A e, f \in mails : e.mail = f.mail => e = f
    /\ delivered \subseteq queued
    /\ again = {}

SentOnce == Calm => (JobsOnce /\ MailsOnce)

(* The three kinds of groups are different. *)
LEMMA KindsOfGroups ==
    /\ "inspection_alert_triggered" \notin DOMAIN ReminderGroups
    /\ DOMAIN ReportSites = {"monthly_compliance_report", "monthly_consumables_report"}
    /\ "monthly_compliance_report" \notin DOMAIN ReminderGroups
    /\ "monthly_consumables_report" \notin DOMAIN ReminderGroups
BY DEF ReminderGroups, ReportSites

(* A job that runs on its day computes mails of that job. *)
LEMMA MailsFromJob ==
    ASSUME NotificationsTyped, NEW j \in JobRows, j.day = day, j.kind = "alert" => j.day = StartDay,
           NEW x \in MailsOf(j)
    PROVE  From(x, j)
<1>1. CASE j.kind = "daily"
  <2>1. PICK m \in DOMAIN Members, a \in DOMAIN Assets : x \in RemindersOf(m, a)
    BY <1>1 DEF MailsOf, Reminders
  <2>2. PICK g \in Bucket(a) : x = Mail(g, m, a)
    BY <2>1 DEF RemindersOf
  <2>3. g \in DOMAIN ReminderGroups /\ IsThresholdMetToday(a, g)
    BY DEF Bucket
  <2>4. x.group = g /\ x.asset = a /\ x.since = last[a]
    BY <2>2, NotificationsAssumption DEF Mail
  <2>5. Kind(x) = "daily"
    BY <2>3, <2>4, KindsOfGroups DEF Kind
  <2>6. ThresholdDay(x.group, x.asset, x.since) = day
    <3>1. ThresholdDay(x.group, x.asset, x.since) = ThresholdDay(g, a, last[a])
      BY <2>4
    <3>2. ThresholdDay(g, a, last[a]) = day
      <4> DEFINE p == Assets[a].cycle * ReminderGroups[g].pct
                 d == Unit * ReminderGroups[g].days
      <4>1. (Due(a) - Lesser(p, d)) \div Unit = day
        BY <2>3 DEF IsThresholdMetToday
      <4>2. ThresholdDay(g, a, last[a]) = (last[a] + Unit * Assets[a].cycle - Lesser(p, d)) \div Unit
        BY DEF ThresholdDay
      <4>3. Due(a) = last[a] + Unit * Assets[a].cycle
        BY DEF Due
      <4>4. Assets[a].cycle \in Nat /\ last[a] \in Nat
        BY NotificationsAssumption DEF NotificationsTyped
      <4>5. ReminderGroups[g].pct \in Nat /\ ReminderGroups[g].days \in Nat
        BY <2>3 DEF ReminderGroups
      <4>6. p \in Nat /\ d \in Nat /\ Due(a) \in Nat
        BY <4>3, <4>4, <4>5 DEF Unit
      <4> HIDE DEF p, d
      <4>7. Lesser(p, d) \in Nat
        BY <4>6 DEF Lesser
      <4> QED
        BY <4>1, <4>2, <4>3, <4>4, <4>6, <4>7 DEF Unit
    <3> QED
      BY <3>1, <3>2
  <2> QED
    BY <1>1, <2>5, <2>6 DEF From, OriginDay
<1>2. CASE j.kind = "monthly"
  <2>1. PICK g \in DOMAIN ReportSites, m \in DOMAIN Members : x = Mail(g, m, None)
    BY <1>2 DEF MailsOf, Reports, ReportsTo
  <2>2. x.group = g /\ x.since = day
    BY <2>1 DEF Mail
  <2>3. Kind(x) = "monthly"
    BY <2>2, KindsOfGroups DEF Kind
  <2> QED
    BY <1>2, <2>2, <2>3 DEF From, OriginDay
<1>3. CASE j.kind = "alert"
  <2>1. x.group = "inspection_alert_triggered"
    BY <1>3 DEF MailsOf, AlertMails, Mail
  <2> QED
    BY <1>3, <2>1 DEF From, OriginDay, Kind
<1> QED
  BY <1>1, <1>2, <1>3 DEF JobRows

(* Nothing is lost: a row leaves the queue of mails when the provider has  *)
(* taken its mail.                                                         *)
LEMMA KeptStep == NotificationsTyped /\ Kept /\ [Next]_vars => Kept'
<1> SUFFICES ASSUME NotificationsTyped, Kept, [Next]_vars PROVE Kept'
  OBVIOUS
<1> USE DEF Kept, NothingLost
<1>0. \A e \in mails : e \in MailRows
  BY DEF NotificationsTyped
<1>1. ASSUME NEW j \in jobs, AddBulk(j) PROVE Kept'
  <2>1. \A x \in j.mails : \E e \in mails' : e.mail = x
    <3> SUFFICES ASSUME NEW x \in j.mails PROVE \E e \in mails' : e.mail = x
      OBVIOUS
    <3>1. [mail |-> x, st |-> "waiting", tries |-> 0, stalls |-> 0] \in mails'
      BY <1>1 DEF AddBulk
    <3> QED
      BY <3>1
  <2>2. \A e \in mails' : e \in mails \/ e.st = "waiting"
    BY <1>1 DEF AddBulk
  <2> QED
    BY <1>1, <2>1, <2>2 DEF AddBulk
<1>2. ASSUME NEW e \in mails, Send(e) PROVE Kept'
  <2>1. [e EXCEPT !.st = "sent"].mail = e.mail
    BY <1>0 DEF MailRows
  <2> QED
    BY <1>2, <2>1 DEF Send, Replace
<1>3. ASSUME NEW e \in mails, SendFails(e) PROVE Kept'
  <2>0. PICK st \in {"waiting", "failed"} : mails' = Replace(mails, e, [e EXCEPT !.tries = e.tries + 1, !.st = st])
    BY <1>3 DEF SendFails
  <2> DEFINE f == [e EXCEPT !.tries = e.tries + 1, !.st = st]
  <2>1. mails' = Replace(mails, e, f) /\ f.mail = e.mail /\ f.st # "sent"
    BY <1>0, <2>0 DEF MailRows
  <2> HIDE DEF f
  <2> QED
    BY <1>3, <2>1 DEF SendFails, Replace
<1>4. ASSUME NEW e \in mails, Sent(e) PROVE Kept'
  BY <1>4 DEF Sent
<1>5. CASE Crash
  <2>1. \A e \in mails : Stall(e).mail = e.mail /\ Stall(e).st # "sent"
    BY <1>0 DEF Stall, MailRows
  <2>2. \A x \in {e.mail : e \in mails} : \E f \in mails' : f.mail = x
    BY <1>5, <2>1 DEF Crash
  <2>3. \A f \in mails' : f.st # "sent"
    BY <1>5, <2>1 DEF Crash
  <2> QED
    BY <1>5, <2>2, <2>3 DEF Crash
<1>6. CASE CheckStalled
  <2>1. CASE UNCHANGED mails
    BY <1>6, <2>1 DEF CheckStalled
  <2>2. CASE ~UNCHANGED mails
    <3>1. PICK e \in mails : mails' = Replace(mails, e, MoveStalled(e)) /\ e.st = "stalled"
      BY <1>6, <2>2 DEF CheckStalled
    <3>2. MoveStalled(e).mail = e.mail /\ MoveStalled(e).st # "sent"
      BY <1>0 DEF MoveStalled, MailRows
    <3> QED
      BY <1>6, <3>1, <3>2 DEF CheckStalled, Replace
  <2> QED
    BY <2>1, <2>2
<1>7. CASE \/ HandleDailyInspectionReminders \/ AddDailyJobs \/ RaiseAlert \/ NextDay \/ UNCHANGED vars
           \/ \E j \in jobs : Process(j) \/ Complete(j) \/ RetryJob(j) \/ RemoveJob(j)
           \/ \E r \in {"committed", "gone"} : EndInspection(r)
           \/ \E a \in DOMAIN Assets, t \in {0, Unit - 1} : Inspect(a, t)
           \/ \E m \in Moves : MoveSite(m)
  <2>1. UNCHANGED <<mails, queued, delivered>>
    BY <1>7 DEF HandleDailyInspectionReminders, AddDailyJobs, RaiseAlert, NextDay, vars, Process, Complete,
                RetryJob, RemoveJob, EndInspection, Inspect, MoveSite
  <2> QED
    BY <2>1
<1> QED
  BY StepsOfNext, <1>1, <1>2, <1>3, <1>4, <1>5, <1>6, <1>7

(* What the past of a job depends on. *)
LEMMA AddedKept ==
    ASSUME NEW kind, NEW d, Added(kind, d),
           day' = day /\ (cron = "done" => cron' = "done") /\ (alert # "none" => alert' # "none")
    PROVE  Added(kind, d)'
BY DEF Added

(* Steps that leave the client jobs alone, or only drop one. *)
LEMMA JobsOnceKept ==
    ASSUME JobsOnce, jobs' \subseteq jobs, UNCHANGED <<day, cron, queued>>, alert # "none" => alert' # "none"
    PROVE  JobsOnce'
<1>1. \A kind, d : Added(kind, d) => Added(kind, d)'
  BY AddedKept
<1> QED
  BY <1>1 DEF JobsOnce

(* Cron: a job of a kind and a day is added once. *)
LEMMA JobsOnceCron ==
    ASSUME NotificationsTyped, JobsOnce,
           HandleDailyInspectionReminders \/ AddDailyJobs \/ RaiseAlert \/ NextDay
    PROVE  JobsOnce'
<1>1. CASE HandleDailyInspectionReminders
  <2>1. UNCHANGED <<day, jobs, queued, alert>> /\ cron = "due"
    BY <1>1 DEF HandleDailyInspectionReminders, world
  <2>2. \A kind, d : Added(kind, d) => Added(kind, d)'
    BY <2>1 DEF Added
  <2> QED
    BY <2>1, <2>2 DEF JobsOnce
<1>2. CASE NextDay
  <2>1. UNCHANGED <<jobs, queued, alert>> /\ day' = day + 1 /\ day \in Nat
    BY <1>2 DEF NextDay, NotificationsTyped
  <2>2. \A kind, d : Added(kind, d) => Added(kind, d)'
    BY <2>1 DEF Added
  <2> QED
    BY <2>1, <2>2 DEF JobsOnce
<1>3. CASE AddDailyJobs
  <2> DEFINE new == jobs' \ jobs
  <2>1. UNCHANGED <<day, queued, alert>> /\ cron = "listed" /\ cron' = "done" /\ day \in Nat /\ jobs \subseteq jobs'
    BY <1>3 DEF AddDailyJobs, NotificationsTyped, world
  <2>2. \A k \in new : k \in {Job("daily", day), Job("monthly", day)}
    BY <1>3 DEF AddDailyJobs
  <2>3. \A k \in new : k.day = day /\ k.kind \in {"daily", "monthly"} /\ k.st = "waiting" /\ k.mails = {}
    BY <2>1, <2>2, JobNew
  <2>4. \A k, l \in new : k.kind = l.kind => k = l
    BY <2>1, <2>2, JobNew
  <2>5. \A kind, d : Added(kind, d) => Added(kind, d)' /\ (kind \in {"daily", "monthly"} => d # day)
    BY <2>1 DEF Added
  <2>6. \A k \in new : Added(k.kind, k.day)'
    BY <2>1, <2>3 DEF Added
  <2>7. \A k \in new : (\A j \in jobs : ~(j.kind = k.kind /\ j.day = k.day)) /\ \A x \in queued : ~From(x, k)
    BY <2>3, <2>5 DEF JobsOnce, From
  <2>8. \A k \in jobs' : k \in jobs \/ k \in new
    OBVIOUS
  <2> HIDE DEF new
  <2>9. \A j \in jobs' : /\ j.st # "stalled" /\ Added(j.kind, j.day)'
                         /\ \A x \in j.mails : From(x, j)
                         /\ j.st \in {"waiting", "active"} => \A x \in queued : ~From(x, j)
    BY <2>3, <2>5, <2>6, <2>7, <2>8 DEF JobsOnce
  <2>10. \A j, k \in jobs' : (j.kind = k.kind /\ j.day = k.day) => j = k
    BY <2>4, <2>7, <2>8 DEF JobsOnce
  <2>11. \A x \in queued : Added(Kind(x), OriginDay(x))'
    BY <2>5 DEF JobsOnce
  <2> QED
    BY <2>1, <2>9, <2>10, <2>11 DEF JobsOnce, From, Kind, OriginDay, ThresholdDay
<1>4. CASE RaiseAlert
  <2>0. PICK k : k = Job("alert", day)
    OBVIOUS
  <2>1. UNCHANGED <<day, queued, cron>> /\ day = StartDay /\ day \in Nat /\ jobs' = jobs \cup {k}
        /\ alert = "none" /\ alert' = "written"
    BY <1>4, <2>0 DEF RaiseAlert, NotificationsTyped
  <2>2. k.kind = "alert" /\ k.day = day /\ k.st = "waiting" /\ k.mails = {}
    BY <2>0, <2>1, JobNew
  <2>3. \A kind, d : Added(kind, d) => Added(kind, d)' /\ kind # "alert"
    BY <2>1 DEF Added
  <2>4. Added(k.kind, k.day)'
    BY <2>1, <2>2 DEF Added
  <2>5. (\A j \in jobs : j.kind # k.kind) /\ \A x \in queued : ~From(x, k)
    BY <2>2, <2>3 DEF JobsOnce, From
  <2>6. \A j \in jobs' : /\ j.st # "stalled" /\ Added(j.kind, j.day)'
                         /\ \A x \in j.mails : From(x, j)
                         /\ j.st \in {"waiting", "active"} => \A x \in queued : ~From(x, j)
    BY <2>1, <2>2, <2>3, <2>4, <2>5 DEF JobsOnce
  <2>7. \A j, l \in jobs' : (j.kind = l.kind /\ j.day = l.day) => j = l
    BY <2>1, <2>5 DEF JobsOnce
  <2> QED
    BY <2>1, <2>3, <2>6, <2>7 DEF JobsOnce
<1> QED
  BY <1>1, <1>2, <1>3, <1>4

(* A job in another state. *)
LEMMA JobsOnceReplaced ==
    ASSUME NotificationsTyped, JobsOnce, NEW j \in jobs, NEW k, jobs' = Replace(jobs, j, k),
           UNCHANGED <<day, cron, alert>>,
           k.kind = j.kind, k.day = j.day, k.st # "stalled", \A x \in k.mails : From(x, j),
           \/ queued' = queued /\ j.st = "waiting"
           \/ queued' = queued \cup j.mails /\ k.st \notin {"waiting", "active"}
    PROVE  JobsOnce'
<1>1. \A kind, d : Added(kind, d) => Added(kind, d)'
  BY AddedKept
<1>2. \A x : From(x, k) <=> From(x, j)
  BY DEF From
<1>3. \A l \in jobs' : l = k \/ (l \in jobs /\ l # j)
  BY DEF Replace
<1>4. \A x \in queued' : x \in queued \/ x \in j.mails
  OBVIOUS
<1>5. \A x \in queued' : Added(Kind(x), OriginDay(x))'
  BY <1>1, <1>4 DEF JobsOnce, From
<1>6. \A l \in jobs : l # j => ~(l.kind = j.kind /\ l.day = j.day)
  BY DEF JobsOnce
<1>7. \A l \in jobs : l # j => \A x \in j.mails : ~From(x, l)
  BY <1>6 DEF JobsOnce, From
<1>8. \A l, i \in jobs' : (l.kind = i.kind /\ l.day = i.day) => l = i
  BY <1>3, <1>6 DEF JobsOnce
<1>9. \A l \in jobs' : l.st \in {"waiting", "active"} => \A x \in queued' : ~From(x, l)
  <2> SUFFICES ASSUME NEW l \in jobs', l.st \in {"waiting", "active"}, NEW x \in queued' PROVE ~From(x, l)
    OBVIOUS
  <2>1. CASE l = k
    BY <1>2, <2>1 DEF JobsOnce
  <2>2. CASE l # k
    BY <1>3, <1>4, <1>7, <2>2 DEF JobsOnce
  <2> QED
    BY <2>1, <2>2
<1>10. \A l \in jobs' : /\ l.st # "stalled" /\ Added(l.kind, l.day)'
                        /\ \A x \in l.mails : From(x, l)
  BY <1>1, <1>2, <1>3 DEF JobsOnce
<1> QED
  BY <1>5, <1>8, <1>9, <1>10 DEF JobsOnce

(* The workers of both queues. *)
LEMMA OnceWorkers ==
    ASSUME NotificationsTyped, JobsOnce, MailsOnce, Calm',
           \/ \E j \in jobs : Process(j) \/ AddBulk(j) \/ Complete(j)
           \/ \E e \in mails : Send(e) \/ SendFails(e) \/ Sent(e)
    PROVE  JobsOnce' /\ MailsOnce'
<1>0. (\A e \in mails : e \in MailRows) /\ \A j \in jobs : j \in JobRows
  BY DEF NotificationsTyped
<1>1. ASSUME NEW j \in jobs, Process(j) PROVE JobsOnce' /\ MailsOnce'
  <2>1. j.day = day /\ UNCHANGED <<day, cron, alert, queued, mails, delivered, again>> /\ j.st = "waiting"
    BY <1>1 DEF Process, Calm, world
  <2>2. j.kind = "alert" => j.day = StartDay
    BY DEF JobsOnce, Added
  <2>3. PICK k : /\ jobs' = Replace(jobs, j, k)
                 /\ k = [j EXCEPT !.st = "failed"] \/ k = [j EXCEPT !.st = "active", !.mails = MailsOf(j)]
    BY <1>1 DEF Process
  <2>4. /\ k.kind = j.kind /\ k.day = j.day /\ k.st # "stalled"
        /\ k.mails = j.mails \/ k.mails = MailsOf(j)
    BY <1>0, <2>3 DEF JobRows
  <2>5. \A x \in k.mails : From(x, j)
    BY <1>0, <2>1, <2>2, <2>4, MailsFromJob DEF JobsOnce
  <2>6. JobsOnce'
    BY <2>1, <2>3, <2>4, <2>5, JobsOnceReplaced
  <2> QED
    BY <2>1, <2>6 DEF MailsOnce
<1>2. ASSUME NEW j \in jobs, AddBulk(j) PROVE JobsOnce' /\ MailsOnce'
  <2> DEFINE k == [j EXCEPT !.st = "queued"]
             row(x) == [mail |-> x, st |-> "waiting", tries |-> 0, stalls |-> 0]
  <2>1. /\ UNCHANGED <<day, cron, alert, delivered>> /\ queued' = queued \cup j.mails
        /\ again' = again \cup (j.mails \cap queued)
        /\ jobs' = Replace(jobs, j, k) /\ j.st = "active"
        /\ mails' = mails \cup {row(x) : x \in j.mails}
    BY <1>2 DEF AddBulk, world
  <2>2. k.kind = j.kind /\ k.day = j.day /\ k.st = "queued" /\ k.mails = j.mails
    BY <1>0 DEF JobRows
  <2> HIDE DEF k
  <2>3. \A x \in k.mails : From(x, j)
    BY <2>2 DEF JobsOnce
  <2>4. JobsOnce'
    BY <2>1, <2>2, <2>3, JobsOnceReplaced
  <2>5. \A x \in j.mails : x \notin queued
    BY <2>1 DEF JobsOnce
  <2>6. \A e \in mails' : e \in mails \/ (e.mail \in j.mails /\ e.st = "waiting" /\ e = row(e.mail))
    BY <2>1
  <2> HIDE DEF row
  <2>7. \A e, f \in mails' : e.mail = f.mail => e = f
    BY <2>5, <2>6 DEF MailsOnce
  <2>8. \A e \in mails' : /\ e.st # "stalled" /\ e.mail \in queued'
                          /\ e.st # "sent" => e.mail \notin delivered
    BY <2>1, <2>5, <2>6 DEF MailsOnce
  <2>9. again' = {} /\ delivered' \subseteq queued'
    BY <2>1, <2>5 DEF MailsOnce
  <2>10. MailsOnce'
    BY <2>1, <2>7, <2>8, <2>9 DEF MailsOnce
  <2> QED
    BY <2>4, <2>10
<1>3. ASSUME NEW j \in jobs, Complete(j) PROVE JobsOnce' /\ MailsOnce'
  <2>1. jobs' \subseteq jobs /\ UNCHANGED <<day, cron, alert, queued, mails, delivered, again>>
    BY <1>3 DEF Complete, world
  <2> QED
    BY <2>1, JobsOnceKept DEF MailsOnce
<1>4. ASSUME NEW e \in mails, Send(e) \/ SendFails(e) \/ Sent(e) PROVE JobsOnce' /\ MailsOnce'
  <2>1. jobs' = jobs /\ UNCHANGED <<day, cron, alert, queued>>
    BY <1>4 DEF Send, SendFails, Sent, world
  <2>2. JobsOnce'
    BY <2>1, JobsOnceKept
  <2>3. CASE Send(e)
    <3> DEFINE f == [e EXCEPT !.st = "sent"]
    <3>1. mails' = Replace(mails, e, f) /\ f.mail = e.mail /\ f.st = "sent"
      BY <1>0, <2>3 DEF Send, MailRows
    <3>2. delivered' = delivered \cup {e.mail} /\ again' = again \cup ({e.mail} \cap delivered) /\ e.st = "waiting"
      BY <2>3 DEF Send
    <3> HIDE DEF f
    <3>3. e.mail \notin delivered /\ e.mail \in queued
      BY <3>2 DEF MailsOnce
    <3>4. \A x \in mails' : x = f \/ (x \in mails /\ x # e /\ x.mail # e.mail)
      BY <3>1 DEF Replace, MailsOnce
    <3> QED
      BY <2>1, <2>2, <3>1, <3>2, <3>3, <3>4 DEF MailsOnce
  <2>4. CASE SendFails(e)
    <3>1. PICK st \in {"waiting", "failed"} : mails' = Replace(mails, e, [e EXCEPT !.tries = e.tries + 1, !.st = st])
      BY <2>4 DEF SendFails
    <3> DEFINE f == [e EXCEPT !.tries = e.tries + 1, !.st = st]
    <3>2. mails' = Replace(mails, e, f) /\ f.mail = e.mail /\ f.st = st
      BY <1>0, <3>1 DEF MailRows
    <3>3. UNCHANGED <<delivered, again>> /\ e.st = "waiting"
      BY <2>4 DEF SendFails
    <3> HIDE DEF f
    <3>4. \A x \in mails' : x = f \/ (x \in mails /\ x # e /\ x.mail # e.mail)
      BY <3>2 DEF Replace, MailsOnce
    <3> QED
      BY <2>1, <2>2, <3>2, <3>3, <3>4 DEF MailsOnce
  <2>5. CASE Sent(e)
    <3>1. mails' \subseteq mails /\ UNCHANGED <<delivered, again>>
      BY <2>5 DEF Sent
    <3> QED
      BY <2>1, <2>2, <3>1 DEF MailsOnce
  <2> QED
    BY <1>4, <2>3, <2>4, <2>5
<1> QED
  BY <1>1, <1>2, <1>3, <1>4

(* Without a crash, a retry or a job that ran late, everything is done once. *)
LEMMA SentOnceStep == NotificationsTyped /\ SentOnce /\ [Next]_vars => SentOnce'
<1> SUFFICES ASSUME NotificationsTyped, SentOnce, [Next]_vars, Calm' PROVE JobsOnce' /\ MailsOnce'
  BY DEF SentOnce
<1>1. excuses \subseteq excuses'
  <2>1. CASE \/ HandleDailyInspectionReminders \/ AddDailyJobs \/ RaiseAlert
             \/ \E j \in jobs : Process(j) \/ AddBulk(j) \/ Complete(j) \/ RetryJob(j) \/ RemoveJob(j)
    BY <2>1 DEF HandleDailyInspectionReminders, AddDailyJobs, RaiseAlert, Process, AddBulk, Complete, RetryJob,
                RemoveJob
  <2>2. CASE \/ \E e \in mails : Send(e) \/ SendFails(e) \/ Sent(e)
             \/ Crash \/ CheckStalled \/ NextDay
             \/ \E r \in {"committed", "gone"} : EndInspection(r)
             \/ \E a \in DOMAIN Assets, t \in {0, Unit - 1} : Inspect(a, t)
             \/ \E m \in Moves : MoveSite(m)
             \/ UNCHANGED vars
    BY <2>2 DEF Send, SendFails, Sent, Crash, CheckStalled, NextDay, EndInspection, Inspect, MoveSite, vars
  <2> QED
    BY StepsOfNext, <2>1, <2>2
<1>2. JobsOnce /\ MailsOnce
  BY <1>1 DEF SentOnce, Calm
<1>3. CASE \/ \E j \in jobs : Process(j) \/ AddBulk(j) \/ Complete(j)
           \/ \E e \in mails : Send(e) \/ SendFails(e) \/ Sent(e)
  BY <1>2, <1>3, OnceWorkers
<1>4. CASE HandleDailyInspectionReminders \/ AddDailyJobs \/ RaiseAlert \/ NextDay
  <2>1. UNCHANGED <<mails, queued, delivered, again>>
    BY <1>4 DEF HandleDailyInspectionReminders, AddDailyJobs, RaiseAlert, NextDay
  <2> QED
    BY <1>2, <1>4, <2>1, JobsOnceCron DEF MailsOnce
<1>5. CASE \/ \E j \in jobs : RemoveJob(j)
           \/ \E r \in {"committed", "gone"} : EndInspection(r)
           \/ \E a \in DOMAIN Assets, t \in {0, Unit - 1} : Inspect(a, t)
           \/ \E m \in Moves : MoveSite(m)
           \/ UNCHANGED vars
  <2>1. jobs' \subseteq jobs /\ UNCHANGED <<day, cron, queued, mails, delivered, again>>
    BY <1>5 DEF RemoveJob, EndInspection, Inspect, MoveSite, vars, world
  <2>2. alert # "none" => alert' # "none"
    BY <1>5 DEF RemoveJob, EndInspection, Inspect, MoveSite, vars, world
  <2> QED
    BY <1>2, <2>1, <2>2, JobsOnceKept DEF MailsOnce
<1>6. CASE Crash \/ \E j \in jobs : RetryJob(j)
  BY <1>6 DEF Crash, RetryJob, Calm
<1>7. CASE CheckStalled
  BY <1>2, <1>7 DEF CheckStalled, JobsOnce, MailsOnce
<1> QED
  BY StepsOfNext, <1>3, <1>4, <1>5, <1>6, <1>7

(* The invariant of the queues, for every schedule of crashes, retries,    *)
(* inspections and changes of sites.                                       *)
NotificationsInv == NotificationsTyped /\ WarningsGiven /\ Kept /\ SentOnce

(* The inductive invariant of the two queues (processors of both, cron). *)
THEOREM NotificationsInvariant == Spec => []NotificationsInv
<1>1. Init => NotificationsInv
  <2> SUFFICES ASSUME Init PROVE Kept /\ SentOnce
    BY TypedInit, WarningsInit DEF NotificationsInv
  <2> QED
    BY DEF Init, Kept, NothingLost, SentOnce, JobsOnce, MailsOnce
<1>2. NotificationsInv /\ [Next]_vars => NotificationsInv'
  <2> SUFFICES ASSUME NotificationsInv, [Next]_vars PROVE NotificationsInv'
    OBVIOUS
  <2>1. NotificationsTyped'
    BY StepsOfNext, TypedJobs, TypedRest DEF NotificationsInv
  <2>2. WarningsGiven'
    BY <2>1, StepsOfNext, WarningsJobs, WarningsRest DEF NotificationsInv
  <2> QED
    BY <2>1, <2>2, KeptStep, SentOnceStep DEF NotificationsInv
<1> QED
  BY <1>1, <1>2, PTL DEF Spec

(* When every job has run on its day and nothing else explains a gap, an   *)
(* asset that is due has had its last warning (isThresholdMetToday and the *)
(* buckets of the client job).                                             *)
THEOREM LastWarningComes == Spec => []WarnedBeforeDue
<1>1. NotificationsInv => WarnedBeforeDue
  <2> SUFFICES ASSUME NotificationsTyped, WarningsGiven, excuses = {}, \A j \in jobs : j.day = day,
                      NEW a \in DOMAIN Assets, NEW m \in DOMAIN Members,
                      Due(a) \div Unit <= day, LastWarning \in Members[m].groups, Sees(m, a)
               PROVE  LastMail(m, a) \in queued
    BY DEF NotificationsInv, WarnedBeforeDue, LastMail
  <2>1. last[a] \in Nat /\ day \in Nat /\ Due(a) = DueAfter(a, last[a])
    BY DEF NotificationsTyped, Due, DueAfter
  <2>2. WarningDay(a) \in Int /\ WarningDay(a) < day
    BY <2>1, WarningTimes DEF WarningDay
  <2>3. WarningGiven(m, a)
    BY <2>1, <2>2 DEF WarningsGiven
  <2> QED
    BY <2>1, <2>2, <2>3 DEF WarningGiven
<1> QED
  BY <1>1, NotificationsInvariant, PTL

(* Every mail is accounted for: none is lost, none is queued or sent twice *)
(* without a crash, a retry or a delay, and none names an asset outside    *)
(* its reader's reach (getVisibleSiteIds, the processors of both queues).  *)
THEOREM MailsStayAccounted == Spec => MailsAccounted
<1>1. NotificationsInv => SecondMailExplained /\ NothingLost
  BY DEF NotificationsInv, SecondMailExplained, Kept, SentOnce, MailsOnce, Calm
<1>2. NotificationsInv /\ [Next]_vars =>
         [\A j \in jobs' \ jobs : j.st = "active" =>
            \A m \in j.mails : m.asset # None =>
               \E i \in DOMAIN Members[m.to].rows :
                  Reaches(parent, Members[m.to].rows[i], Assets[m.asset].site)]_vars
  BY ReachStep DEF NotificationsInv
<1> QED
  BY <1>1, <1>2, NotificationsInvariant, PTL DEF Spec, MailsAccounted, MailedWithinReach
=============================================================================
