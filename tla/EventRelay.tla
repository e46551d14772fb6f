----------------------------- MODULE EventRelay -----------------------------
(***************************************************************************)
(* The relay of execution events to open responses: the SSEStreamer of     *)
(* each server (its clients, and the observers of a chat), the channels    *)
(* its RedisEventSubscriber listens to, and the webhook listeners with     *)
(* their registry.                                                         *)
(*                                                                         *)
(* An SSEStreamer runs to completion in memory, so its operations are      *)
(* operators on the value of the variable relay.  Of what was written to a *)
(* response, relay.log keeps the latest event of each job, and the latest  *)
(* note about a chat as long as nothing of that chat was written after it. *)
(* A listener that left unnoticed is written to like any other.            *)
(* A SUBSCRIBE or UNSUBSCRIBE takes effect when Redis has answered it.     *)
(*                                                                         *)
(* Left out: the 'start' event, of which a client gets only the first, the *)
(* events of text to speech, failures of Redis, the time a listener is     *)
(* registered before its stream opens (main mode) or without a heartbeat,  *)
(* and repeats: a channel that two subscriptions reached at once delivers  *)
(* each of its events twice.                                               *)
(***************************************************************************)
EXTENDS Naturals

CONSTANTS
  Server, Chat, Listener,
  Request,       \* requests, each with a response of its own (numbers from 1)
  NoConn, NoServer, NoListener

Conn == Request \cup Listener    \* responses
ClientId == Chat \cup Listener   \* keys of the clients map

ASSUME RelayRequests == Request \subseteq Nat \ {0}
ASSUME RelayDistinct ==
  NoConn \notin Conn \cup Chat /\ NoServer \notin Server /\ NoListener \notin Listener
ASSUME RelayIds == Chat \cap Listener = {} /\ Request \cap Listener = {}

VARIABLES
  relay,        \* clients, observers, and what each response was sent
  subscribed,   \* server -> channels in subscribedChannels
  subs, unsubs, \* subscriptions and unsubscriptions Redis has not answered
  listener,     \* webhook listeners
  registry,     \* listener -> the server it is registered with
  binds         \* bind messages under way to other servers

relayVars == <<relay, subscribed, subs, unsubs, listener, registry, binds>>

RelayInit ==
  /\ relay = [clients   |-> [s \in Server |-> [i \in ClientId |-> NoConn]],
              observers |-> [s \in Server |-> [c \in Chat |-> {}]],
              line      |-> [k \in Conn |-> "none"],
              log       |-> [k \in Conn |-> {}]]
  /\ subscribed = [s \in Server |-> {}]
  /\ subs = {} /\ unsubs = {} /\ binds = {}
  /\ listener = [l \in Listener |-> [pc |-> "idle", server |-> NoServer]]
  /\ registry = [l \in Listener |-> NoServer]

-----------------------------------------------------------------------------
(* SSEStreamer.                                                            *)

(* What is written to a response: the n-th event of an attempt at a job,   *)
(* or a note that concerns a chat.                                         *)
Event(c, job, try, n) == [what |-> "event", chat |-> c, job |-> job, try |-> try, n |-> n]
Note(what, c) == [what |-> what, chat |-> c, job |-> 0, try |-> 0, n |-> 0]

AddClient(y, s, i, k) == [y EXCEPT !.clients[s][i] = k, !.line[k] = "open"]

AddObserver(y, s, c, l) == [y EXCEPT !.observers[s][c] = @ \cup {l}]

Watched(y, s, c) == y.clients[s][c] # NoConn \/ y.observers[s][c] # {}

Connected(y, s, ids) == {i \in ids : y.clients[s][i] # NoConn}
Lines(y, s, ids) == {y.clients[s][i] : i \in Connected(y, s, ids)}

(* An entry takes the place of the previous event of its job, and of a     *)
(* note about its chat.                                                    *)
Replaces(e, x) == IF x.what = "event" THEN x.job = e.job ELSE x.chat = e.chat
Recorded(log, e) == {x \in log : ~Replaces(e, x)} \cup {e}

(* A write to a response whose client has gone reaches nobody.             *)
Sent(y, conns, e) ==
  [k \in Conn |-> IF k \in conns /\ y.line[k] # "gone" THEN Recorded(y.log[k], e) ELSE y.log[k]]

(* An event goes to the client of the chat and to its observers; observers *)
(* that are no longer clients are forgotten.                               *)
SafeWrite(y, s, c, entry) ==
  [y EXCEPT !.log = Sent(y, Lines(y, s, {c} \cup y.observers[s][c]), entry),
            !.observers[s][c] = Connected(y, s, @)]

(* Mutant: the client is forgotten, its response never ended.              *)
Forgotten(y, s, i) == [y EXCEPT !.clients[s][i] = NoConn]

(* Mutant: the response is ended but stays a client.                       *)
EndedOnly(y, s, i) ==
  LET k == y.clients[s][i]
  IN  IF k = NoConn THEN y
      ELSE [y EXCEPT !.log = Sent(y, {k}, Note("end", i)),
                     !.line[k] = IF @ = "gone" THEN @ ELSE "ended"]

(* The client's response is ended and the client forgotten.                *)
Ended(y, s, i) ==
  LET k == y.clients[s][i]
  IN  IF k = NoConn THEN y
      ELSE [y EXCEPT !.log = Sent(y, {k}, Note("end", i)),
                     !.line[k] = IF @ = "gone" THEN @ ELSE "ended",
                     !.clients[s][i] = NoConn]

(* Observers are told that the execution is over, and let go of the chat.  *)
Told(y, s, i) ==
  IF i \notin Chat THEN y
  ELSE [y EXCEPT !.log = Sent(y, Lines(y, s, y.observers[s][i]), Note("executionEnd", i)),
                 !.observers[s][i] = {}]

(* Mutant: a removed client stays on the lists of the chats it observes.   *)
RemoveClientOnly(y, s, i) == Told(Ended(y, s, i), s, i)

(* Mutant: without a client there is nobody to tell.                       *)
RemoveClientOfResponse(y, s, i) ==
  IF y.clients[s][i] = NoConn THEN y ELSE Told(Ended(y, s, i), s, i)

(* A removed client observes nothing any more.                             *)
RemoveClient(y, s, i) ==
  LET told == Told(Ended(y, s, i), s, i)
  IN  [told EXCEPT !.observers[s] = [c \in Chat |-> @[c] \ {i}]]

-----------------------------------------------------------------------------
(* RedisEventSubscriber.                                                   *)

(* Who waits for the answer of Redis: a request, the handler of a bind     *)
(* message, or the periodic cleanup, which does not wait.                  *)
By(r) == <<r, NoListener>>
Cleaner == <<0, NoListener>>
Token(s, c, by) == [server |-> s, chat |-> c, by |-> by]

(* subscribe(): nothing to do when the channel is on the list.             *)
NewSubscriptions(s, c, by) == IF c \in subscribed[s] THEN {} ELSE {Token(s, c, by)}

(* unsubscribe(): nothing to do when it is not.                            *)
NewUnsubscriptions(s, c, by) == IF c \in subscribed[s] THEN {Token(s, c, by)} ELSE {}

(* Redis answers in the order of the commands.  Of one channel, what is    *)
(* still unanswered was sent unsubscriptions first when the channel is off *)
(* the list, and subscriptions first when it is on it: each of them is     *)
(* sent only then.                                                         *)
SameChannel(t, u) == t.server = u.server /\ t.chat = u.chat

SubscribeEnd(t) ==
  /\ t \in subs
  /\ t.chat \in subscribed[t.server] \/ \A u \in unsubs : ~ SameChannel(t, u)
  /\ subs' = subs \ {t}
  /\ subscribed' = [subscribed EXCEPT ![t.server] = @ \cup {t.chat}]

UnsubscribeEnd(t) ==
  /\ t \in unsubs
  /\ t.chat \notin subscribed[t.server] \/ \A u \in subs : ~ SameChannel(t, u)
  /\ unsubs' = unsubs \ {t}
  /\ subscribed' = [subscribed EXCEPT ![t.server] = @ \ {t.chat}]

Stale(s) == {c \in subscribed[s] : ~Watched(relay, s, c)}

(* The periodic cleanup.                                                   *)
Cleanup(s) ==
  /\ \E c \in Stale(s) : Token(s, c, Cleaner) \notin unsubs
  /\ unsubs' = unsubs \cup {Token(s, c, Cleaner) : c \in Stale(s)}
  /\ UNCHANGED <<relay, subscribed, subs, listener, registry, binds>>

(* A message goes to the servers that are subscribed to its channel.       *)
Receivers(c) == {s \in Server : c \in subscribed[s]}
Published(c, entry) ==
  LET conns(s) == Lines(relay, s, {c} \cup relay.observers[s][c])
  IN  [relay EXCEPT
         !.log = Sent(relay, UNION {conns(s) : s \in Receivers(c)}, entry),
         !.observers = [s \in Server |->
                          IF s \in Receivers(c)
                          THEN [relay.observers[s] EXCEPT ![c] = Connected(relay, s, @)]
                          ELSE relay.observers[s]]]

-----------------------------------------------------------------------------
(* Webhook listeners.                                                      *)

OpenListener(l, s) ==
  /\ listener[l].pc = "idle"
  /\ listener' = [listener EXCEPT ![l] = [pc |-> "added", server |-> s]]
  /\ relay' = AddClient(relay, s, l, l)
  /\ UNCHANGED <<subscribed, subs, unsubs, registry, binds>>

(* Its client goes away before the handler watches for that.               *)
LoseListener(l) ==
  /\ listener[l].pc = "added"
  /\ listener' = [listener EXCEPT ![l].pc = "left"]
  /\ UNCHANGED <<relay, subscribed, subs, unsubs, registry, binds>>

(* The first heartbeat registers it; later ones keep it registered, also   *)
(* one whose client has left unnoticed: it stays what it is for ever.      *)
Heartbeat(l) ==
  /\ listener[l].pc \in {"added", "left"}
  /\ listener' = [listener EXCEPT ![l].pc = IF @ = "left" THEN "lost" ELSE "open"]
  /\ registry' = [registry EXCEPT ![l] = listener[l].server]
  /\ UNCHANGED <<relay, subscribed, subs, unsubs, binds>>

(* The close handler, attached after the first heartbeat.                  *)
CloseListener(l) ==
  /\ listener[l].pc = "open"
  /\ listener' = [listener EXCEPT ![l].pc = "closing"]
  /\ relay' = RemoveClient(relay, listener[l].server, l)
  /\ UNCHANGED <<subscribed, subs, unsubs, registry, binds>>

Unregister(l) ==
  /\ listener[l].pc = "closing"
  /\ listener' = [listener EXCEPT ![l].pc = "closed"]
  /\ registry' = [registry EXCEPT ![l] = NoServer]
  /\ UNCHANGED <<relay, subscribed, subs, unsubs, binds>>

(* A bind message is dropped when its listener is not a client here.       *)
HandleBind(m) ==
  /\ m \in binds
  /\ binds' = binds \ {m}
  /\ IF relay.clients[m.server][m.listener] = NoConn
     THEN UNCHANGED <<relay, subs>>
     ELSE /\ relay' = AddObserver(relay, m.server, m.chat, m.listener)
          /\ subs' = subs \cup NewSubscriptions(m.server, m.chat, <<m.by, m.listener>>)
  /\ UNCHANGED <<subscribed, unsubs, listener, registry>>

(* The client of a request hangs up; a later write to it may throw, and    *)
(* then it is no longer a client.                                          *)
HangUp(r) ==
  /\ r \in Request /\ relay.line[r] = "open"
  /\ relay' = [relay EXCEPT !.line[r] = "gone"]
  /\ UNCHANGED <<subscribed, subs, unsubs, listener, registry, binds>>

DropDead(s, c) ==
  /\ relay.clients[s][c] # NoConn /\ relay.line[relay.clients[s][c]] = "gone"
  /\ relay' = [relay EXCEPT !.clients[s][c] = NoConn]
  /\ UNCHANGED <<subscribed, subs, unsubs, listener, registry, binds>>
=============================================================================
